------------------------- MODULE RegistrationProofs -------------------------
(***************************************************************************)
(* The types of Registration, first touch, that no referral is lost, and   *)
(* that an invite is granted once.                                         *)
(***************************************************************************)
EXTENDS Registration, TLAPS

\* The handler that has registered its user and has yet to attribute the
\* referral.
Creating(h) ==
    \/ task[h].pc = "lookup" /\ task[h].created
    \/ task[h].pc = "refer"

\* It works on the link that registered the user, who has no referral yet ...
CreatorKnows ==
    \A h \in Handlers : Creating(h) =>
        /\ task[h].who \in users
        /\ task[h].arg = origin[task[h].who]
        /\ task[h].arg.kind = "ref"
        /\ \A r \in referrals : r.referred # task[h].who
        /\ task[h].pc = "refer" => task[h].arg.referrer \in users \ {task[h].who}

\* ... and is the only one.
OneCreator ==
    \A g, h \in Handlers :
        Creating(g) /\ Creating(h) /\ task[g].who = task[h].who => g = h

Followed ==
    \A h \in Handlers :
        /\ task[h].pc \in {"peek", "claim"} =>
              task[h].who \in users /\ task[h].arg.kind = "beta"
        /\ task[h].pc = "lookup" =>
              task[h].who \in users /\ task[h].arg.kind = "ref"

OwedIsOrigin ==
    \A r \in owed :
        r.referrer # r.referred /\ origin[r.referred] = Link(r.referrer)

OwedKept ==
    faults = 0 =>
        \A r \in owed :
            \/ r \in referrals
            \/ \E h \in Handlers : Creating(h) /\ task[h].who = r.referred

RegInv ==
    /\ TypeOK /\ CreatorKnows /\ OneCreator /\ Followed
    /\ OwedIsOrigin /\ OwedKept /\ FirstTouch /\ InviteGrantedOnce

-----------------------------------------------------------------------------
LEMMA RegInit == Init => RegInv
<1> SUFFICES ASSUME Init PROVE RegInv
  OBVIOUS
<1>1. TypeOK
  BY DEF Init, TypeOK, Task, Idle, Argument, NoArgument
<1>2. \A h \in Handlers : task[h].pc = "idle"
  BY DEF Init, Idle
<1>3. CreatorKnows /\ OneCreator /\ Followed /\ OwedIsOrigin /\ OwedKept /\ FirstTouch
  BY <1>2 DEF Init, Creating, CreatorKnows, OneCreator, Followed,
              OwedIsOrigin, OwedKept, FirstTouch
<1>4. InviteGrantedOnce
  BY RegistrationAssumption DEF Init, InviteGrantedOnce
<1> QED
  BY <1>1, <1>3, <1>4 DEF RegInv

\* What the program counter says about the rest of a task.
LEMMA Shape ==
    ASSUME TypeOK, NEW h \in Handlers
    PROVE  /\ task[h].pc # "idle" => task[h].who \in Accounts /\ task[h].arg \in Argument
           /\ task[h].pc = "lookup" => task[h].created \in BOOLEAN
           /\ task[h].pc = "idle" <=> task[h] = Idle
           /\ task[h].pc \in {"idle", "read", "insert", "peek", "claim", "lookup", "refer"}
<1>1. task[h] \in Task
  BY DEF TypeOK
<1> QED
  BY <1>1 DEF Task, Idle

LEMMA Arguments ==
    ASSUME NEW arg \in Argument
    PROVE  /\ arg.kind = "ref" => arg.referrer \in Accounts /\ arg = Link(arg.referrer)
           /\ arg.kind = "beta" => arg.token \in Invites
  BY DEF Argument, NoArgument, Link

\* A step of h that leaves h without a referral to attribute, registers nobody
\* and attributes nothing keeps everything but the owed referrals.
LEMMA Aside ==
    ASSUME RegInv, TypeOK', NEW h \in Handlers,
           UNCHANGED <<users, referrals, origin, owed>>,
           \A g \in Handlers \ {h} : task'[g] = task[g],
           \/ task'[h].pc \in {"idle", "read", "insert"}
           \/ /\ task'[h].pc \in {"peek", "claim"}
              /\ task'[h].who \in users /\ task'[h].arg.kind = "beta"
           \/ /\ task'[h].pc = "lookup" /\ ~task'[h].created
              /\ task'[h].who \in users /\ task'[h].arg.kind = "ref"
    PROVE  /\ CreatorKnows' /\ OneCreator' /\ Followed' /\ OwedIsOrigin' /\ FirstTouch'
           /\ ~Creating(h) /\ faults' = faults => OwedKept'
<1> USE DEF RegInv
<1>1. ~Creating(h)' /\ \A g \in Handlers \ {h} : Creating(g)' <=> Creating(g)
  BY DEF Creating
<1>2. CreatorKnows' /\ OneCreator' /\ Followed'
  BY <1>1 DEF CreatorKnows, OneCreator, Followed
<1>3. OwedIsOrigin' /\ FirstTouch'
  BY DEF OwedIsOrigin, FirstTouch
<1>4. ~Creating(h) /\ faults' = faults => OwedKept'
  BY <1>1 DEF OwedKept
<1> QED
  BY <1>2, <1>3, <1>4

LEMMA TypeStep == TypeOK /\ CreatorKnows /\ Followed /\ [Next]_vars => TypeOK'
<1> SUFFICES ASSUME TypeOK, CreatorKnows, Followed, [Next]_vars PROVE TypeOK'
  OBVIOUS
<1> USE DEF Goto, tables
<1>1. faults + 1 \in Nat
  BY DEF TypeOK
<1>2. ASSUME NEW h \in Handlers, NEW u \in Accounts, NEW arg \in Argument,
             Begin(h, u, arg)
      PROVE  TypeOK'
  BY <1>2 DEF Begin, TypeOK, Task
<1>3. ASSUME NEW h \in Handlers, NEW created \in BOOLEAN, Registered(h, created),
             task[h].pc \in {"read", "insert"}
      PROVE  task' \in [Handlers -> Task]
  BY <1>3, Shape DEF Registered, TypeOK, Task
<1>4. ASSUME NEW h \in Handlers, ReadUser(h) PROVE TypeOK'
  <2>1. [task[h] EXCEPT !.pc = "insert"] \in Task
    <3>1. task[h] \in [pc : {"read", "insert", "peek", "claim"},
                       who : Accounts, arg : Argument]
      BY <1>4 DEF ReadUser, TypeOK, Task, Idle
    <3> QED
      BY <3>1 DEF Task
  <2>2. task' \in [Handlers -> Task]
    BY <1>3, <1>4, <2>1 DEF ReadUser, TypeOK
  <2> QED
    BY <1>4, <2>2 DEF ReadUser, TypeOK
<1>5. ASSUME NEW h \in Handlers, InsertUser(h) PROVE TypeOK'
  <2>1. task' \in [Handlers -> Task]
    BY <1>3, <1>5 DEF InsertUser
  <2>2. task[h].who \in Accounts /\ task[h].arg \in Argument
    BY <1>5, Shape DEF InsertUser
  <2>3. users' \subseteq Accounts /\ users \subseteq users' /\ task[h].who \in users'
    BY <1>5, <2>2 DEF InsertUser, TypeOK
  <2>4. owed' \subseteq [referrer : users', referred : users']
    BY <1>5, <2>3 DEF InsertUser, TypeOK, Referral
  <2>5. origin' \in [Accounts -> Argument]
    BY <1>5, <2>2 DEF InsertUser, TypeOK
  <2> QED
    BY <1>5, <2>1, <2>3, <2>4, <2>5 DEF InsertUser, TypeOK
<1>6. ASSUME NEW h \in Handlers, InsertConflicts(h) PROVE TypeOK'
  BY <1>6 DEF InsertConflicts, TypeOK, Task
<1>7. ASSUME NEW h \in Handlers, Peek(h) PROVE TypeOK'
  <2>1. [task[h] EXCEPT !.pc = "claim"] \in Task
    <3>1. task[h] \in [pc : {"read", "insert", "peek", "claim"},
                       who : Accounts, arg : Argument]
      BY <1>7 DEF Peek, TypeOK, Task, Idle
    <3> QED
      BY <3>1 DEF Task
  <2> QED
    BY <1>7, <2>1 DEF Peek, TypeOK, Task
<1>8. ASSUME NEW h \in Handlers, Claim(h) PROVE TypeOK'
  <2>1. task[h].who \in users /\ task[h].who \in Accounts /\ task[h].arg.token \in Invites
    BY <1>8, Shape, Arguments DEF Claim, Followed
  <2>2. task' \in [Handlers -> Task]
    BY <1>8 DEF Claim, TypeOK, Task
  <2> QED
    BY <1>8, <2>1, <2>2 DEF Claim, TypeOK
<1>9. ASSUME NEW h \in Handlers, LookUpReferrer(h) PROVE TypeOK'
  <2>1. task[h].who \in Accounts /\ task[h].arg \in Argument
    BY <1>9, Shape DEF LookUpReferrer
  <2> QED
    BY <1>9, <2>1 DEF LookUpReferrer, TypeOK, Task
<1>10. ASSUME NEW h \in Handlers, InsertReferral(h) PROVE TypeOK'
  <2>1. task[h].who \in users /\ task[h].arg.referrer \in users
    BY <1>10 DEF InsertReferral, CreatorKnows, Creating
  <2>2. task' \in [Handlers -> Task]
    BY <1>10 DEF InsertReferral, TypeOK, Task
  <2> QED
    BY <1>10, <2>1, <2>2 DEF InsertReferral, TypeOK
<1>11. ASSUME NEW h \in Handlers, Fails(h) PROVE TypeOK'
  BY <1>1, <1>11 DEF Fails, Fault, TypeOK, Task
<1>12. CASE Crash
  BY <1>1, <1>12 DEF Crash, Fault, TypeOK, Task
<1>13. CASE UNCHANGED vars
  BY <1>13 DEF vars, TypeOK
<1> QED
  BY <1>2, <1>4, <1>5, <1>6, <1>7, <1>8, <1>9, <1>10, <1>11, <1>12, <1>13
     DEF Next, Step

\* Invites: a claim is granted in the transaction that makes it.
LEMMA InviteStep ==
    TypeOK /\ InviteGrantedOnce /\ [Next]_vars => InviteGrantedOnce'
<1> SUFFICES ASSUME TypeOK, InviteGrantedOnce, [Next]_vars
             PROVE  InviteGrantedOnce'
  OBVIOUS
<1>1. CASE UNCHANGED <<usedBy, granted>>
  BY <1>1 DEF InviteGrantedOnce
<1>2. ASSUME NEW h \in Handlers, Claim(h) PROVE InviteGrantedOnce'
  <2>1. task[h].who # Nobody
    BY <1>2, Shape, RegistrationAssumption DEF Claim
  <2>2. CASE usedBy[task[h].arg.token] = Nobody
    <3> DEFINE token == task[h].arg.token
               who == task[h].who
    <3>1. /\ usedBy' = [usedBy EXCEPT ![token] = who]
          /\ granted' = granted \cup {<<token, who>>}
      BY <1>2, <2>2 DEF Claim
    <3>2. \A u \in Accounts : <<token, u>> \notin granted
      <4>1. token \in Invites \/ token \notin Invites
        OBVIOUS
      <4>2. CASE token \in Invites
        BY <2>2, <4>2, RegistrationAssumption DEF InviteGrantedOnce
      <4>3. CASE token \notin Invites
        BY <4>3 DEF TypeOK
      <4> QED
        BY <4>1, <4>2, <4>3
    <3> SUFFICES ASSUME NEW t \in Invites, NEW u \in Accounts
                 PROVE  <<t, u>> \in granted' <=> usedBy'[t] = u
      BY DEF InviteGrantedOnce
    <3>3. usedBy'[t] = IF t = token THEN who ELSE usedBy[t]
      BY <3>1 DEF TypeOK
    <3>4. CASE t = token
      BY <3>1, <3>2, <3>3, <3>4
    <3>5. CASE t # token
      BY <3>1, <3>3, <3>5 DEF InviteGrantedOnce
    <3> QED
      BY <3>4, <3>5
  <2>3. CASE usedBy[task[h].arg.token] # Nobody
    BY <1>1, <1>2, <2>3 DEF Claim
  <2> QED
    BY <2>2, <2>3
<1> QED
  BY <1>1, <1>2 DEF Next, Step, Begin, ReadUser, InsertUser, InsertConflicts,
                    Peek, LookUpReferrer, InsertReferral, Fails, Crash, vars, tables

LEMMA RegStep == RegInv /\ [Next]_vars => RegInv'
<1> SUFFICES ASSUME RegInv, [Next]_vars PROVE RegInv'
  OBVIOUS
<1>1. TypeOK' /\ InviteGrantedOnce'
  BY TypeStep, InviteStep DEF RegInv
<1>2. /\ TypeOK /\ CreatorKnows /\ OneCreator /\ Followed /\ OwedIsOrigin
      /\ OwedKept /\ FirstTouch
      /\ DOMAIN task = Handlers
  BY DEF RegInv, TypeOK
<1> USE DEF Goto, tables
<1>3. ASSUME NEW h \in Handlers, NEW u \in Accounts, NEW arg \in Argument,
             Begin(h, u, arg)
      PROVE  RegInv'
  <2>1. ~Creating(h) /\ task'[h].pc = "read"
    BY <1>2, <1>3 DEF Begin, Idle, Creating
  <2> QED
    BY <1>1, <1>2, <1>3, <2>1, Aside DEF Begin, RegInv
<1>4. ASSUME NEW h \in Handlers, ReadUser(h) PROVE RegInv'
  <2>1. ~Creating(h)
    BY <1>4 DEF ReadUser, Creating
  <2>2. CASE task[h].who \in users
    BY <1>1, <1>2, <1>4, <2>1, <2>2, Aside DEF ReadUser, Registered, RegInv, Idle
  <2>3. CASE task[h].who \notin users
    <3>1. task'[h].pc = "insert"
      <4>1. task[h] \in [pc : {"read", "insert", "peek", "claim"},
                         who : Accounts, arg : Argument]
        BY <1>4 DEF ReadUser, RegInv, TypeOK, Task, Idle
      <4> QED
        BY <1>2, <1>4, <2>3, <4>1 DEF ReadUser
    <3> QED
      BY <1>1, <1>2, <1>4, <2>1, <2>3, <3>1, Aside DEF ReadUser, RegInv
  <2> QED
    BY <2>2, <2>3
<1>5. ASSUME NEW h \in Handlers, InsertUser(h) PROVE RegInv'
  <2> DEFINE u == task[h].who
             arg == task[h].arg
  <2>1. /\ u \in Accounts /\ arg \in Argument /\ u \notin users
        /\ users' = users \cup {u} /\ UNCHANGED <<referrals, faults>>
        /\ \A v \in users : origin'[v] = origin[v]
        /\ origin'[u] = arg
        /\ ~Creating(h)
        /\ \A g \in Handlers \ {h} : task'[g] = task[g]
    BY <1>2, <1>5, Shape DEF InsertUser, Registered, TypeOK, Creating
  <2>2. \/ arg.kind = "beta" /\ task'[h].pc = "peek" /\ task'[h].who = u
           /\ task'[h].arg = arg
        \/ arg.kind = "ref" /\ task'[h].pc = "lookup" /\ task'[h].created
           /\ task'[h].who = u /\ task'[h].arg = arg
        \/ arg.kind \notin {"beta", "ref"} /\ task'[h].pc = "idle"
    BY <1>2, <1>5 DEF InsertUser, Registered, Idle
  <2>3. /\ \A g \in Handlers \ {h} : Creating(g)' <=> Creating(g)
        /\ \A g \in Handlers \ {h} : Creating(g) => task[g].who \in users
        /\ Creating(h)' <=> arg.kind = "ref"
    BY <1>2, <2>1, <2>2 DEF Creating, CreatorKnows
  <2>4. \A r \in referrals : r.referred \in users
    BY <1>2 DEF TypeOK
  <2>5. CreatorKnows' /\ OneCreator' /\ Followed'
    BY <1>2, <2>1, <2>2, <2>3, <2>4 DEF CreatorKnows, OneCreator, Followed
  <2>6. \A r \in owed' : \/ r \in owed /\ r.referred \in users
                         \/ /\ arg = Link(r.referrer) /\ r.referrer \in users
                            /\ r.referred = u
    BY <1>2, <1>5 DEF InsertUser, TypeOK
  <2>7. OwedIsOrigin' /\ FirstTouch'
    BY <1>2, <2>1, <2>4, <2>6 DEF OwedIsOrigin, FirstTouch
  <2>8. OwedKept'
    <3> SUFFICES ASSUME faults = 0, NEW r \in owed'
                 PROVE  \/ r \in referrals
                        \/ \E g \in Handlers : Creating(g)' /\ task'[g].who = r.referred
      BY <2>1 DEF OwedKept
    <3>1. CASE r \in owed
      <4>1. CASE r \in referrals
        BY <4>1
      <4>2. CASE \E g \in Handlers : Creating(g) /\ task[g].who = r.referred
        BY <2>1, <2>3, <4>2
      <4> QED
        BY <1>2, <3>1, <4>1, <4>2 DEF OwedKept
    <3>2. CASE arg = Link(r.referrer) /\ r.referred = u
      <4>1. arg.kind = "ref"
        BY <3>2 DEF Link
      <4> QED
        BY <2>2, <2>3, <3>2, <4>1
    <3> QED
      BY <2>6, <3>1, <3>2
  <2> QED
    BY <1>1, <2>5, <2>7, <2>8 DEF RegInv
<1>6. ASSUME NEW h \in Handlers, InsertConflicts(h) PROVE RegInv'
  BY <1>1, <1>2, <1>6, Aside DEF InsertConflicts, Creating, RegInv, Idle
<1>7. ASSUME NEW h \in Handlers, Peek(h) PROVE RegInv'
  <2>1. ~Creating(h)
    BY <1>7 DEF Peek, Creating
  <2>2. \/ task'[h].pc = "idle"
        \/ /\ task'[h].pc = "claim" /\ task'[h].who \in users
           /\ task'[h].arg.kind = "beta"
    <3>1. task[h] \in [pc : {"read", "insert", "peek", "claim"},
                       who : Accounts, arg : Argument]
      BY <1>7 DEF Peek, RegInv, TypeOK, Task, Idle
    <3> QED
      BY <1>2, <1>7, <3>1 DEF Peek, Followed, Idle
  <2> QED
    BY <1>1, <1>2, <1>7, <2>1, <2>2, Aside DEF Peek, RegInv
<1>8. ASSUME NEW h \in Handlers, Claim(h) PROVE RegInv'
  BY <1>1, <1>2, <1>8, Aside DEF Claim, Creating, RegInv, Idle
<1>9. ASSUME NEW h \in Handlers, LookUpReferrer(h) PROVE RegInv'
  <2>1. CASE ~Creating(h)
    <3>1. task'[h].pc = "idle"
      BY <1>2, <1>9, <2>1 DEF LookUpReferrer, MayRefer, Creating, Idle
    <3> QED
      BY <1>1, <1>2, <1>9, <2>1, <3>1, Aside DEF LookUpReferrer, RegInv
  <2>2. CASE Creating(h) /\ MayRefer(task[h])
    <3>1. /\ task'[h].pc = "refer" /\ task'[h].who = task[h].who
          /\ task'[h].arg = task[h].arg
          /\ \A g \in Handlers \ {h} : task'[g] = task[g]
          /\ UNCHANGED <<users, referrals, origin, owed, faults>>
      BY <1>2, <1>9, <2>2 DEF LookUpReferrer
    <3>2. \A g \in Handlers : /\ Creating(g)' <=> Creating(g)
                              /\ task'[g].who = task[g].who
      BY <2>2, <3>1 DEF Creating
    <3>3. CreatorKnows' /\ OneCreator' /\ Followed'
      BY <1>2, <2>2, <3>1, <3>2 DEF CreatorKnows, OneCreator, Followed, MayRefer
    <3>4. OwedIsOrigin' /\ FirstTouch' /\ OwedKept'
      BY <1>2, <3>1, <3>2 DEF OwedIsOrigin, FirstTouch, OwedKept
    <3> QED
      BY <1>1, <3>3, <3>4 DEF RegInv
  <2>3. CASE Creating(h) /\ ~MayRefer(task[h])
    <3>1. task'[h].pc = "idle" /\ \A g \in Handlers \ {h} : task'[g] = task[g]
      BY <1>2, <1>9, <2>3 DEF LookUpReferrer, Idle
    <3>2. \A r \in owed : r.referred # task[h].who
      <4> SUFFICES ASSUME NEW r \in owed, r.referred = task[h].who PROVE FALSE
        OBVIOUS
      <4>1. task[h].arg = Link(r.referrer) /\ r.referrer # r.referred
            /\ r.referrer \in users
        BY <1>2, <2>3 DEF CreatorKnows, OwedIsOrigin, TypeOK
      <4>2. task[h].arg.referrer = r.referrer /\ task[h].created
        BY <1>9, <2>3, <4>1 DEF Link, Creating, LookUpReferrer
      <4> QED
        BY <1>2, <2>3, <4>1, <4>2 DEF MayRefer, CreatorKnows
    <3>3. OwedKept'
      BY <1>2, <1>9, <3>1, <3>2 DEF LookUpReferrer, OwedKept, Creating
    <3>4. CreatorKnows' /\ OneCreator' /\ Followed' /\ OwedIsOrigin' /\ FirstTouch'
      BY <1>1, <1>9, <3>1, Aside DEF LookUpReferrer
    <3> QED
      BY <1>1, <3>3, <3>4 DEF RegInv
  <2> QED
    BY <2>1, <2>2, <2>3
<1>10. ASSUME NEW h \in Handlers, InsertReferral(h) PROVE RegInv'
  <2> DEFINE new == [referrer |-> task[h].arg.referrer, referred |-> task[h].who]
  <2>1. /\ Creating(h) /\ task'[h].pc = "idle"
        /\ \A g \in Handlers \ {h} : task'[g] = task[g]
        /\ UNCHANGED <<users, origin, owed, faults>>
    BY <1>2, <1>10 DEF InsertReferral, Creating, Idle
  <2>2. /\ referrals' = referrals \cup {new}
        /\ task[h].who \in users /\ task[h].arg.referrer # task[h].who
        /\ origin[task[h].who] = Link(task[h].arg.referrer)
    <3>1. task[h].arg = Link(task[h].arg.referrer)
      BY <1>2, <1>10, <2>1, Shape, Arguments DEF CreatorKnows, InsertReferral
    <3> QED
      BY <1>2, <1>10, <2>1, <3>1 DEF InsertReferral, CreatorKnows
  <2>3. /\ ~Creating(h)'
        /\ \A g \in Handlers \ {h} : /\ Creating(g)' <=> Creating(g)
                                     /\ Creating(g) => task[g].who # task[h].who
    BY <1>2, <2>1 DEF Creating, OneCreator
  <2>4. CreatorKnows' /\ OneCreator' /\ Followed'
    BY <1>2, <2>1, <2>2, <2>3 DEF CreatorKnows, OneCreator, Followed
  <2>5. OwedIsOrigin' /\ FirstTouch'
    BY <1>2, <2>1, <2>2 DEF OwedIsOrigin, FirstTouch
  <2>6. \A r \in owed : r.referred = task[h].who => r = new
    <3> SUFFICES ASSUME NEW r \in owed, r.referred = task[h].who PROVE r = new
      OBVIOUS
    <3>1. r \in [referrer : users, referred : users]
      BY <1>2 DEF TypeOK
    <3>2. Link(r.referrer) = Link(task[h].arg.referrer)
      BY <1>2, <2>2 DEF OwedIsOrigin
    <3>3. Link(r.referrer).referrer = Link(task[h].arg.referrer).referrer
      BY <3>2
    <3>4. r.referrer = task[h].arg.referrer
      BY <3>3 DEF Link
    <3> QED
      BY <3>1, <3>4
  <2>7. OwedKept'
    BY <1>2, <2>1, <2>2, <2>3, <2>6 DEF OwedKept
  <2> QED
    BY <1>1, <2>4, <2>5, <2>7 DEF RegInv
<1>11. ASSUME NEW h \in Handlers, Fails(h) PROVE RegInv'
  <2>1. OwedKept'
    BY <1>2, <1>11 DEF Fails, Fault, TypeOK, OwedKept
  <2> QED
    BY <1>1, <1>2, <1>11, <2>1, Aside DEF Fails, RegInv, Idle
<1>12. CASE Crash
  <2>1. /\ \A h \in Handlers : task'[h].pc = "idle" /\ ~Creating(h)'
        /\ UNCHANGED <<users, referrals, origin, owed>> /\ faults' # 0
    BY <1>2, <1>12 DEF Crash, Fault, Idle, Creating, TypeOK
  <2> QED
    BY <1>1, <1>2, <2>1 DEF RegInv, CreatorKnows, OneCreator, Followed,
                            OwedIsOrigin, OwedKept, FirstTouch
<1>13. CASE UNCHANGED vars
  BY <1>1, <1>2, <1>13 DEF vars, RegInv, CreatorKnows, OneCreator, Followed,
                      OwedIsOrigin, OwedKept, FirstTouch, Creating
<1> QED
  BY <1>3, <1>4, <1>5, <1>6, <1>7, <1>8, <1>9, <1>10, <1>11, <1>12, <1>13
     DEF Next, Step

-----------------------------------------------------------------------------
\* The invariant of registration: a user has at most one handler that may
\* attribute a referral, and it works on the link that registered the user.
THEOREM RegistrationInvariant == Spec => []RegInv
<1>1. RegInv /\ [Next]_vars => RegInv'
  BY RegStep
<1> QED
  BY RegInit, <1>1, PTL DEF Spec

\* Every variable keeps its type; both sides of a referral have a row.
THEOREM RegistrationTypeCorrect == Spec => []TypeOK
<1>1. RegInv => TypeOK
  BY DEF RegInv
<1> QED
  BY <1>1, RegistrationInvariant, PTL

\* referral/service.py:172-206: only the link that registered a user refers
\* them, and nobody refers themselves, for any number of updates at a time.
THEOREM ReferralIsFirstTouch == Spec => []FirstTouch
<1>1. RegInv => FirstTouch
  BY DEF RegInv
<1> QED
  BY <1>1, RegistrationInvariant, PTL

\* start.py:55-70: without a failure, every referral by somebody with a row is
\* recorded or still being recorded.
THEOREM ReferralsKept == Spec => []ReferralKept
<1>1. RegInv => ReferralKept
  BY DEF RegInv, OwedKept, ReferralKept, Creating
<1> QED
  BY <1>1, RegistrationInvariant, PTL

\* beta_invite.py:110-150: an invite is granted once, to who claimed it.
THEOREM InvitesGrantedOnce == Spec => []InviteGrantedOnce
<1>1. RegInv => InviteGrantedOnce
  BY DEF RegInv
<1> QED
  BY <1>1, RegistrationInvariant, PTL
=============================================================================
