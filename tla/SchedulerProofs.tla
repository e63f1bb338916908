--------------------------- MODULE SchedulerProofs ---------------------------
(* The clock for any callbacks, any calendar and any number of errors,        *)
(* restarts and loops: what is recorded was called; and, until a start() has  *)
(* found the thread of an earlier stop() alive, nothing is called twice and   *)
(* the weekly research is queued once and followed to its outcome.            *)
EXTENDS Scheduler, FiniteSetTheorems, TLAPS

USE SchedulerAssumption

-----------------------------------------------------------------------------
(* What a step makes of its loop.                                           *)

LoopRecords ==
  [step : -1 .. 7, phase : {"check", "call", "write"}, writes : Seq(Fields), now : Nat]

\* Only a loop that has something to write writes, and only one in run_once is
\* in a call or writes.
LoopsTyped ==
  /\ loop \in [Loops -> LoopRecords]
  /\ \A l \in Loops : loop[l].phase = "write" => loop[l].writes # <<>>
  /\ \A l \in Loops : loop[l].step < 1 => loop[l].phase = "check"

OnlyLoop(l) ==
  /\ loop' \in [Loops -> LoopRecords]
  /\ \A k \in Loops \ {l} : loop'[k] = loop[k]

LEMMA PartsInOrder ==
  /\ Len(Parts) = 7 /\ DOMAIN Parts = 1..7
  /\ Parts[1] = "refresh" /\ Parts[2] = "position" /\ Parts[3] = "entry" /\ Parts[4] = "risk"
  /\ Parts[5] = "weekly" /\ Parts[6] = "pre" /\ Parts[7] = "daily"
BY DEF Parts

LEMMA WithPhase ==
  ASSUME NEW r \in LoopRecords, NEW p \in {"check", "call", "write"}
  PROVE  LET s == [r EXCEPT !.phase = p]
         IN  /\ s \in LoopRecords /\ s.phase = p
             /\ s.step = r.step /\ s.writes = r.writes /\ s.now = r.now
BY DEF LoopRecords

LEMMA WithWrites ==
  ASSUME NEW r \in LoopRecords, NEW w \in Seq(Fields)
  PROVE  LET s == [r EXCEPT !.writes = w]
         IN  /\ s \in LoopRecords /\ s.writes = w
             /\ s.step = r.step /\ s.phase = r.phase /\ s.now = r.now
BY DEF LoopRecords

LEMMA WithStep ==
  ASSUME NEW r \in LoopRecords, NEW t \in -1 .. 7
  PROVE  LET s == [r EXCEPT !.step = t]
         IN  /\ s \in LoopRecords /\ s.step = t
             /\ s.phase = r.phase /\ s.writes = r.writes /\ s.now = r.now
BY DEF LoopRecords

LEMMA WithNow ==
  ASSUME NEW r \in LoopRecords, NEW t \in Nat
  PROVE  LET s == [r EXCEPT !.now = t]
         IN  /\ s \in LoopRecords /\ s.now = t
             /\ s.step = r.step /\ s.phase = r.phase /\ s.writes = r.writes
BY DEF LoopRecords

LEMMA AsleepTyped ==
  /\ Asleep \in LoopRecords /\ Asleep.phase = "check" /\ Asleep.step = 0 /\ Asleep.writes = <<>>
  /\ Gone \in LoopRecords /\ Gone.phase = "check" /\ Gone.step = -1
<1>1. <<>> \in Seq(Fields)
  OBVIOUS
<1>2. Asleep \in LoopRecords /\ Asleep.phase = "check" /\ Asleep.step = 0 /\ Asleep.writes = <<>>
  BY <1>1 DEF Asleep, LoopRecords
<1>3. -1 \in -1 .. 7
  OBVIOUS
<1>4. Gone \in LoopRecords /\ Gone.step = -1 /\ Gone.phase = Asleep.phase
  BY <1>2, <1>3, WithStep DEF Gone
<1> QED BY <1>2, <1>4

LEMMA LoopSet ==
  ASSUME LoopsTyped, NEW l \in Loops, NEW r \in LoopRecords, loop' = [loop EXCEPT ![l] = r]
  PROVE  OnlyLoop(l) /\ loop'[l] = r
BY DEF LoopsTyped, OnlyLoop

LEMMA CallStep ==
  ASSUME LoopsTyped, NEW l \in Loops, loop' = [loop EXCEPT ![l].phase = "call"]
  PROVE  /\ OnlyLoop(l) /\ loop'[l].phase = "call"
         /\ loop'[l].step = loop[l].step /\ loop'[l].now = loop[l].now
<1> DEFINE r == [loop[l] EXCEPT !.phase = "call"]
<1>1. loop' = [loop EXCEPT ![l] = r]
  BY DEF LoopsTyped
<1>2. /\ r \in LoopRecords /\ r.phase = "call"
      /\ r.step = loop[l].step /\ r.writes = loop[l].writes /\ r.now = loop[l].now
  BY WithPhase DEF LoopsTyped
<1> HIDE DEF r
<1>3. OnlyLoop(l) /\ loop'[l] = r
  BY <1>1, <1>2, LoopSet
<1> QED BY <1>2, <1>3

LEMMA SaveStep ==
  ASSUME LoopsTyped, NEW l \in Loops, NEW fields \in Seq(Fields), Save(l, fields)
  PROVE  /\ OnlyLoop(l) /\ loop'[l].phase = "write" /\ loop'[l].writes = fields
         /\ loop'[l].step = loop[l].step /\ loop'[l].now = loop[l].now
<1> DEFINE q == [loop[l] EXCEPT !.phase = "write"]
           r == [q EXCEPT !.writes = fields]
<1>1. loop' = [loop EXCEPT ![l] = r]
  BY DEF LoopsTyped, Save
<1>2. q \in LoopRecords /\ q.phase = "write" /\ q.step = loop[l].step /\ q.now = loop[l].now
  BY WithPhase DEF LoopsTyped
<1>3. /\ r \in LoopRecords /\ r.phase = "write" /\ r.writes = fields
      /\ r.step = loop[l].step /\ r.now = loop[l].now
  <2> HIDE DEF q
  <2> QED BY <1>2, WithWrites
<1> HIDE DEF r
<1>4. OnlyLoop(l) /\ loop'[l] = r
  BY <1>1, <1>3, LoopSet
<1> QED BY <1>3, <1>4

LEMMA SleepStep ==
  ASSUME LoopsTyped, NEW l \in Loops, Sleep(l)
  PROVE  OnlyLoop(l) /\ loop'[l].phase = "check" /\ loop'[l].step = 0
BY AsleepTyped, LoopSet DEF Sleep

LEMMA ProceedStep ==
  ASSUME LoopsTyped, NEW l \in Loops, loop[l].step \in 1 .. 7, Proceed(l)
  PROVE  /\ OnlyLoop(l) /\ loop'[l].phase = "check"
         /\ \/ loop'[l].step = 0
            \/ loop'[l].step = loop[l].step + 1 /\ loop'[l].now = loop[l].now
<1>1. CASE loop[l].step = 7
  <2>1. loop' = [loop EXCEPT ![l] = Asleep]
    BY <1>1, PartsInOrder DEF Proceed
  <2> QED BY <2>1, AsleepTyped, LoopSet
<1>2. CASE loop[l].step # 7
  <2> DEFINE p == [loop[l] EXCEPT !.step = loop[l].step + 1]
             q == [p EXCEPT !.phase = "check"]
             r == [q EXCEPT !.writes = <<>>]
  <2>1. loop' = [loop EXCEPT ![l] = r]
    <3> DEFINE n == [loop[l] EXCEPT !.step = @ + 1, !.phase = "check", !.writes = <<>>]
    <3>1. loop' = [loop EXCEPT ![l] = IF loop[l].step = Len(Parts) THEN Asleep ELSE n]
      BY DEF Proceed
    <3>2. loop' = [loop EXCEPT ![l] = n]
      <4> HIDE DEF n
      <4> QED BY <1>2, <3>1, PartsInOrder
    <3>3. n = r
      OBVIOUS
    <3> HIDE DEF n, r
    <3> QED BY <3>2, <3>3
  <2>2. loop[l] \in LoopRecords /\ loop[l].step + 1 \in -1 .. 7 /\ <<>> \in Seq(Fields)
    BY <1>2 DEF LoopsTyped
  <2>3. p \in LoopRecords /\ p.step = loop[l].step + 1 /\ p.now = loop[l].now
    BY <2>2, WithStep
  <2>4. q \in LoopRecords /\ q.phase = "check" /\ q.step = loop[l].step + 1 /\ q.now = loop[l].now
    <3> HIDE DEF p
    <3> QED BY <2>3, WithPhase
  <2>5. r \in LoopRecords /\ r.phase = "check" /\ r.step = loop[l].step + 1 /\ r.now = loop[l].now
    <3> HIDE DEF q
    <3> QED BY <2>2, <2>4, WithWrites
  <2> HIDE DEF r
  <2>6. OnlyLoop(l) /\ loop'[l] = r
    BY <2>1, <2>5, LoopSet
  <2> QED BY <2>5, <2>6
<1> QED BY <1>1, <1>2

LEMMA WakeStep ==
  ASSUME LoopsTyped, NEW l \in Loops, clock \in Nat, Wake(l)
  PROVE  /\ OnlyLoop(l) /\ loop'[l].phase = "check"
         /\ loop'[l].step = 1 /\ loop'[l].now = clock
<1> DEFINE q == [Asleep EXCEPT !.step = 1]
           r == [q EXCEPT !.now = clock]
<1>1. loop' = [loop EXCEPT ![l] = r]
  BY DEF Wake
<1>2. q \in LoopRecords /\ q.phase = "check" /\ q.step = 1
  <2>1. 1 \in -1 .. 7
    OBVIOUS
  <2> QED BY <2>1, AsleepTyped, WithStep
<1>3. r \in LoopRecords /\ r.phase = "check" /\ r.step = 1 /\ r.now = clock
  <2> HIDE DEF q
  <2> QED BY <1>2, WithNow
<1> HIDE DEF r
<1>4. OnlyLoop(l) /\ loop'[l] = r
  BY <1>1, <1>3, LoopSet
<1> QED BY <1>3, <1>4

LEMMA LoopsTypedNext ==
  ASSUME LoopsTyped, NEW l \in Loops, OnlyLoop(l),
         loop'[l].phase = "write" => loop'[l].writes # <<>>,
         loop'[l].step < 1 => loop'[l].phase = "check"
  PROVE  LoopsTyped'
BY DEF LoopsTyped, OnlyLoop

-----------------------------------------------------------------------------
(* What a step makes of the object and of its rows.                         *)

Jobs == Periodic \cup {"weekly"}

LEMMA ElementIn ==
  ASSUME NEW S, NEW s \in Seq(S), NEW i \in DOMAIN s
  PROVE  s[i] \in S
OBVIOUS

LEMMA EmptySeqIs == \A s : Len(s) # 0 => s # <<>>
OBVIOUS

LEMMA TimeTyped ==
  ASSUME NEW t \in Nat
  PROVE  Day(t) \in Nat /\ \A j : Period(j, t) \in Nat
BY DEF Day, Period

LEMMA LaterTyped ==
  ASSUME NEW t \in Nat, NEW u \in Nat, t <= u
  PROVE  Day(t) <= Day(u) /\ \A j : Period(j, t) <= Period(j, u)
BY DEF Day, Period

LEMMA NothingTyped == NothingRan \in Records /\ NothingRan.weeklyId = NoCommand
                      /\ \A j \in Jobs : NothingRan.lastRun[j] = Never
BY DEF NothingRan, Records, Outcomes, NoCommand, Never, Jobs

LEMMA RecordedIs ==
  ASSUME NEW m \in Records, NEW j \in Jobs, NEW p \in Nat
  PROVE  LET r == [m EXCEPT !.lastRun[j] = p]
         IN  /\ r \in Records /\ r.lastRun[j] = p
             /\ \A k \in Jobs \ {j} : r.lastRun[k] = m.lastRun[k]
             /\ r.weeklyId = m.weeklyId /\ r.weeklyStatus = m.weeklyStatus
             /\ r.weeklyDay = m.weeklyDay
BY DEF Records, Jobs

LEMMA StatusIs ==
  ASSUME NEW m \in Records, NEW s \in Outcomes
  PROVE  LET r == [m EXCEPT !.weeklyStatus = s]
         IN  /\ r \in Records /\ r.weeklyStatus = s
             /\ r.lastRun = m.lastRun /\ r.weeklyId = m.weeklyId /\ r.weeklyDay = m.weeklyDay
BY DEF Records

LEMMA IdIs ==
  ASSUME NEW m \in Records, NEW i \in Nat
  PROVE  LET r == [m EXCEPT !.weeklyId = i]
         IN  /\ r \in Records /\ r.weeklyId = i
             /\ r.lastRun = m.lastRun /\ r.weeklyStatus = m.weeklyStatus
             /\ r.weeklyDay = m.weeklyDay
BY DEF Records

LEMMA DayIs ==
  ASSUME NEW m \in Records, NEW d \in Nat \cup {Never}
  PROVE  LET r == [m EXCEPT !.weeklyDay = d]
         IN  /\ r \in Records /\ r.weeklyDay = d
             /\ r.lastRun = m.lastRun /\ r.weeklyStatus = m.weeklyStatus
             /\ r.weeklyId = m.weeklyId
BY DEF Records

LEMMA SettledIs ==
  ASSUME NEW m \in Records, NEW s \in Outcomes
  PROVE  /\ Settled(m, s) \in Records /\ Settled(m, s).lastRun = m.lastRun
         /\ Settled(m, s).weeklyId = NoCommand /\ Settled(m, s).weeklyStatus = s
         /\ Settled(m, s).weeklyDay = m.weeklyDay
<1> DEFINE q == [m EXCEPT !.weeklyId = NoCommand]
           r == [q EXCEPT !.weeklyStatus = s]
<1>1. Settled(m, s) = r
  BY DEF Settled
<1>2. NoCommand \in Nat
  BY DEF NoCommand
<1>3. /\ q \in Records /\ q.weeklyId = NoCommand
      /\ q.lastRun = m.lastRun /\ q.weeklyDay = m.weeklyDay
  BY <1>2, IdIs
<1>4. /\ r \in Records /\ r.weeklyId = NoCommand /\ r.weeklyStatus = s
      /\ r.lastRun = m.lastRun /\ r.weeklyDay = m.weeklyDay
  <2> HIDE DEF q
  <2> QED BY <1>3, StatusIs
<1> QED BY <1>1, <1>4

LEMMA FollowedIs ==
  ASSUME NEW m \in Records, NEW i \in Nat, NEW d \in Nat
  PROVE  /\ Followed(m, i, d) \in Records /\ Followed(m, i, d).lastRun = m.lastRun
         /\ Followed(m, i, d).weeklyId = i /\ Followed(m, i, d).weeklyDay = d
         /\ Followed(m, i, d).weeklyStatus = "ACTIVE"
<1> DEFINE p == [m EXCEPT !.weeklyId = i]
           q == [p EXCEPT !.weeklyDay = d]
           r == [q EXCEPT !.weeklyStatus = "ACTIVE"]
<1>1. Followed(m, i, d) = r
  BY DEF Followed
<1>2. p \in Records /\ p.weeklyId = i /\ p.lastRun = m.lastRun
  BY IdIs
<1>3. q \in Records /\ q.weeklyId = i /\ q.weeklyDay = d /\ q.lastRun = m.lastRun
  <2> HIDE DEF p
  <2> QED BY <1>2, DayIs
<1>4. /\ r \in Records /\ r.lastRun = m.lastRun
      /\ r.weeklyId = i /\ r.weeklyDay = d /\ r.weeklyStatus = "ACTIVE"
  <2>1. "ACTIVE" \in Outcomes
    BY DEF Outcomes
  <2> HIDE DEF q
  <2> QED BY <1>3, <2>1, StatusIs
<1> QED BY <1>1, <1>4

\* Assigning a field changes the last weekly run or nothing.
LEMMA AssignedIs ==
  ASSUME mem \in Records, NEW field
  PROVE  LET r == Assigned(field)
         IN  /\ r \in Records
             /\ \A j \in Periodic : r.lastRun[j] = mem.lastRun[j]
             /\ r.weeklyId = mem.weeklyId /\ r.weeklyStatus = mem.weeklyStatus
             /\ r.weeklyDay = mem.weeklyDay
             /\ \/ r.lastRun["weekly"] = mem.lastRun["weekly"]
                \/ field = "weekly" /\ r.lastRun["weekly"] = mem.weeklyDay
<1>1. CASE field = "weekly" /\ mem.weeklyDay # Never
  <2> DEFINE r == [mem EXCEPT !.lastRun["weekly"] = mem.weeklyDay]
  <2>1. Assigned(field) = r
    BY <1>1 DEF Assigned
  <2>2. mem.weeklyDay \in Nat /\ "weekly" \in Jobs /\ \A j \in Periodic : j \in Jobs \ {"weekly"}
    BY <1>1 DEF Records, Jobs, Periodic
  <2>3. /\ r \in Records /\ r.lastRun["weekly"] = mem.weeklyDay
        /\ \A k \in Jobs \ {"weekly"} : r.lastRun[k] = mem.lastRun[k]
        /\ r.weeklyId = mem.weeklyId /\ r.weeklyStatus = mem.weeklyStatus
        /\ r.weeklyDay = mem.weeklyDay
    BY <2>2, RecordedIs
  <2> HIDE DEF r
  <2> QED BY <1>1, <2>1, <2>2, <2>3
<1>2. CASE ~ (field = "weekly" /\ mem.weeklyDay # Never)
  BY <1>2 DEF Assigned
<1> QED BY <1>1, <1>2

\* A row holds what it held or what the object holds.
LEMMA SavedIs ==
  ASSUME db \in Records, NEW m \in Records, NEW field \in Fields
  PROVE  LET r == Saved(field, m)
         IN  /\ r \in Records
             /\ \A j \in Jobs : r.lastRun[j] \in {db.lastRun[j], m.lastRun[j]}
             /\ r.weeklyId \in {db.weeklyId, m.weeklyId}
<1>1. DOMAIN m.lastRun = Jobs
  BY DEF Records, Jobs
<1>2. CASE field \in Jobs
  <2>1. Saved(field, m) = [db EXCEPT !.lastRun[field] = m.lastRun[field]]
    BY <1>1, <1>2 DEF Saved
  <2>2. m.lastRun[field] \in Nat \cup {Never}
    BY <1>2 DEF Records, Jobs
  <2> QED BY <1>2, <2>1, <2>2 DEF Records, Jobs
<1>3. CASE field \notin Jobs
  <2>1. Saved(field, m) = [db EXCEPT ![field] = m[field]]
    BY <1>1, <1>3 DEF Saved
  <2>2. CASE field = "weeklyId"
    <3>1. Saved(field, m) = [db EXCEPT !.weeklyId = m.weeklyId] /\ m.weeklyId \in Nat
      BY <2>1, <2>2 DEF Records
    <3> QED BY <3>1, IdIs
  <2>3. CASE field = "weeklyDay"
    <3>1. Saved(field, m) = [db EXCEPT !.weeklyDay = m.weeklyDay] /\ m.weeklyDay \in Nat \cup {Never}
      BY <2>1, <2>3 DEF Records
    <3> QED BY <3>1, DayIs
  <2>4. CASE field = "weeklyStatus"
    <3>1. Saved(field, m) = [db EXCEPT !.weeklyStatus = m.weeklyStatus] /\ m.weeklyStatus \in Outcomes
      BY <2>1, <2>4 DEF Records
    <3> QED BY <3>1, StatusIs
  <2> QED BY <1>3, <2>2, <2>3, <2>4 DEF Fields, Jobs
<1> QED BY <1>2, <1>3

-----------------------------------------------------------------------------
(* Types, and that what is recorded was called, for any number of loops.    *)

TypeInv ==
  /\ TypeOK /\ LoopsTyped
  /\ db.weeklyId \in {NoCommand} \cup DOMAIN commands

\* What is recorded was called, in the object before it is in the database.
CalledInv ==
  \A j \in Periodic :
    mem.lastRun[j] \in called[j] \cup {Never} /\ db.lastRun[j] \in called[j] \cup {Never}

\* The parts of a step that has the loops typed.
LEMMA TypeFrom ==
  ASSUME (/\ clock \in 0 .. MaxTime
          /\ commands \in Seq([day : Nat, outcome : Outcomes])
          /\ mem \in Records /\ db \in Records
          /\ mem.weeklyId \in {NoCommand} \cup DOMAIN commands
          /\ db.weeklyId \in {NoCommand} \cup DOMAIN commands
          /\ thread \in Loops \cup {0} /\ stopping \in BOOLEAN
          /\ LoopsTyped
          /\ errors \in Nat /\ crashes \in Nat
          /\ called \in [Periodic -> SUBSET Nat] /\ calledHere \in [Periodic -> SUBSET Nat]
          /\ revived \in BOOLEAN)'
  PROVE  TypeInv'
BY PartsInOrder DEF TypeInv, TypeOK, LoopsTyped, LoopRecords

\* A loop is in one part of run_once.
LEMMA AtStep ==
  ASSUME NEW l, NEW p, NEW phase, At(l, p, phase)
  PROVE  loop[l].step \in 1..7 /\ Parts[loop[l].step] = p /\ loop[l].phase = phase
BY PartsInOrder DEF At

\* The steps in which a loop only goes on.
Thinks(l) ==
  \/ Exit(l) \/ Wake(l) \/ RefreshNothing(l) \/ WeeklyPass(l) \/ WeeklyDecide(l)
  \/ \E j \in Periodic : Pass(l, j) \/ Decide(l, j) \/ CallRaises(l, j)

\* Thinking leaves the object alone, and a loop that thinks has nothing to
\* write; it works with the time of its waking.
LEMMA ThinksIs ==
  ASSUME LoopsTyped, clock \in Nat, NEW l \in Loops, Thinks(l)
  PROVE  /\ OnlyLoop(l) /\ loop'[l].phase # "write"
         /\ UNCHANGED <<clock, commands, mem, db, thread, stopping, crashes, historyVars>>
         /\ errors' \in {errors, errors + 1}
         /\ loop'[l].step < 1 => loop'[l].phase = "check"
         /\ loop'[l].step >= 1 => \/ loop'[l].now = clock /\ loop'[l].step = 1
                                     /\ loop'[l].phase = "check"
                                  \/ loop[l].step >= 1 /\ loop'[l].now = loop[l].now
<1>1. CASE Exit(l)
  <2>1. loop' = [loop EXCEPT ![l] = Gone]
    BY <1>1 DEF Exit
  <2>2. OnlyLoop(l) /\ loop'[l] = Gone
    BY <2>1, AsleepTyped, LoopSet
  <2> QED BY <1>1, <2>2, AsleepTyped DEF Exit, faultVars, historyVars
<1>2. CASE Wake(l)
  BY <1>2, WakeStep DEF Wake, faultVars, historyVars
<1>3. CASE RefreshNothing(l)
  BY <1>3, AtStep, ProceedStep DEF RefreshNothing, faultVars, historyVars
<1>4. CASE WeeklyPass(l)
  BY <1>4, AtStep, ProceedStep DEF WeeklyPass, faultVars, historyVars
<1>5. CASE WeeklyDecide(l)
  <2>1. loop' = [loop EXCEPT ![l].phase = "call"] /\ loop[l].step \in 1..7
    BY <1>5, AtStep DEF WeeklyDecide
  <2>2. /\ OnlyLoop(l) /\ loop'[l].phase = "call"
        /\ loop'[l].step = loop[l].step /\ loop'[l].now = loop[l].now
    BY <2>1, CallStep
  <2> QED BY <1>5, <2>1, <2>2 DEF WeeklyDecide, faultVars, historyVars
<1>6. ASSUME NEW j \in Periodic, Pass(l, j)
      PROVE  /\ OnlyLoop(l) /\ loop'[l].phase = "check"
             /\ UNCHANGED <<clock, commands, mem, db, thread, stopping, faultVars, historyVars>>
             /\ loop'[l].step >= 1 => loop[l].step >= 1 /\ loop'[l].now = loop[l].now
  BY <1>6, AtStep, ProceedStep DEF Pass, faultVars, historyVars
<1>7. ASSUME NEW j \in Periodic, Decide(l, j)
      PROVE  /\ OnlyLoop(l) /\ loop'[l].phase = "call"
             /\ UNCHANGED <<clock, commands, mem, db, thread, stopping, faultVars, historyVars>>
             /\ loop'[l].step \in 1..7 /\ loop[l].step \in 1..7 /\ loop'[l].now = loop[l].now
  <2>1. loop' = [loop EXCEPT ![l].phase = "call"] /\ loop[l].step \in 1..7
    BY <1>7, AtStep DEF Decide
  <2>2. /\ OnlyLoop(l) /\ loop'[l].phase = "call"
        /\ loop'[l].step = loop[l].step /\ loop'[l].now = loop[l].now
    BY <2>1, CallStep
  <2> QED BY <1>7, <2>1, <2>2 DEF Decide, faultVars, historyVars
<1>8. ASSUME NEW j \in Periodic, CallRaises(l, j)
      PROVE  /\ OnlyLoop(l) /\ loop'[l].phase = "check" /\ loop'[l].step = 0
             /\ UNCHANGED <<clock, commands, mem, db, thread, stopping, crashes, historyVars>>
             /\ errors' = errors + 1
  BY <1>8, SleepStep DEF CallRaises, historyVars
<1>9. CASE \E j \in Periodic : Pass(l, j) \/ Decide(l, j) \/ CallRaises(l, j)
  <2>1. PICK j \in Periodic : Pass(l, j) \/ Decide(l, j) \/ CallRaises(l, j)
    BY <1>9
  <2>2. CASE Pass(l, j)
    BY <1>6, <2>2 DEF faultVars
  <2>3. CASE Decide(l, j)
    BY <1>7, <2>3 DEF faultVars
  <2>4. CASE CallRaises(l, j)
    BY <1>8, <2>4
  <2> QED BY <2>1, <2>2, <2>3, <2>4
<1> QED BY <1>1, <1>2, <1>3, <1>4, <1>5, <1>9 DEF Thinks

\* The steps that are no loop's: none of them makes a loop go on.
Outside == Start \/ Stop \/ Tick \/ Restart
           \/ \E i \in DOMAIN commands, outcome \in Outcomes \ {"ACTIVE"} : Finish(i, outcome)

LEMMA OutsideLoops ==
  ASSUME TypeInv, Outside
  PROVE  /\ LoopsTyped'
         /\ \A l \in Loops : loop'[l] = loop[l] \/ loop'[l] = Asleep \/ loop'[l] = Gone
<1>0. /\ LoopsTyped /\ loop \in [Loops -> LoopRecords] /\ thread \in Loops \cup {0}
      /\ Asleep \in LoopRecords /\ Asleep.phase = "check"
      /\ Gone \in LoopRecords /\ Gone.phase = "check"
  BY AsleepTyped DEF TypeInv, TypeOK, LoopsTyped
<1>1. CASE Start
  BY <1>0, <1>1 DEF Start, LoopsTyped
<1>2. CASE Stop
  BY <1>0, <1>2 DEF Stop, LoopsTyped
<1>3. CASE Tick
  BY <1>0, <1>3 DEF Tick, LoopsTyped
<1>4. CASE Restart
  BY <1>0, <1>4 DEF Restart, LoopsTyped
<1>5. CASE \E i \in DOMAIN commands, outcome \in Outcomes \ {"ACTIVE"} : Finish(i, outcome)
  BY <1>0, <1>5 DEF Finish, LoopsTyped
<1> QED BY <1>1, <1>2, <1>3, <1>4, <1>5 DEF Outside

\* Steps that change the object leave their loop writing, or behind a write.
Works(l) ==
  \/ \E j \in Periodic : Call(l, j)
  \/ Refresh(l) \/ WeeklyCall(l) \/ WeeklyCallRaises(l) \/ Write(l) \/ WriteRaises(l)

LEMMA StepIs ==
  ASSUME Next
  PROVE  Outside \/ \E l \in Loops : Thinks(l) \/ Works(l)
BY DEF Next, LoopStep, Outside, Thinks, Works

LEMMA CallIs ==
  ASSUME TypeInv, NEW l \in Loops, NEW j \in Periodic, Call(l, j)
  PROVE  /\ OnlyLoop(l) /\ loop[l].step \in 1..7 /\ loop'[l].step = loop[l].step
         /\ loop'[l].now = loop[l].now /\ loop[l].now \in Nat
         /\ loop'[l].phase = "write" /\ loop'[l].writes = <<j>>
         /\ mem' \in Records /\ mem'.lastRun[j] = Period(j, loop[l].now)
         /\ \A k \in Jobs \ {j} : mem'.lastRun[k] = mem.lastRun[k]
         /\ mem'.weeklyId = mem.weeklyId /\ mem'.weeklyStatus = mem.weeklyStatus
         /\ mem'.weeklyDay = mem.weeklyDay
         /\ called' = [called EXCEPT ![j] = @ \cup {Period(j, loop[l].now)}]
         /\ calledHere' = [calledHere EXCEPT ![j] = @ \cup {Period(j, loop[l].now)}]
         /\ UNCHANGED <<clock, commands, db, thread, stopping, faultVars, revived>>
<1>1. LoopsTyped /\ mem \in Records /\ loop[l].now \in Nat /\ loop[l].step \in 1..7
  BY AtStep DEF TypeInv, TypeOK, LoopsTyped, LoopRecords, Call
<1>2. Period(j, loop[l].now) \in Nat /\ j \in Jobs
  BY <1>1, TimeTyped DEF Jobs
<1>3. mem' = [mem EXCEPT !.lastRun[j] = Period(j, loop[l].now)]
  BY DEF Call, Recorded
<1>4. /\ mem' \in Records /\ mem'.lastRun[j] = Period(j, loop[l].now)
      /\ \A k \in Jobs \ {j} : mem'.lastRun[k] = mem.lastRun[k]
      /\ mem'.weeklyId = mem.weeklyId /\ mem'.weeklyStatus = mem.weeklyStatus
      /\ mem'.weeklyDay = mem.weeklyDay
  BY <1>1, <1>2, <1>3, RecordedIs
<1>5. <<j>> \in Seq(Fields) /\ Save(l, <<j>>)
  BY DEF Fields, Call
<1>6. /\ OnlyLoop(l) /\ loop'[l].phase = "write" /\ loop'[l].writes = <<j>>
      /\ loop'[l].step = loop[l].step /\ loop'[l].now = loop[l].now
  BY <1>1, <1>5, SaveStep
<1>7. /\ called' = [called EXCEPT ![j] = @ \cup {Period(j, loop[l].now)}]
      /\ calledHere' = [calledHere EXCEPT ![j] = @ \cup {Period(j, loop[l].now)}]
      /\ UNCHANGED <<clock, commands, db, thread, stopping, faultVars, revived>>
  BY DEF Call
<1> QED BY <1>1, <1>4, <1>6, <1>7

\* The refresh of a followed command.
LEMMA RefreshIs ==
  ASSUME TypeInv, NEW l \in Loops, Refresh(l)
  PROVE  /\ OnlyLoop(l) /\ loop[l].step \in 1..7 /\ loop'[l].step = loop[l].step
         /\ loop'[l].now = loop[l].now
         /\ loop'[l].phase = "write" /\ loop'[l].writes # <<>>
         /\ mem.weeklyId \in DOMAIN commands
         /\ mem' \in Records /\ mem'.lastRun = mem.lastRun /\ mem'.weeklyDay = mem.weeklyDay
         /\ mem'.weeklyStatus = commands[mem.weeklyId].outcome
         /\ mem'.weeklyId = IF commands[mem.weeklyId].outcome = "ACTIVE"
                              THEN mem.weeklyId ELSE NoCommand
         /\ commands[mem.weeklyId].outcome = "COMPLETED"
            \/ \A n \in DOMAIN loop'[l].writes : loop'[l].writes[n] # "weekly"
         /\ UNCHANGED <<clock, commands, db, thread, stopping, faultVars, historyVars>>
<1> DEFINE outcome == commands[mem.weeklyId].outcome
<1>1. /\ LoopsTyped /\ mem \in Records /\ loop[l].step \in 1..7
      /\ mem.weeklyId \in DOMAIN commands /\ outcome \in Outcomes
  <2>1. /\ LoopsTyped /\ mem \in Records /\ mem.weeklyId \in DOMAIN commands
        /\ commands \in Seq([day : Nat, outcome : Outcomes])
    BY DEF TypeInv, TypeOK, Refresh
  <2>2. loop[l].step \in 1..7
    BY AtStep DEF Refresh
  <2>3. commands[mem.weeklyId] \in [day : Nat, outcome : Outcomes]
    BY <2>1, ElementIn
  <2> QED BY <2>1, <2>2, <2>3
<1>2. CASE outcome = "ACTIVE"
  <2>1. /\ mem' = [mem EXCEPT !.weeklyStatus = outcome] /\ Save(l, <<"weeklyStatus">>)
        /\ <<"weeklyStatus">> \in Seq(Fields)
    BY <1>2 DEF Refresh, Fields
  <2>2. mem' \in Records /\ mem'.lastRun = mem.lastRun /\ mem'.weeklyDay = mem.weeklyDay
        /\ mem'.weeklyStatus = outcome /\ mem'.weeklyId = mem.weeklyId
    BY <1>1, <2>1, StatusIs
  <2>3. /\ OnlyLoop(l) /\ loop'[l].phase = "write" /\ loop'[l].writes = <<"weeklyStatus">>
        /\ loop'[l].step = loop[l].step /\ loop'[l].now = loop[l].now
    BY <1>1, <2>1, SaveStep
  <2>4. \A n \in DOMAIN loop'[l].writes : loop'[l].writes[n] # "weekly"
    BY <2>3
  <2> QED BY <1>1, <1>2, <2>2, <2>3, <2>4 DEF Refresh
<1>3. CASE outcome # "ACTIVE"
  <2>1. /\ mem' = Settled(mem, outcome)
        /\ Save(l, IF outcome = "COMPLETED" THEN <<"weeklyId", "weekly", "weeklyStatus">>
                   ELSE <<"weeklyId", "weeklyStatus">>)
    BY <1>3 DEF Refresh
  <2>2. mem' \in Records /\ mem'.lastRun = mem.lastRun /\ mem'.weeklyDay = mem.weeklyDay
        /\ mem'.weeklyStatus = outcome /\ mem'.weeklyId = NoCommand
    BY <1>1, <2>1, SettledIs
  <2>3. CASE outcome = "COMPLETED"
    <3>1. /\ Save(l, <<"weeklyId", "weekly", "weeklyStatus">>)
          /\ <<"weeklyId", "weekly", "weeklyStatus">> \in Seq(Fields)
      BY <2>1, <2>3 DEF Fields
    <3>2. /\ OnlyLoop(l) /\ loop'[l].phase = "write"
          /\ loop'[l].writes = <<"weeklyId", "weekly", "weeklyStatus">>
          /\ loop'[l].step = loop[l].step /\ loop'[l].now = loop[l].now
      BY <1>1, <3>1, SaveStep
    <3> QED BY <1>1, <1>3, <2>2, <2>3, <3>2 DEF Refresh
  <2>4. CASE outcome # "COMPLETED"
    <3>1. /\ Save(l, <<"weeklyId", "weeklyStatus">>)
          /\ <<"weeklyId", "weeklyStatus">> \in Seq(Fields)
      BY <2>1, <2>4 DEF Fields
    <3>2. /\ OnlyLoop(l) /\ loop'[l].phase = "write"
          /\ loop'[l].writes = <<"weeklyId", "weeklyStatus">>
          /\ loop'[l].step = loop[l].step /\ loop'[l].now = loop[l].now
      BY <1>1, <3>1, SaveStep
    <3>3. \A n \in DOMAIN loop'[l].writes : loop'[l].writes[n] # "weekly"
      BY <3>2
    <3> QED BY <1>1, <1>3, <2>2, <3>2, <3>3 DEF Refresh
  <2> QED BY <2>3, <2>4
<1> QED BY <1>2, <1>3

LEMMA WeeklyCallIs ==
  ASSUME TypeInv, NEW l \in Loops, WeeklyCall(l)
  PROVE  /\ OnlyLoop(l) /\ loop[l].step \in 1..7 /\ loop'[l].step = loop[l].step
         /\ loop'[l].now = loop[l].now /\ loop[l].now \in Nat
         /\ loop'[l].phase = "write" /\ loop'[l].writes # <<>>
         /\ \A n \in DOMAIN loop'[l].writes : loop'[l].writes[n] # "weekly"
         /\ commands' = Append(commands, [day |-> Day(loop[l].now), outcome |-> "ACTIVE"])
         /\ mem' \in Records /\ mem'.lastRun = mem.lastRun
         /\ mem'.weeklyId = Len(commands) + 1 /\ mem'.weeklyDay = Day(loop[l].now)
         /\ mem'.weeklyStatus = "ACTIVE"
         /\ UNCHANGED <<clock, db, thread, stopping, faultVars, historyVars>>
<1>1. /\ LoopsTyped /\ mem \in Records /\ loop[l].step \in 1..7 /\ loop[l].now \in Nat
      /\ commands \in Seq([day : Nat, outcome : Outcomes])
  BY AtStep DEF TypeInv, TypeOK, WeeklyCall, LoopsTyped, LoopRecords
<1>2. Day(loop[l].now) \in Nat
  BY <1>1, TimeTyped
<1>3. /\ commands' = Append(commands, [day |-> Day(loop[l].now), outcome |-> "ACTIVE"])
      /\ mem' = Followed(mem, Len(commands'), Day(loop[l].now))
      /\ Save(l, <<"weeklyId", "weeklyDay", "weeklyStatus">>)
      /\ UNCHANGED <<clock, db, thread, stopping, faultVars, historyVars>>
  BY DEF WeeklyCall
<1>4. Len(commands') = Len(commands) + 1 /\ Len(commands') \in Nat
  BY <1>1, <1>3
<1>5. /\ mem' \in Records /\ mem'.lastRun = mem.lastRun
      /\ mem'.weeklyId = Len(commands) + 1 /\ mem'.weeklyDay = Day(loop[l].now)
      /\ mem'.weeklyStatus = "ACTIVE"
  <2> DEFINE n == Len(commands')
             d == Day(loop[l].now)
  <2>1. n \in Nat /\ d \in Nat /\ mem' = Followed(mem, n, d) /\ n = Len(commands) + 1
    BY <1>2, <1>3, <1>4
  <2> HIDE DEF n, d
  <2>2. /\ mem' \in Records /\ mem'.lastRun = mem.lastRun
        /\ mem'.weeklyId = n /\ mem'.weeklyDay = d /\ mem'.weeklyStatus = "ACTIVE"
    <3>1. mem \in Records /\ n \in Nat /\ d \in Nat
      BY <1>1, <2>1
    <3>2. /\ Followed(mem, n, d) \in Records /\ Followed(mem, n, d).lastRun = mem.lastRun
          /\ Followed(mem, n, d).weeklyId = n /\ Followed(mem, n, d).weeklyDay = d
          /\ Followed(mem, n, d).weeklyStatus = "ACTIVE"
      BY <3>1, FollowedIs
    <3> QED BY <2>1, <3>2
  <2> QED BY <2>1, <2>2 DEF d
<1>6. <<"weeklyId", "weeklyDay", "weeklyStatus">> \in Seq(Fields)
  BY DEF Fields
<1>7. /\ OnlyLoop(l) /\ loop'[l].phase = "write"
      /\ loop'[l].writes = <<"weeklyId", "weeklyDay", "weeklyStatus">>
      /\ loop'[l].step = loop[l].step /\ loop'[l].now = loop[l].now
  BY <1>1, <1>3, <1>6, SaveStep
<1>8. \A n \in DOMAIN loop'[l].writes : loop'[l].writes[n] # "weekly"
  BY <1>7
<1> QED BY <1>1, <1>3, <1>5, <1>7, <1>8

\* The week is marked FAILED, by either of the steps that do it.
LEMMA FailedIs ==
  ASSUME TypeInv, NEW l \in Loops, loop[l].step \in 1..7,
         mem' = [mem EXCEPT !.weeklyStatus = "FAILED"], Save(l, <<"weeklyStatus">>)
  PROVE  /\ OnlyLoop(l) /\ loop'[l].step = loop[l].step /\ loop'[l].now = loop[l].now
         /\ loop'[l].phase = "write" /\ loop'[l].writes # <<>>
         /\ \A n \in DOMAIN loop'[l].writes : loop'[l].writes[n] # "weekly"
         /\ mem' \in Records /\ mem'.lastRun = mem.lastRun /\ mem'.weeklyId = mem.weeklyId
         /\ mem'.weeklyDay = mem.weeklyDay /\ mem'.weeklyStatus = "FAILED"
<1>1. /\ LoopsTyped /\ mem \in Records /\ "FAILED" \in Outcomes
      /\ <<"weeklyStatus">> \in Seq(Fields)
  BY DEF TypeInv, TypeOK, Outcomes, Fields
<1>2. /\ OnlyLoop(l) /\ loop'[l].phase = "write" /\ loop'[l].writes = <<"weeklyStatus">>
      /\ loop'[l].step = loop[l].step /\ loop'[l].now = loop[l].now
  BY <1>1, SaveStep
<1>3. /\ mem' \in Records /\ mem'.lastRun = mem.lastRun /\ mem'.weeklyId = mem.weeklyId
      /\ mem'.weeklyDay = mem.weeklyDay /\ mem'.weeklyStatus = "FAILED"
  BY <1>1, StatusIs
<1>4. \A n \in DOMAIN loop'[l].writes : loop'[l].writes[n] # "weekly"
  BY <1>2
<1> QED BY <1>2, <1>3, <1>4

\* What a transaction assigns, whether it commits or not.
AssignsOnly(l) ==
  /\ mem' \in Records
  /\ \A j \in Periodic : mem'.lastRun[j] = mem.lastRun[j]
  /\ mem'.weeklyId = mem.weeklyId /\ mem'.weeklyDay = mem.weeklyDay
  /\ mem'.weeklyStatus = mem.weeklyStatus
  /\ \/ mem'.lastRun["weekly"] = mem.lastRun["weekly"]
     \/ /\ mem'.lastRun["weekly"] = mem.weeklyDay
        /\ \E n \in DOMAIN loop[l].writes : loop[l].writes[n] = "weekly"

LEMMA HeadIs ==
  ASSUME TypeInv, NEW l \in Loops, loop[l].phase = "write"
  PROVE  /\ loop[l].writes \in Seq(Fields) /\ loop[l].writes # <<>>
         /\ Head(loop[l].writes) \in Fields
         /\ Head(loop[l].writes) = loop[l].writes[1] /\ 1 \in DOMAIN loop[l].writes
         /\ loop[l].step \in 1..7
<1>1. /\ loop[l] \in LoopRecords /\ loop[l].writes # <<>>
      /\ loop[l].step < 1 => loop[l].phase = "check"
  BY DEF TypeInv, LoopsTyped
<1>2. loop[l].writes \in Seq(Fields) /\ loop[l].step \in 1..7
  BY <1>1 DEF LoopRecords
<1> QED BY <1>1, <1>2

LEMMA AssignsIs ==
  ASSUME TypeInv, NEW l \in Loops, loop[l].phase = "write", mem' = Assigned(Head(loop[l].writes))
  PROVE  AssignsOnly(l)
<1> DEFINE field == Head(loop[l].writes)
<1>1. mem \in Records /\ field = loop[l].writes[1] /\ 1 \in DOMAIN loop[l].writes
  BY HeadIs DEF TypeInv, TypeOK
<1> HIDE DEF field
<1>2. mem' = Assigned(field)
  BY DEF field
<1> QED BY <1>1, <1>2, AssignedIs DEF AssignsOnly

\* A loop that has saved a field saves the next, sleeps or goes on.
LEMMA WriteIs ==
  ASSUME TypeInv, NEW l \in Loops, Write(l)
  PROVE  /\ OnlyLoop(l) /\ loop[l].step \in 1..7 /\ loop[l].phase = "write" /\ AssignsOnly(l)
         /\ db' \in Records /\ db'.weeklyId \in {db.weeklyId, mem.weeklyId}
         /\ \A j \in Jobs : db'.lastRun[j] \in {db.lastRun[j], mem'.lastRun[j]}
         /\ \/ /\ loop'[l].phase = "write" /\ loop'[l].writes # <<>>
               /\ loop'[l].step = loop[l].step /\ loop'[l].now = loop[l].now
               /\ \A n \in DOMAIN loop'[l].writes :
                    \E m \in DOMAIN loop[l].writes : loop'[l].writes[n] = loop[l].writes[m]
            \/ loop'[l].phase = "check" /\ loop'[l].step = 0
            \/ /\ loop'[l].phase = "check" /\ loop'[l].step = loop[l].step + 1
               /\ loop'[l].now = loop[l].now
         /\ UNCHANGED <<clock, commands, thread, stopping, faultVars, historyVars>>
<1> DEFINE w == loop[l].writes
           field == Head(w)
<1>1. /\ loop[l].phase = "write" /\ w \in Seq(Fields) /\ w # <<>> /\ loop[l].step \in 1..7
      /\ field \in Fields /\ LoopsTyped /\ db \in Records
  BY HeadIs DEF Write, TypeInv, TypeOK
<1>2. mem' = Assigned(field) /\ db' = Saved(field, mem')
      /\ UNCHANGED <<clock, commands, thread, stopping, faultVars, historyVars>>
  BY DEF Write
<1>3. AssignsOnly(l)
  BY <1>1, <1>2, AssignsIs
<1>4. /\ db' \in Records /\ db'.weeklyId \in {db.weeklyId, mem.weeklyId}
      /\ \A j \in Jobs : db'.lastRun[j] \in {db.lastRun[j], mem'.lastRun[j]}
  <2> HIDE DEF field
  <2>1. mem' \in Records /\ mem'.weeklyId = mem.weeklyId
    BY <1>3 DEF AssignsOnly
  <2> QED BY <1>1, <1>2, <2>1, SavedIs
<1>5. CASE Len(w) > 1 /\ Save(l, Tail(w))
  <2>1. Tail(w) \in Seq(Fields) /\ Len(Tail(w)) = Len(w) - 1
        /\ \A n \in DOMAIN Tail(w) : Tail(w)[n] = w[n + 1] /\ n + 1 \in DOMAIN w
    BY <1>1, <1>5
  <2>2. /\ OnlyLoop(l) /\ loop'[l].phase = "write" /\ loop'[l].writes = Tail(w)
        /\ loop'[l].step = loop[l].step /\ loop'[l].now = loop[l].now
    BY <1>1, <1>5, <2>1, SaveStep
  <2>3. Tail(w) # <<>>
    <3> HIDE DEF w
    <3>1. Len(w) \in Nat /\ Len(Tail(w)) = Len(w) - 1 /\ Len(w) > 1
      BY <1>1, <1>5, <2>1
    <3>2. Len(Tail(w)) # 0
      BY <3>1
    <3> QED BY <3>2, EmptySeqIs
  <2> QED BY <1>1, <1>2, <1>3, <1>4, <2>1, <2>2, <2>3
<1>6. CASE Sleep(l)
  <2>1. OnlyLoop(l) /\ loop'[l].phase = "check" /\ loop'[l].step = 0
    BY <1>1, <1>6, SleepStep
  <2> QED BY <1>1, <1>2, <1>3, <1>4, <2>1
<1>7. CASE Proceed(l)
  <2>1. /\ OnlyLoop(l) /\ loop'[l].phase = "check"
        /\ \/ loop'[l].step = 0
           \/ loop'[l].step = loop[l].step + 1 /\ loop'[l].now = loop[l].now
    BY <1>1, <1>7, ProceedStep
  <2> QED BY <1>1, <1>2, <1>3, <1>4, <2>1
<1> QED BY <1>5, <1>6, <1>7 DEF Write

LEMMA WriteRaisesIs ==
  ASSUME TypeInv, NEW l \in Loops, WriteRaises(l)
  PROVE  /\ OnlyLoop(l) /\ loop[l].step \in 1..7 /\ loop[l].phase = "write"
         /\ mem' \in Records /\ mem'.weeklyId = mem.weeklyId
         /\ \/ /\ loop'[l].step = loop[l].step /\ loop'[l].now = loop[l].now
               /\ loop'[l].phase = "write" /\ loop'[l].writes # <<>>
               /\ \A n \in DOMAIN loop'[l].writes : loop'[l].writes[n] # "weekly"
               /\ mem'.lastRun = mem.lastRun
               /\ mem'.weeklyDay = mem.weeklyDay /\ mem'.weeklyStatus = "FAILED"
            \/ loop'[l].phase = "check" /\ loop'[l].step = 0 /\ AssignsOnly(l)
         /\ errors' = errors + 1
         /\ UNCHANGED <<clock, commands, db, thread, stopping, crashes, historyVars>>
<1>1. /\ loop[l].phase = "write" /\ loop[l].step \in 1..7 /\ LoopsTyped
      /\ errors' = errors + 1
      /\ UNCHANGED <<clock, commands, db, thread, stopping, crashes, historyVars>>
  BY HeadIs DEF WriteRaises, TypeInv
<1>2. CASE mem' = [mem EXCEPT !.weeklyStatus = "FAILED"] /\ Save(l, <<"weeklyStatus">>)
  <2>1. /\ OnlyLoop(l) /\ loop'[l].step = loop[l].step /\ loop'[l].now = loop[l].now
        /\ loop'[l].phase = "write" /\ loop'[l].writes # <<>>
        /\ \A n \in DOMAIN loop'[l].writes : loop'[l].writes[n] # "weekly"
        /\ mem' \in Records /\ mem'.lastRun = mem.lastRun /\ mem'.weeklyId = mem.weeklyId
        /\ mem'.weeklyDay = mem.weeklyDay /\ mem'.weeklyStatus = "FAILED"
    BY <1>1, <1>2, FailedIs
  <2> QED BY <1>1, <2>1
<1>3. CASE mem' = Assigned(Head(loop[l].writes)) /\ Sleep(l)
  <2>1. AssignsOnly(l) /\ mem' \in Records /\ mem'.weeklyId = mem.weeklyId
    BY <1>1, <1>3, AssignsIs DEF AssignsOnly
  <2>2. OnlyLoop(l) /\ loop'[l].phase = "check" /\ loop'[l].step = 0
    BY <1>1, <1>3, SleepStep
  <2> QED BY <1>1, <2>1, <2>2
<1> QED BY <1>2, <1>3 DEF WriteRaises

LEMMA TypeInit == Init => TypeInv
<1> SUFFICES ASSUME Init PROVE TypeInv
  OBVIOUS
<1>1. LoopsTyped
  BY AsleepTyped DEF Init, LoopsTyped
<1>2. /\ mem \in Records /\ db \in Records /\ mem.weeklyId = NoCommand /\ db.weeklyId = NoCommand
  BY NothingTyped DEF Init
<1>3. /\ clock \in 0 .. MaxTime /\ errors \in Nat /\ crashes \in Nat /\ stopping \in BOOLEAN
      /\ thread \in Loops \cup {0} /\ commands \in Seq([day : Nat, outcome : Outcomes])
  <2>1. MaxTime \in Nat
    BY SchedulerAssumption
  <2>2. <<>> \in Seq([day : Nat, outcome : Outcomes])
    OBVIOUS
  <2>3. clock \in 0 .. MaxTime
    BY <2>1 DEF Init
  <2>4. commands \in Seq([day : Nat, outcome : Outcomes])
    BY <2>2 DEF Init
  <2> QED BY <2>3, <2>4 DEF Init
<1>4. called \in [Periodic -> SUBSET Nat] /\ calledHere \in [Periodic -> SUBSET Nat]
  BY DEF Init
<1>5. revived \in BOOLEAN
  BY DEF Init
<1> QED BY <1>1, <1>2, <1>3, <1>4, <1>5, PartsInOrder DEF TypeInv, TypeOK, LoopsTyped, LoopRecords

\* The fields of the type invariant, one by one.
LEMMA TypeFields ==
  ASSUME TypeInv
  PROVE  /\ clock \in 0 .. MaxTime /\ clock \in Nat
         /\ commands \in Seq([day : Nat, outcome : Outcomes])
         /\ mem \in Records /\ db \in Records
         /\ mem.weeklyId \in {NoCommand} \cup DOMAIN commands
         /\ db.weeklyId \in {NoCommand} \cup DOMAIN commands
         /\ thread \in Loops \cup {0} /\ stopping \in BOOLEAN /\ LoopsTyped
         /\ errors \in Nat /\ crashes \in Nat
         /\ called \in [Periodic -> SUBSET Nat] /\ calledHere \in [Periodic -> SUBSET Nat]
         /\ revived \in BOOLEAN
         /\ \A j \in Periodic : called[j] \subseteq Nat /\ calledHere[j] \subseteq Nat
         /\ \A l \in Loops : loop[l].now \in Nat /\ loop[l].step \in -1 .. 7
BY DEF TypeInv, TypeOK, LoopsTyped, LoopRecords

\* A finished command keeps its day, and no other command changes.
LEMMA FinishIs ==
  ASSUME TypeInv, NEW i \in DOMAIN commands, NEW outcome \in Outcomes \ {"ACTIVE"},
         Finish(i, outcome)
  PROVE  /\ commands' \in Seq([day : Nat, outcome : Outcomes])
         /\ DOMAIN commands' = DOMAIN commands /\ Len(commands') = Len(commands)
         /\ commands[i].outcome = "ACTIVE" /\ commands'[i].outcome = outcome
         /\ \A k \in DOMAIN commands : commands'[k].day = commands[k].day
         /\ \A k \in DOMAIN commands \ {i} : commands'[k] = commands[k]
         /\ UNCHANGED <<clock, mem, db, thread, stopping, loop, faultVars, historyVars>>
<1>1. commands \in Seq([day : Nat, outcome : Outcomes])
  BY TypeFields
<1>2. commands[i] \in [day : Nat, outcome : Outcomes]
  BY <1>1, ElementIn
<1> DEFINE c == [commands[i] EXCEPT !.outcome = outcome]
<1>3. c \in [day : Nat, outcome : Outcomes] /\ c.outcome = outcome /\ c.day = commands[i].day
  BY <1>2
<1>4. commands' = [commands EXCEPT ![i] = c]
  BY <1>1 DEF Finish
<1> HIDE DEF c
<1>5. /\ commands' \in Seq([day : Nat, outcome : Outcomes])
      /\ DOMAIN commands' = DOMAIN commands /\ Len(commands') = Len(commands)
      /\ commands'[i] = c /\ \A k \in DOMAIN commands \ {i} : commands'[k] = commands[k]
  BY <1>1, <1>3, <1>4
<1>6. \A k \in DOMAIN commands : commands'[k].day = commands[k].day
  BY <1>3, <1>5
<1> QED BY <1>3, <1>5, <1>6 DEF Finish

LEMMA TypeNext ==
  ASSUME TypeInv, [Next]_vars
  PROVE  TypeInv'
<1>0. /\ clock \in 0 .. MaxTime /\ clock \in Nat
      /\ commands \in Seq([day : Nat, outcome : Outcomes])
      /\ mem \in Records /\ db \in Records
      /\ mem.weeklyId \in {NoCommand} \cup DOMAIN commands
      /\ db.weeklyId \in {NoCommand} \cup DOMAIN commands
      /\ thread \in Loops \cup {0} /\ stopping \in BOOLEAN /\ LoopsTyped
      /\ errors \in Nat /\ crashes \in Nat
      /\ called \in [Periodic -> SUBSET Nat] /\ calledHere \in [Periodic -> SUBSET Nat]
      /\ revived \in BOOLEAN
  BY TypeFields
<1>1. CASE UNCHANGED vars
  BY <1>1, <1>0, TypeFrom DEF vars, faultVars, historyVars, LoopsTyped
<1>2. CASE Outside
  <2>0. LoopsTyped'
    BY <1>2, OutsideLoops
  <2>1. CASE Start
    <3>1. revived' \in BOOLEAN
      BY <2>1 DEF Start
    <3> QED BY <1>0, <2>0, <2>1, <3>1, TypeFrom DEF Start, faultVars
  <2>2. CASE Stop
    BY <1>0, <2>0, <2>2, TypeFrom DEF Stop, faultVars, historyVars
  <2>3. CASE Tick
    <3>1. clock' \in 0 .. MaxTime
      BY <1>0, <2>3 DEF Tick
    <3> QED BY <1>0, <2>0, <2>3, <3>1, TypeFrom DEF Tick, faultVars, historyVars
  <2>4. CASE Restart
    <3>1. crashes' \in Nat /\ calledHere' \in [Periodic -> SUBSET Nat]
      BY <1>0, <2>4 DEF Restart
    <3> QED BY <1>0, <2>0, <2>4, <3>1, TypeFrom DEF Restart
  <2>5. ASSUME NEW i \in DOMAIN commands, NEW outcome \in Outcomes \ {"ACTIVE"}, Finish(i, outcome)
        PROVE  TypeInv'
    <3>1. /\ commands' \in Seq([day : Nat, outcome : Outcomes])
          /\ DOMAIN commands' = DOMAIN commands
          /\ UNCHANGED <<clock, mem, db, thread, stopping, loop, faultVars, historyVars>>
      BY <2>5, FinishIs
    <3> QED BY <1>0, <2>0, <3>1, TypeFrom DEF faultVars, historyVars
  <2> QED BY <1>2, <2>1, <2>2, <2>3, <2>4, <2>5 DEF Outside
<1>3. ASSUME NEW l \in Loops, Thinks(l)
      PROVE  TypeInv'
  <2>1. /\ OnlyLoop(l) /\ loop'[l].phase # "write"
        /\ UNCHANGED <<clock, commands, mem, db, thread, stopping, crashes, historyVars>>
        /\ errors' \in Nat
        /\ loop'[l].step < 1 => loop'[l].phase = "check"
    BY <1>0, <1>3, ThinksIs
  <2>2. LoopsTyped'
    BY <1>0, <2>1, LoopsTypedNext
  <2> QED BY <1>0, <2>1, <2>2, TypeFrom DEF historyVars
<1>4. ASSUME NEW l \in Loops, Works(l)
      PROVE  TypeInv'
  <2>1. ASSUME NEW j \in Periodic, Call(l, j)
        PROVE  TypeInv'
    <3>1. /\ OnlyLoop(l) /\ loop'[l].step \in 1..7 /\ loop[l].now \in Nat
          /\ loop'[l].phase = "write" /\ loop'[l].writes = <<j>>
          /\ mem' \in Records /\ mem'.weeklyId = mem.weeklyId
          /\ called' = [called EXCEPT ![j] = @ \cup {Period(j, loop[l].now)}]
          /\ calledHere' = [calledHere EXCEPT ![j] = @ \cup {Period(j, loop[l].now)}]
          /\ UNCHANGED <<clock, commands, db, thread, stopping, faultVars, revived>>
      BY <2>1, CallIs
    <3>2. LoopsTyped'
      <4>1. loop'[l].writes # <<>>
        BY <3>1
      <4>2. ~ (loop'[l].step < 1)
        BY <3>1
      <4> QED BY <1>0, <3>1, <4>1, <4>2, LoopsTypedNext
    <3>3. called' \in [Periodic -> SUBSET Nat] /\ calledHere' \in [Periodic -> SUBSET Nat]
      BY <1>0, <3>1, TimeTyped
    <3> QED BY <1>0, <3>1, <3>2, <3>3, TypeFrom DEF faultVars
  <2>2. CASE Refresh(l)
    <3>1. /\ OnlyLoop(l) /\ loop'[l].step \in 1..7
          /\ loop'[l].phase = "write" /\ loop'[l].writes # <<>>
          /\ mem' \in Records /\ mem'.weeklyId \in {NoCommand, mem.weeklyId}
          /\ UNCHANGED <<clock, commands, db, thread, stopping, faultVars, historyVars>>
      BY <2>2, RefreshIs
    <3>2. LoopsTyped'
      BY <1>0, <3>1, LoopsTypedNext
    <3> QED BY <1>0, <3>1, <3>2, TypeFrom DEF faultVars, historyVars
  <2>3. CASE WeeklyCall(l)
    <3>1. /\ OnlyLoop(l) /\ loop'[l].step \in 1..7 /\ loop[l].now \in Nat
          /\ loop'[l].phase = "write" /\ loop'[l].writes # <<>>
          /\ commands' = Append(commands, [day |-> Day(loop[l].now), outcome |-> "ACTIVE"])
          /\ mem' \in Records /\ mem'.weeklyId = Len(commands) + 1
          /\ UNCHANGED <<clock, db, thread, stopping, faultVars, historyVars>>
      BY <2>3, WeeklyCallIs
    <3>2. LoopsTyped'
      BY <1>0, <3>1, LoopsTypedNext
    <3>3. [day |-> Day(loop[l].now), outcome |-> "ACTIVE"] \in [day : Nat, outcome : Outcomes]
      BY <3>1, TimeTyped DEF Outcomes
    <3>4. /\ commands' \in Seq([day : Nat, outcome : Outcomes])
          /\ DOMAIN commands' = 1 .. Len(commands) + 1 /\ DOMAIN commands = 1 .. Len(commands)
          /\ Len(commands) \in Nat
      BY <1>0, <3>1, <3>3
    <3>5. /\ mem'.weeklyId \in {NoCommand} \cup DOMAIN commands'
          /\ db'.weeklyId \in {NoCommand} \cup DOMAIN commands'
      BY <1>0, <3>1, <3>4
    <3> QED BY <1>0, <3>1, <3>2, <3>4, <3>5, TypeFrom DEF faultVars, historyVars
  <2>4. CASE WeeklyCallRaises(l)
    <3>1. /\ loop[l].step \in 1..7 /\ mem' = [mem EXCEPT !.weeklyStatus = "FAILED"]
          /\ Save(l, <<"weeklyStatus">>) /\ errors' \in Nat
          /\ UNCHANGED <<clock, commands, db, thread, stopping, crashes, historyVars>>
      BY <1>0, <2>4, AtStep DEF WeeklyCallRaises
    <3>2. /\ OnlyLoop(l) /\ loop'[l].step \in 1..7
          /\ loop'[l].phase = "write" /\ loop'[l].writes # <<>>
          /\ mem' \in Records /\ mem'.weeklyId = mem.weeklyId
      BY <3>1, FailedIs
    <3>3. LoopsTyped'
      BY <1>0, <3>2, LoopsTypedNext
    <3> QED BY <1>0, <3>1, <3>2, <3>3, TypeFrom DEF historyVars
  <2>5. CASE Write(l)
    <3>1. /\ OnlyLoop(l) /\ loop[l].step \in 1..7 /\ AssignsOnly(l)
          /\ db' \in Records /\ db'.weeklyId \in {db.weeklyId, mem.weeklyId}
          /\ \/ loop'[l].phase = "write" /\ loop'[l].writes # <<>> /\ loop'[l].step = loop[l].step
             \/ loop'[l].phase = "check"
          /\ UNCHANGED <<clock, commands, thread, stopping, faultVars, historyVars>>
      BY <2>5, WriteIs
    <3>2. LoopsTyped'
      BY <1>0, <3>1, LoopsTypedNext
    <3>3. mem' \in Records /\ mem'.weeklyId = mem.weeklyId
      BY <3>1 DEF AssignsOnly
    <3> QED BY <1>0, <3>1, <3>2, <3>3, TypeFrom DEF faultVars, historyVars
  <2>6. CASE WriteRaises(l)
    <3>1. /\ OnlyLoop(l) /\ loop[l].step \in 1..7
          /\ mem' \in Records /\ mem'.weeklyId = mem.weeklyId
          /\ \/ loop'[l].phase = "write" /\ loop'[l].writes # <<>> /\ loop'[l].step = loop[l].step
             \/ loop'[l].phase = "check"
          /\ errors' = errors + 1
          /\ UNCHANGED <<clock, commands, db, thread, stopping, crashes, historyVars>>
      BY <2>6, WriteRaisesIs
    <3>2. LoopsTyped' /\ errors' \in Nat
      BY <1>0, <3>1, LoopsTypedNext
    <3> QED BY <1>0, <3>1, <3>2, TypeFrom DEF historyVars
  <2> QED BY <1>4, <2>1, <2>2, <2>3, <2>4, <2>5, <2>6 DEF Works
<1> QED BY <1>1, <1>2, <1>3, <1>4, StepIs

\* The fields of the scheduler keep their types, and it follows only commands
\* that were queued.
THEOREM TypeCorrect == Spec => []TypeOK
<1>1. TypeInv /\ [Next]_vars => TypeInv'
  BY TypeNext
<1>2. TypeInv => TypeOK
  BY DEF TypeInv
<1> QED BY TypeInit, <1>1, <1>2, PTL DEF Spec

LEMMA TypeAlways == Spec => []TypeInv
<1>1. TypeInv /\ [Next]_vars => TypeInv'
  BY TypeNext
<1> QED BY TypeInit, <1>1, PTL DEF Spec

LEMMA CalledInit == Init => CalledInv
BY NothingTyped DEF Init, CalledInv, Jobs

LEMMA CalledNext ==
  ASSUME TypeInv, CalledInv, [Next]_vars
  PROVE  CalledInv'
<1>0. /\ clock \in Nat /\ LoopsTyped /\ called \in [Periodic -> SUBSET Nat]
      /\ \A j \in Periodic : j \in Jobs
  BY TypeFields DEF Jobs
<1>1. CASE UNCHANGED vars
  BY <1>1 DEF vars, historyVars, CalledInv
<1>2. CASE Outside
  <2>1. called' = called /\ db' = db /\ mem' \in {mem, db}
    BY <1>2 DEF Outside, Start, Stop, Tick, Restart, Finish, historyVars
  <2> QED BY <2>1 DEF CalledInv
<1>3. ASSUME NEW l \in Loops, Thinks(l)
      PROVE  CalledInv'
  <2>1. UNCHANGED <<mem, db, historyVars>>
    BY <1>0, <1>3, ThinksIs
  <2> QED BY <2>1 DEF CalledInv, historyVars
<1>4. ASSUME NEW l \in Loops, Works(l)
      PROVE  CalledInv'
  <2>1. ASSUME NEW j \in Periodic, Call(l, j)
        PROVE  CalledInv'
    <3>1. /\ mem'.lastRun[j] = Period(j, loop[l].now)
          /\ \A k \in Jobs \ {j} : mem'.lastRun[k] = mem.lastRun[k]
          /\ called' = [called EXCEPT ![j] = @ \cup {Period(j, loop[l].now)}] /\ db' = db
      BY <2>1, CallIs
    <3>2. /\ called'[j] = called[j] \cup {Period(j, loop[l].now)}
          /\ \A k \in Periodic \ {j} : called'[k] = called[k]
      BY <1>0, <3>1
    <3> QED BY <1>0, <3>1, <3>2 DEF CalledInv
  <2>2. ASSUME \A j \in Periodic : mem'.lastRun[j] = mem.lastRun[j],
               \A j \in Periodic : db'.lastRun[j] \in {db.lastRun[j], mem'.lastRun[j]},
               called' = called
        PROVE  CalledInv'
    BY <2>2 DEF CalledInv
  <2>3. CASE Refresh(l)
    <3>1. mem'.lastRun = mem.lastRun /\ db' = db /\ UNCHANGED historyVars
      BY <2>3, RefreshIs
    <3> QED BY <2>2, <3>1 DEF historyVars
  <2>4. CASE WeeklyCall(l)
    <3>1. mem'.lastRun = mem.lastRun /\ db' = db /\ UNCHANGED historyVars
      BY <2>4, WeeklyCallIs
    <3> QED BY <2>2, <3>1 DEF historyVars
  <2>5. CASE WeeklyCallRaises(l)
    <3>1. /\ loop[l].step \in 1..7 /\ mem' = [mem EXCEPT !.weeklyStatus = "FAILED"]
          /\ Save(l, <<"weeklyStatus">>) /\ db' = db /\ UNCHANGED historyVars
      BY <2>5, AtStep DEF WeeklyCallRaises
    <3>2. mem'.lastRun = mem.lastRun
      BY <3>1, FailedIs
    <3> QED BY <2>2, <3>1, <3>2 DEF historyVars
  <2>6. CASE Write(l)
    <3>1. /\ AssignsOnly(l) /\ UNCHANGED historyVars
          /\ \A j \in Jobs : db'.lastRun[j] \in {db.lastRun[j], mem'.lastRun[j]}
      BY <2>6, WriteIs
    <3> QED BY <1>0, <2>2, <3>1 DEF historyVars, AssignsOnly
  <2>7. CASE WriteRaises(l)
    <3>1. /\ mem'.lastRun = mem.lastRun \/ AssignsOnly(l)
          /\ db' = db /\ UNCHANGED historyVars
      BY <2>7, WriteRaisesIs
    <3> QED BY <2>2, <3>1 DEF historyVars, AssignsOnly
  <2> QED BY <1>4, <2>1, <2>3, <2>4, <2>5, <2>6, <2>7 DEF Works
<1> QED BY <1>1, <1>2, <1>3, <1>4, StepIs

\* scheduler.py:103-110: the callback comes before the record of its period, in
\* the object and in the database; so whatever raises, crashes or is stopped,
\* and whatever loops are alive, a period on record is one the job was called in.
THEOREM RecordsWhatRan == Spec => []RecordedWasCalled
<1>1. TypeInv /\ CalledInv /\ [Next]_vars => CalledInv'
  BY CalledNext
<1>2. CalledInv => RecordedWasCalled
  BY DEF CalledInv, RecordedWasCalled
<1> QED BY CalledInit, TypeAlways, <1>1, <1>2, PTL DEF Spec

-----------------------------------------------------------------------------
(* One loop: until a start() has revived a thread, every stop() that was     *)
(* followed by a start() saw its thread end.                                 *)

Awake(l) == loop[l].step >= 1

\* Nothing is recorded, queued or called ahead of the time a loop works with.
ClockInv ==
  /\ \A j \in Periodic :
       /\ mem.lastRun[j] <= Period(j, clock) /\ db.lastRun[j] <= Period(j, clock)
       /\ \A p \in calledHere[j] : p <= mem.lastRun[j]
  /\ \A i \in DOMAIN commands : commands[i].day <= Day(clock)
  /\ \A l \in Loops : Awake(l) =>
       /\ loop[l].now <= clock
       /\ \A j \in Periodic : mem.lastRun[j] <= Period(j, loop[l].now)
       /\ \A i \in DOMAIN commands : commands[i].day <= Day(loop[l].now)

\* A decision to call still stands when the call is made.
DecidedInv ==
  \A l \in Loops : loop[l].phase = "call" =>
    \/ \E j \in Periodic : Parts[loop[l].step] = j /\ Due(j, loop[l].now)
    \/ Parts[loop[l].step] = "weekly" /\ WeeklyDue(loop[l].now)

\* Once run_once has refreshed the command, a wait for the market is no
\* command's any more.
RefreshedInv ==
  \A l \in Loops :
    Awake(l) /\ ~ (loop[l].step = 1 /\ loop[l].phase = "check")
      /\ mem.weeklyStatus = "WAITING_FOR_MARKET" => mem.weeklyId = NoCommand

\* Each restart can leave one command that is not followed.
OrphanInv == Cardinality(Active \ {mem.weeklyId}) <= crashes

Last == commands[Len(commands)]

\* Before the first restart: the last command is followed until its outcome is
\* in the object, no other is at work, a failed one is the last of its day, and
\* the completion that is about to be recorded is the last command's.
CommandInv ==
  /\ commands # <<>> =>
       /\ mem.weeklyDay = Last.day
       /\ \/ mem.weeklyId = Len(commands)
          \/ /\ mem.weeklyId = NoCommand
             /\ Last.outcome # "ACTIVE"
             /\ mem.weeklyStatus \in {Last.outcome, "FAILED"}
  /\ \A i \in DOMAIN commands : i # Len(commands) => commands[i].outcome # "ACTIVE"
  /\ \A i, k \in DOMAIN commands :
       i < k /\ commands[i].outcome = "FAILED" => commands[i].day < commands[k].day
  /\ \A l \in Loops :
       loop[l].phase = "write" /\ (\E n \in DOMAIN loop[l].writes : loop[l].writes[n] = "weekly")
         => commands # <<>> /\ Last.outcome = "COMPLETED"

OneLoopInv ==
  /\ ClockInv /\ DecidedInv /\ RefreshedInv /\ OrphanInv
  /\ crashes = 0 => CommandInv
  /\ ConsumedByCompletion

LoneLoop == \A l, k \in Loops : loop[l] # Gone /\ loop[k] # Gone => l = k

\* A step of a loop that works takes neither time nor another loop's place.
LEMMA WorksIs ==
  ASSUME TypeInv, NEW l \in Loops, Works(l)
  PROVE  /\ OnlyLoop(l) /\ loop[l].step \in 1..7 /\ loop'[l].phase # "call"
         /\ loop'[l].step >= 1 => loop'[l].now = loop[l].now
         /\ clock' = clock /\ crashes' = crashes /\ revived' = revived
         /\ db' = db \/ Write(l)
<1>1. CASE \E j \in Periodic : Call(l, j)
  BY <1>1, CallIs DEF faultVars
<1>2. CASE Refresh(l)
  BY <1>2, RefreshIs DEF faultVars, historyVars
<1>3. CASE WeeklyCall(l)
  BY <1>3, WeeklyCallIs DEF faultVars, historyVars
<1>4. CASE WeeklyCallRaises(l)
  <2>1. /\ loop[l].step \in 1..7 /\ mem' = [mem EXCEPT !.weeklyStatus = "FAILED"]
        /\ Save(l, <<"weeklyStatus">>) /\ UNCHANGED <<clock, db, crashes, revived>>
    BY <1>4, AtStep DEF WeeklyCallRaises, historyVars
  <2> QED BY <2>1, FailedIs
<1>5. CASE Write(l)
  BY <1>5, WriteIs DEF faultVars, historyVars
<1>6. CASE WriteRaises(l)
  BY <1>6, WriteRaisesIs DEF historyVars
<1> QED BY <1>1, <1>2, <1>3, <1>4, <1>5, <1>6 DEF Works

\* A loop that takes a step has not gone.
LEMMA Alive ==
  ASSUME TypeInv, NEW l \in Loops, Thinks(l) \/ Works(l)
  PROVE  OnlyLoop(l) /\ loop[l] # Gone
<1>1. clock \in Nat /\ LoopsTyped
  BY TypeFields
<1>2. CASE Works(l)
  BY <1>2, WorksIs, AsleepTyped
<1>3. CASE Thinks(l)
  <2>1. OnlyLoop(l)
    BY <1>1, <1>3, ThinksIs
  <2>2. loop[l].step \in 0 .. 7
    <3>1. CASE Exit(l) \/ Wake(l)
      BY <3>1 DEF Exit, Wake
    <3>2. CASE RefreshNothing(l) \/ WeeklyPass(l) \/ WeeklyDecide(l)
      BY <3>2, AtStep DEF RefreshNothing, WeeklyPass, WeeklyDecide
    <3>3. CASE \E j \in Periodic : Pass(l, j) \/ Decide(l, j) \/ CallRaises(l, j)
      BY <3>3, AtStep DEF Pass, Decide, CallRaises
    <3> QED BY <1>3, <3>1, <3>2, <3>3 DEF Thinks
  <2> QED BY <2>1, <2>2, AsleepTyped
<1> QED BY <1>2, <1>3

\* While one loop steps alone the others are gone.
LEMMA Alone ==
  ASSUME TypeInv, LoneLoop, NEW l \in Loops, Thinks(l) \/ Works(l)
  PROVE  \A k \in Loops : k # l => ~ (loop'[k].step >= 1) /\ loop'[k].phase = "check"
<1>1. \A k \in Loops : k # l => loop[k] = Gone /\ loop'[k] = Gone
  BY Alive DEF LoneLoop, OnlyLoop
<1>2. ~ (-1 >= 1)
  OBVIOUS
<1> QED BY <1>1, <1>2, AsleepTyped

\* What working does to the record of the periodic jobs.
LEMMA WorksJobs ==
  ASSUME TypeInv, NEW l \in Loops, Works(l)
  PROVE  \/ \E j \in Periodic : Call(l, j)
         \/ /\ \A j \in Periodic : mem'.lastRun[j] = mem.lastRun[j]
            /\ \A j \in Periodic : db'.lastRun[j] \in {db.lastRun[j], mem.lastRun[j]}
            /\ calledHere' = calledHere
<1>0. \A j \in Periodic : j \in Jobs
  BY DEF Jobs
<1>1. CASE Refresh(l)
  BY <1>1, RefreshIs DEF historyVars
<1>2. CASE WeeklyCall(l)
  BY <1>2, WeeklyCallIs DEF historyVars
<1>3. CASE WeeklyCallRaises(l)
  <2>1. /\ loop[l].step \in 1..7 /\ mem' = [mem EXCEPT !.weeklyStatus = "FAILED"]
        /\ Save(l, <<"weeklyStatus">>) /\ UNCHANGED <<db, historyVars>>
    BY <1>3, AtStep DEF WeeklyCallRaises
  <2>2. mem'.lastRun = mem.lastRun
    BY <2>1, FailedIs
  <2> QED BY <2>1, <2>2 DEF historyVars
<1>4. CASE Write(l)
  <2>1. /\ \A j \in Periodic : mem'.lastRun[j] = mem.lastRun[j]
        /\ \A j \in Jobs : db'.lastRun[j] \in {db.lastRun[j], mem'.lastRun[j]}
        /\ calledHere' = calledHere
    BY <1>4, WriteIs DEF AssignsOnly, historyVars
  <2> QED BY <1>0, <2>1
<1>5. CASE WriteRaises(l)
  BY <1>5, WriteRaisesIs DEF AssignsOnly, historyVars
<1> QED BY <1>1, <1>2, <1>3, <1>4, <1>5 DEF Works

\* What working does to the commands and to the weekly fields.
LEMMA WorksWeekly ==
  ASSUME TypeInv, NEW l \in Loops, Works(l)
  PROVE  \/ Refresh(l)
         \/ WeeklyCall(l)
         \/ /\ commands' = commands /\ loop[l].phase # "check"
            /\ mem'.weeklyId = mem.weeklyId /\ mem'.weeklyDay = mem.weeklyDay
            /\ mem'.weeklyStatus \in {mem.weeklyStatus, "FAILED"}
            /\ \/ loop'[l].phase # "write"
               \/ \A n \in DOMAIN loop'[l].writes : loop'[l].writes[n] # "weekly"
               \/ /\ loop[l].phase = "write"
                  /\ \A n \in DOMAIN loop'[l].writes :
                       \E m \in DOMAIN loop[l].writes : loop'[l].writes[n] = loop[l].writes[m]
            /\ \/ mem'.lastRun["weekly"] = mem.lastRun["weekly"]
               \/ /\ mem'.lastRun["weekly"] = mem.weeklyDay
                  /\ loop[l].phase = "write"
                  /\ \E n \in DOMAIN loop[l].writes : loop[l].writes[n] = "weekly"
<1>1. ASSUME NEW j \in Periodic, Call(l, j)
      PROVE  /\ commands' = commands /\ loop[l].phase # "check"
             /\ mem'.weeklyId = mem.weeklyId /\ mem'.weeklyDay = mem.weeklyDay
             /\ mem'.weeklyStatus = mem.weeklyStatus
             /\ \A n \in DOMAIN loop'[l].writes : loop'[l].writes[n] # "weekly"
             /\ mem'.lastRun["weekly"] = mem.lastRun["weekly"]
  <2>1. j # "weekly" /\ "weekly" \in Jobs \ {j} /\ loop[l].phase = "call"
    BY <1>1 DEF Periodic, Jobs, Call, At
  <2>2. /\ commands' = commands /\ loop'[l].writes = <<j>>
        /\ mem'.weeklyId = mem.weeklyId /\ mem'.weeklyDay = mem.weeklyDay
        /\ mem'.weeklyStatus = mem.weeklyStatus
        /\ \A k \in Jobs \ {j} : mem'.lastRun[k] = mem.lastRun[k]
    BY <1>1, CallIs
  <2>3. \A n \in DOMAIN loop'[l].writes : loop'[l].writes[n] # "weekly"
    BY <2>1, <2>2
  <2> QED BY <2>1, <2>2, <2>3
<1>2. CASE WeeklyCallRaises(l)
  <2>1. /\ loop[l].step \in 1..7 /\ mem' = [mem EXCEPT !.weeklyStatus = "FAILED"]
        /\ Save(l, <<"weeklyStatus">>) /\ commands' = commands /\ loop[l].phase = "call"
    BY <1>2, AtStep DEF WeeklyCallRaises
  <2> QED BY <2>1, FailedIs
<1>3. CASE Write(l)
  BY <1>3, WriteIs DEF AssignsOnly
<1>4. CASE WriteRaises(l)
  BY <1>4, WriteRaisesIs DEF AssignsOnly
<1> QED BY <1>1, <1>2, <1>3, <1>4 DEF Works

LEMMA CommandDays ==
  ASSUME TypeInv
  PROVE  /\ Len(commands) \in Nat /\ DOMAIN commands = 1 .. Len(commands)
         /\ \A i \in DOMAIN commands :
              commands[i].day \in Nat /\ commands[i].outcome \in Outcomes
<1>1. commands \in Seq([day : Nat, outcome : Outcomes])
  BY TypeFields
<1>2. \A i \in DOMAIN commands : commands[i] \in [day : Nat, outcome : Outcomes]
  BY <1>1, ElementIn
<1> QED BY <1>1, <1>2

LEMMA QueuedIs ==
  ASSUME TypeInv, NEW l \in Loops, WeeklyCall(l)
  PROVE  /\ Len(commands') = Len(commands) + 1
         /\ DOMAIN commands' = 1 .. Len(commands) + 1
         /\ commands'[Len(commands) + 1].day = Day(loop[l].now)
         /\ commands'[Len(commands) + 1].outcome = "ACTIVE"
         /\ \A i \in DOMAIN commands : commands'[i] = commands[i]
<1> DEFINE c == [day |-> Day(loop[l].now), outcome |-> "ACTIVE"]
<1>1. commands' = Append(commands, c) /\ loop[l].now \in Nat
  BY WeeklyCallIs
<1>2. c \in [day : Nat, outcome : Outcomes] /\ c.day = Day(loop[l].now) /\ c.outcome = "ACTIVE"
  BY <1>1, TimeTyped DEF Outcomes
<1>3. commands \in Seq([day : Nat, outcome : Outcomes])
  BY TypeFields
<1> HIDE DEF c
<1>4. /\ Len(commands') = Len(commands) + 1 /\ DOMAIN commands' = 1 .. Len(commands) + 1
      /\ commands'[Len(commands) + 1] = c
      /\ \A i \in DOMAIN commands : commands'[i] = commands[i]
  BY <1>1, <1>2, <1>3
<1> QED BY <1>2, <1>4

LEMMA ClockInit == Init => ClockInv
<1> SUFFICES ASSUME Init PROVE ClockInv
  OBVIOUS
<1>1. \A j \in Periodic : mem.lastRun[j] = Never /\ db.lastRun[j] = Never /\ calledHere[j] = {}
  BY NothingTyped DEF Init, Jobs
<1>2. clock = 0 /\ \A j : Period(j, clock) \in Nat
  BY TimeTyped DEF Init
<1>3. \A l \in Loops : ~ Awake(l)
  BY AsleepTyped DEF Init, Awake
<1> QED BY <1>1, <1>2, <1>3 DEF ClockInv, Init, Never

LEMMA LastRunTyped ==
  ASSUME TypeInv
  PROVE  \A j \in Jobs : /\ mem.lastRun[j] \in Nat \cup {Never} /\ mem.lastRun[j] \in Int
                         /\ db.lastRun[j] \in Nat \cup {Never} /\ db.lastRun[j] \in Int
BY DEF TypeInv, TypeOK, Records, Jobs, Never

LEMMA ClockNext ==
  ASSUME TypeInv, LoneLoop, ClockInv, [Next]_vars
  PROVE  ClockInv'
<1>0. /\ clock \in Nat /\ LoopsTyped /\ \A j \in Periodic : j \in Jobs
      /\ \A l \in Loops : loop[l].now \in Nat /\ loop[l].step \in -1 .. 7
      /\ calledHere \in [Periodic -> SUBSET Nat]
      /\ \A j \in Periodic : calledHere[j] \subseteq Nat
  BY TypeFields DEF Jobs
<1>1. CASE UNCHANGED vars
  BY <1>1 DEF vars, faultVars, historyVars, ClockInv, Awake
<1>2. CASE Outside
  <2>0. \A l \in Loops : loop'[l] = loop[l] \/ ~ (loop'[l].step >= 1)
    BY <1>2, OutsideLoops, AsleepTyped
  <2>1. CASE Start \/ Stop
    <3>1. UNCHANGED <<clock, commands, mem, db, calledHere>>
      BY <2>1 DEF Start, Stop, historyVars
    <3> QED BY <2>0, <3>1 DEF ClockInv, Awake
  <2>2. CASE Tick
    <3>1. clock' = clock + 1 /\ UNCHANGED <<commands, mem, db, loop, calledHere>>
      BY <2>2 DEF Tick, historyVars
    <3>2. clock' \in Nat /\ Day(clock) <= Day(clock') /\ \A j : Period(j, clock) <= Period(j, clock')
      BY <1>0, <3>1, LaterTyped
    <3>3. /\ Day(clock) \in Nat /\ Day(clock') \in Nat
          /\ \A j : Period(j, clock) \in Nat /\ Period(j, clock') \in Nat
      BY <1>0, <3>2, TimeTyped
    <3>4. \A j \in Periodic : /\ mem'.lastRun[j] <= Period(j, clock')
                              /\ db'.lastRun[j] <= Period(j, clock')
                              /\ \A p \in calledHere'[j] : p <= mem'.lastRun[j]
      BY <1>0, <3>1, <3>2, <3>3, LastRunTyped DEF ClockInv
    <3>5. \A i \in DOMAIN commands' : commands'[i].day <= Day(clock')
      BY <3>1, <3>2, <3>3, CommandDays DEF ClockInv
    <3>6. \A l \in Loops : Awake(l)' =>
            /\ loop'[l].now <= clock'
            /\ \A j \in Periodic : mem'.lastRun[j] <= Period(j, loop'[l].now)
            /\ \A i \in DOMAIN commands' : commands'[i].day <= Day(loop'[l].now)
      BY <1>0, <3>1 DEF ClockInv, Awake
    <3> QED BY <3>4, <3>5, <3>6 DEF ClockInv
  <2>3. CASE Restart
    <3>1. /\ mem' = db /\ UNCHANGED <<clock, commands, db>>
          /\ \A l \in Loops : loop'[l] = Gone /\ \A j \in Periodic : calledHere'[j] = {}
      BY <2>3 DEF Restart
    <3>2. \A l \in Loops : ~ Awake(l)'
      BY <3>1, AsleepTyped DEF Awake
    <3> QED BY <2>3, <3>1, <3>2 DEF ClockInv, Restart
  <2>4. ASSUME NEW i \in DOMAIN commands, NEW outcome \in Outcomes \ {"ACTIVE"}, Finish(i, outcome)
        PROVE  ClockInv'
    <3>1. /\ DOMAIN commands' = DOMAIN commands
          /\ \A k \in DOMAIN commands : commands'[k].day = commands[k].day
          /\ UNCHANGED <<clock, mem, db, loop, historyVars>>
      BY <2>4, FinishIs
    <3> QED BY <3>1 DEF ClockInv, Awake, historyVars
  <2> QED BY <1>2, <2>1, <2>2, <2>3, <2>4 DEF Outside
<1>3. ASSUME NEW l \in Loops, Thinks(l)
      PROVE  ClockInv'
  <2>1. /\ UNCHANGED <<clock, commands, mem, db, historyVars>>
        /\ loop'[l].step >= 1 => \/ loop'[l].now = clock
                                 \/ loop[l].step >= 1 /\ loop'[l].now = loop[l].now
    BY <1>0, <1>3, ThinksIs
  <2>2. \A k \in Loops : k # l => loop'[k] = loop[k] /\ ~ (loop'[k].step >= 1)
    BY <1>3, Alone, Alive DEF OnlyLoop
  <2> QED BY <1>0, <2>1, <2>2 DEF ClockInv, Awake, historyVars
<1>4. ASSUME NEW l \in Loops, Works(l)
      PROVE  ClockInv'
  <2>0. /\ Awake(l) /\ clock' = clock
        /\ \A k \in Loops : k # l => ~ (loop'[k].step >= 1)
        /\ loop'[l].step >= 1 => loop'[l].now = loop[l].now
    BY <1>4, WorksIs, Alone DEF Awake
  <2> DEFINE now == loop[l].now
  <2>1. /\ now \in Nat /\ now <= clock /\ Day(now) <= Day(clock)
        /\ Day(now) \in Nat /\ Day(clock) \in Nat
        /\ \A j : /\ Period(j, now) <= Period(j, clock)
                  /\ Period(j, now) \in Nat /\ Period(j, clock) \in Nat
    BY <1>0, <2>0, LaterTyped, TimeTyped DEF ClockInv
  <2>2. /\ \A j \in Periodic : /\ mem'.lastRun[j] <= Period(j, now)
                               /\ mem'.lastRun[j] <= Period(j, clock)
                               /\ db'.lastRun[j] <= Period(j, clock)
                               /\ \A p \in calledHere'[j] : p <= mem'.lastRun[j]
    <3>1. ASSUME NEW j \in Periodic, Call(l, j)
          PROVE  \A k \in Periodic : /\ mem'.lastRun[k] <= Period(k, now)
                                     /\ mem'.lastRun[k] <= Period(k, clock)
                                     /\ db'.lastRun[k] <= Period(k, clock)
                                     /\ \A p \in calledHere'[k] : p <= mem'.lastRun[k]
      <4>1. /\ mem'.lastRun[j] = Period(j, now) /\ db' = db
            /\ \A k \in Jobs \ {j} : mem'.lastRun[k] = mem.lastRun[k]
            /\ calledHere' = [calledHere EXCEPT ![j] = @ \cup {Period(j, now)}]
        BY <3>1, CallIs
      <4>2. /\ calledHere'[j] = calledHere[j] \cup {Period(j, now)}
            /\ \A k \in Periodic \ {j} : calledHere'[k] = calledHere[k]
        BY <1>0, <4>1
      <4> HIDE DEF now
      <4>3. /\ mem.lastRun[j] <= Period(j, now) /\ \A p \in calledHere[j] : p <= mem.lastRun[j]
            /\ db.lastRun[j] <= Period(j, clock) /\ mem.lastRun[j] \in Int
        BY <1>0, <2>0, LastRunTyped DEF ClockInv, now
      <4>4. \A p \in calledHere'[j] : p <= mem'.lastRun[j]
        BY <1>0, <2>1, <4>1, <4>2, <4>3
      <4>5. ASSUME NEW k \in Periodic \ {j}
            PROVE  /\ mem'.lastRun[k] <= Period(k, now) /\ mem'.lastRun[k] <= Period(k, clock)
                   /\ db'.lastRun[k] <= Period(k, clock)
                   /\ \A p \in calledHere'[k] : p <= mem'.lastRun[k]
        BY <1>0, <2>0, <4>1, <4>2 DEF ClockInv, now
      <4> QED BY <2>1, <4>1, <4>3, <4>4, <4>5
    <3>2. CASE /\ \A j \in Periodic : mem'.lastRun[j] = mem.lastRun[j]
               /\ \A j \in Periodic : db'.lastRun[j] \in {db.lastRun[j], mem.lastRun[j]}
               /\ calledHere' = calledHere
      BY <2>0, <3>2 DEF ClockInv
    <3> QED BY <1>4, <3>1, <3>2, WorksJobs
  <2>3. \A i \in DOMAIN commands' : commands'[i].day <= Day(now) /\ commands'[i].day <= Day(clock)
    <3>1. CASE WeeklyCall(l)
      <4>1. /\ Len(commands) \in Nat /\ DOMAIN commands = 1 .. Len(commands)
            /\ DOMAIN commands' = 1 .. Len(commands) + 1
            /\ commands'[Len(commands) + 1].day = Day(now)
            /\ \A i \in DOMAIN commands : commands'[i] = commands[i]
        BY <3>1, QueuedIs, CommandDays
      <4>2. \A i \in DOMAIN commands : commands[i].day <= Day(now) /\ commands[i].day <= Day(clock)
        BY <2>0 DEF ClockInv
      <4>3. ASSUME NEW i \in DOMAIN commands'
            PROVE  commands'[i].day <= Day(now) /\ commands'[i].day <= Day(clock)
        <5>1. CASE i = Len(commands) + 1
          BY <2>1, <4>1, <5>1
        <5>2. CASE i # Len(commands) + 1
          <6>1. i \in DOMAIN commands
            BY <4>1, <5>2
          <6> QED BY <4>1, <4>2, <6>1
        <5> QED BY <5>1, <5>2
      <4> QED BY <4>3
    <3>2. CASE ~ WeeklyCall(l)
      <4>1. commands' = commands
        BY <1>4, <3>2, WorksWeekly, RefreshIs
      <4> QED BY <2>0, <4>1 DEF ClockInv
    <3> QED BY <3>1, <3>2
  <2> QED BY <2>0, <2>1, <2>2, <2>3 DEF ClockInv, Awake
<1> QED BY <1>1, <1>2, <1>3, <1>4, StepIs

\* A loop that comes to a call has just decided on it.
LEMMA DecidesIs ==
  ASSUME LoopsTyped, clock \in Nat, NEW l \in Loops, Thinks(l), loop'[l].phase = "call"
  PROVE  /\ loop'[l].step = loop[l].step /\ loop'[l].now = loop[l].now
         /\ \/ \E j \in Periodic : Parts[loop[l].step] = j /\ Due(j, loop[l].now)
            \/ Parts[loop[l].step] = "weekly" /\ WeeklyDue(loop[l].now)
<1>1. CASE WeeklyDecide(l)
  <2>1. /\ loop' = [loop EXCEPT ![l].phase = "call"]
        /\ Parts[loop[l].step] = "weekly" /\ WeeklyDue(loop[l].now)
    BY <1>1, AtStep DEF WeeklyDecide
  <2>2. loop'[l].step = loop[l].step /\ loop'[l].now = loop[l].now
    BY <2>1, CallStep
  <2> QED BY <2>1, <2>2
<1>2. ASSUME NEW j \in Periodic, Decide(l, j)
      PROVE  /\ loop'[l].step = loop[l].step /\ loop'[l].now = loop[l].now
             /\ Parts[loop[l].step] = j /\ Due(j, loop[l].now)
  <2>1. /\ loop' = [loop EXCEPT ![l].phase = "call"]
        /\ Parts[loop[l].step] = j /\ Due(j, loop[l].now)
    BY <1>2, AtStep DEF Decide
  <2>2. loop'[l].step = loop[l].step /\ loop'[l].now = loop[l].now
    BY <2>1, CallStep
  <2> QED BY <2>1, <2>2
<1>3. ASSUME NEW j \in Periodic, Pass(l, j) \/ CallRaises(l, j)
      PROVE  FALSE
  BY <1>3, AtStep, ProceedStep, SleepStep DEF Pass, CallRaises
<1>4. ~ Exit(l)
  <2>1. ASSUME loop' = [loop EXCEPT ![l] = Gone] PROVE FALSE
    BY <2>1, AsleepTyped, LoopSet
  <2> QED BY <2>1 DEF Exit
<1>5. ~ Wake(l)
  BY WakeStep
<1>6. ~ RefreshNothing(l) /\ ~ WeeklyPass(l)
  BY AtStep, ProceedStep DEF RefreshNothing, WeeklyPass
<1> QED BY <1>1, <1>2, <1>3, <1>4, <1>5, <1>6 DEF Thinks

LEMMA DecidedNext ==
  ASSUME TypeInv, LoneLoop, DecidedInv, [Next]_vars
  PROVE  DecidedInv'
<1>0. clock \in Nat /\ LoopsTyped
  BY TypeFields
<1>1. CASE UNCHANGED vars
  BY <1>1 DEF vars, DecidedInv, Due, WeeklyDue, ScheduledWeeklyDue, WaitingRetryDue
<1>2. CASE Outside
  <2>0. \A l \in Loops : loop'[l] = loop[l] \/ loop'[l].phase # "call"
    BY <1>2, OutsideLoops, AsleepTyped
  <2>1. CASE Restart
    <3>1. \A l \in Loops : loop'[l].phase # "call"
      BY <2>1, AsleepTyped DEF Restart
    <3> QED BY <3>1 DEF DecidedInv
  <2>2. CASE ~ Restart
    <3>1. mem' = mem
      BY <1>2, <2>2 DEF Outside, Start, Stop, Tick, Finish
    <3> QED BY <2>0, <3>1
        DEF DecidedInv, Due, WeeklyDue, ScheduledWeeklyDue, WaitingRetryDue
  <2> QED BY <2>1, <2>2
<1>3. ASSUME NEW l \in Loops, Thinks(l)
      PROVE  DecidedInv'
  <2>1. mem' = mem /\ \A k \in Loops : k # l => ~ (loop'[k].step >= 1) /\ loop'[k].phase = "check"
    BY <1>0, <1>3, ThinksIs, Alone
  <2>2. CASE loop'[l].phase = "call"
    <3>1. /\ loop'[l].step = loop[l].step /\ loop'[l].now = loop[l].now
          /\ \/ \E j \in Periodic : Parts[loop[l].step] = j /\ Due(j, loop[l].now)
             \/ Parts[loop[l].step] = "weekly" /\ WeeklyDue(loop[l].now)
      BY <1>0, <1>3, <2>2, DecidesIs
    <3> QED BY <2>1, <3>1
        DEF DecidedInv, Due, WeeklyDue, ScheduledWeeklyDue, WaitingRetryDue
  <2>3. CASE loop'[l].phase # "call"
    BY <2>1, <2>3 DEF DecidedInv
  <2> QED BY <2>2, <2>3
<1>4. ASSUME NEW l \in Loops, Works(l)
      PROVE  DecidedInv'
  <2>1. loop'[l].phase # "call" /\ \A k \in Loops : k # l => loop'[k].phase = "check"
    BY <1>4, WorksIs, Alone
  <2> QED BY <2>1 DEF DecidedInv
<1> QED BY <1>1, <1>2, <1>3, <1>4, StepIs

\* A loop that thinks is asleep, has just woken or is past the refresh, unless
\* nothing is followed.
LEMMA PastRefresh ==
  ASSUME LoopsTyped, clock \in Nat, NEW l \in Loops, Thinks(l), loop'[l].step >= 1
  PROVE  \/ loop'[l].step = 1 /\ loop'[l].phase = "check"
         \/ mem.weeklyId = NoCommand
         \/ loop[l].step \in 2..7
<1>1. CASE WeeklyDecide(l) \/ WeeklyPass(l)
  BY <1>1, AtStep, PartsInOrder DEF WeeklyDecide, WeeklyPass
<1>2. ASSUME NEW j \in Periodic, Pass(l, j) \/ Decide(l, j) \/ CallRaises(l, j)
      PROVE  loop[l].step \in 2..7
  <2>1. loop[l].step \in 1..7 /\ Parts[loop[l].step] = j /\ j # "refresh"
    BY <1>2, AtStep DEF Pass, Decide, CallRaises, Periodic
  <2> QED BY <2>1, PartsInOrder
<1>3. CASE Exit(l)
  <2>1. loop' = [loop EXCEPT ![l] = Gone]
    BY <1>3 DEF Exit
  <2>2. loop'[l] = Gone /\ Gone.step = -1
    BY <2>1, AsleepTyped, LoopSet
  <2>3. ~ (-1 >= 1)
    OBVIOUS
  <2> QED BY <2>2, <2>3
<1>4. CASE Wake(l)
  BY <1>4, WakeStep
<1>5. CASE RefreshNothing(l)
  BY <1>5 DEF RefreshNothing
<1> QED BY <1>1, <1>2, <1>3, <1>4, <1>5 DEF Thinks

LEMMA RefreshedNext ==
  ASSUME TypeInv, LoneLoop, RefreshedInv, [Next]_vars
  PROVE  RefreshedInv'
<1>0. clock \in Nat /\ LoopsTyped /\ \A l \in Loops : loop[l].step \in -1 .. 7
  BY TypeFields
<1>1. CASE UNCHANGED vars
  BY <1>1 DEF vars, RefreshedInv, Awake
<1>2. CASE Outside
  <2>0. \A l \in Loops : loop'[l] = loop[l] \/ ~ (loop'[l].step >= 1)
    BY <1>2, OutsideLoops, AsleepTyped
  <2>1. CASE Restart
    <3>1. \A l \in Loops : ~ (loop'[l].step >= 1)
      BY <2>1, AsleepTyped DEF Restart
    <3> QED BY <3>1 DEF RefreshedInv, Awake
  <2>2. CASE ~ Restart
    <3>1. mem' = mem
      BY <1>2, <2>2 DEF Outside, Start, Stop, Tick, Finish
    <3> QED BY <2>0, <3>1 DEF RefreshedInv, Awake
  <2> QED BY <2>1, <2>2
<1>3. ASSUME NEW l \in Loops, Thinks(l)
      PROVE  RefreshedInv'
  <2>1. mem' = mem /\ \A k \in Loops : k # l => ~ (loop'[k].step >= 1) /\ loop'[k].phase = "check"
    BY <1>0, <1>3, ThinksIs, Alone
  <2>2. loop'[l].step >= 1 => \/ loop'[l].step = 1 /\ loop'[l].phase = "check"
                              \/ mem.weeklyId = NoCommand
                              \/ loop[l].step \in 2..7
    BY <1>0, <1>3, PastRefresh
  <2> QED BY <2>1, <2>2 DEF RefreshedInv, Awake
<1>4. ASSUME NEW l \in Loops, Works(l)
      PROVE  RefreshedInv'
  <2>0. Awake(l) /\ \A k \in Loops : k # l => ~ (loop'[k].step >= 1)
    BY <1>4, WorksIs, Alone DEF Awake
  <2>1. CASE Refresh(l)
    <3>1. mem'.weeklyStatus = "WAITING_FOR_MARKET" => mem'.weeklyId = NoCommand
      BY <2>1, RefreshIs
    <3> QED BY <2>0, <3>1 DEF RefreshedInv
  <2>2. CASE WeeklyCall(l)
    <3>1. mem'.weeklyStatus = "ACTIVE"
      BY <2>2, WeeklyCallIs
    <3> QED BY <3>1 DEF RefreshedInv
  <2>3. CASE /\ loop[l].phase # "check" /\ mem'.weeklyId = mem.weeklyId
             /\ mem'.weeklyStatus \in {mem.weeklyStatus, "FAILED"}
    BY <2>0, <2>3 DEF RefreshedInv
  <2> QED BY <1>4, <2>1, <2>2, <2>3, WorksWeekly
<1> QED BY <1>1, <1>2, <1>3, <1>4, StepIs

\* A weekly command is queued when none is followed.
LEMMA QueuedAlone ==
  ASSUME TypeInv, DecidedInv, RefreshedInv, NEW l \in Loops, WeeklyCall(l)
  PROVE  mem.weeklyId = NoCommand /\ WeeklyDue(loop[l].now)
<1>1. loop[l].step \in 1..7 /\ Parts[loop[l].step] = "weekly" /\ loop[l].phase = "call"
  BY AtStep DEF WeeklyCall
<1>2. WeeklyDue(loop[l].now)
  BY <1>1 DEF DecidedInv, Periodic
<1>3. Awake(l)
  BY <1>1 DEF Awake
<1> QED BY <1>1, <1>2, <1>3 DEF WeeklyDue, ScheduledWeeklyDue, WaitingRetryDue, RefreshedInv

LEMMA ActiveFinite ==
  ASSUME TypeInv
  PROVE  Active \subseteq 1 .. Len(commands) /\ IsFiniteSet(Active) /\ NoCommand \notin Active
<1>1. Active \subseteq 1 .. Len(commands) /\ Len(commands) \in Nat
  BY CommandDays DEF Active
<1>2. IsFiniteSet(1 .. Len(commands))
  BY <1>1, FS_Interval
<1>3. IsFiniteSet(Active)
  BY <1>1, <1>2, FS_Subset
<1>4. NoCommand \notin 1 .. Len(commands)
  BY <1>1 DEF NoCommand
<1> QED BY <1>1, <1>3, <1>4

LEMMA FewerOrphans ==
  ASSUME NEW S, NEW T, IsFiniteSet(T), S \subseteq T, NEW n \in Nat, Cardinality(T) <= n
  PROVE  Cardinality(S) <= n
BY FS_Subset, FS_CardinalityType

LEMMA OrphanNext ==
  ASSUME TypeInv, DecidedInv, RefreshedInv, OrphanInv, [Next]_vars
  PROVE  OrphanInv'
<1> DEFINE orphans == Active \ {mem.weeklyId}
<1>0. /\ clock \in Nat /\ LoopsTyped /\ crashes \in Nat
      /\ IsFiniteSet(Active) /\ NoCommand \notin Active /\ Active \subseteq 1 .. Len(commands)
      /\ IsFiniteSet(orphans) /\ Cardinality(orphans) <= crashes /\ Cardinality(orphans) \in Nat
  BY TypeFields, ActiveFinite, FS_RemoveElement, FS_CardinalityType, FS_Subset DEF OrphanInv
<1>1. ASSUME crashes' = crashes, Active' \ {mem'.weeklyId} \subseteq orphans
      PROVE  OrphanInv'
  BY <1>0, <1>1, FewerOrphans DEF OrphanInv
<1>2. ASSUME crashes' = crashes, UNCHANGED <<commands, mem>>
      PROVE  OrphanInv'
  BY <1>1, <1>2 DEF Active
<1>3. CASE UNCHANGED vars
  BY <1>2, <1>3 DEF vars, faultVars
<1>4. CASE Outside
  <2>1. CASE Start \/ Stop \/ Tick
    BY <1>2, <2>1 DEF Start, Stop, Tick, faultVars
  <2>2. CASE Restart
    <3>1. /\ commands' = commands /\ crashes' = crashes + 1 /\ Active' = Active
      BY <2>2 DEF Restart, Active
    <3>2. Active \subseteq orphans \cup {mem.weeklyId}
      OBVIOUS
    <3>3. /\ IsFiniteSet(orphans \cup {mem.weeklyId})
          /\ Cardinality(orphans \cup {mem.weeklyId}) <= crashes + 1
      <4>1. /\ IsFiniteSet(orphans \cup {mem.weeklyId})
            /\ Cardinality(orphans \cup {mem.weeklyId}) = Cardinality(orphans) + 1
        <5>1. mem.weeklyId \notin orphans
          OBVIOUS
        <5> HIDE DEF orphans
        <5> QED BY <1>0, <5>1, FS_AddElement
      <4> HIDE DEF orphans
      <4> QED BY <1>0, <4>1
    <3>4. Active' \ {mem'.weeklyId} \subseteq orphans \cup {mem.weeklyId}
      BY <3>1, <3>2
    <3>5. crashes + 1 \in Nat
      BY <1>0
    <3> QED BY <3>1, <3>3, <3>4, <3>5, FewerOrphans DEF OrphanInv
  <2>3. ASSUME NEW i \in DOMAIN commands, NEW outcome \in Outcomes \ {"ACTIVE"}, Finish(i, outcome)
        PROVE  OrphanInv'
    <3>1. /\ DOMAIN commands' = DOMAIN commands /\ commands'[i].outcome = outcome
          /\ \A k \in DOMAIN commands \ {i} : commands'[k] = commands[k]
          /\ mem' = mem /\ crashes' = crashes
      BY <2>3, FinishIs DEF faultVars
    <3>2. Active' \subseteq Active
      BY <3>1 DEF Active
    <3> QED BY <1>1, <3>1, <3>2
  <2> QED BY <1>4, <2>1, <2>2, <2>3 DEF Outside
<1>5. ASSUME NEW l \in Loops, Thinks(l)
      PROVE  OrphanInv'
  BY <1>0, <1>2, <1>5, ThinksIs
<1>6. ASSUME NEW l \in Loops, Works(l)
      PROVE  OrphanInv'
  <2>0. crashes' = crashes
    BY <1>6, WorksIs
  <2>1. CASE Refresh(l)
    <3>1. /\ commands' = commands /\ mem.weeklyId \in DOMAIN commands
          /\ mem'.weeklyId = IF commands[mem.weeklyId].outcome = "ACTIVE"
                               THEN mem.weeklyId ELSE NoCommand
      BY <2>1, RefreshIs
    <3>2. Active' = Active
      BY <3>1 DEF Active
    <3>3. commands[mem.weeklyId].outcome # "ACTIVE" => mem.weeklyId \notin Active
      BY DEF Active
    <3> QED BY <1>1, <2>0, <3>1, <3>2, <3>3
  <2>2. CASE WeeklyCall(l)
    <3>1. mem.weeklyId = NoCommand /\ mem'.weeklyId = Len(commands) + 1
      BY <2>2, QueuedAlone, WeeklyCallIs
    <3>2. Active' \subseteq Active \cup {Len(commands) + 1}
      <4>1. /\ Len(commands) \in Nat /\ DOMAIN commands = 1 .. Len(commands)
            /\ DOMAIN commands' = 1 .. Len(commands) + 1
            /\ \A i \in DOMAIN commands : commands'[i] = commands[i]
        BY <2>2, CommandDays, QueuedIs
      <4> QED BY <4>1 DEF Active
    <3> QED BY <1>0, <1>1, <2>0, <3>1, <3>2
  <2>3. CASE commands' = commands /\ mem'.weeklyId = mem.weeklyId
    <3>1. Active' = Active
      BY <2>3 DEF Active
    <3> QED BY <1>1, <2>0, <2>3, <3>1
  <2> QED BY <1>6, <2>1, <2>2, <2>3, WorksWeekly
<1> QED BY <1>3, <1>4, <1>5, <1>6, StepIs

\* A weekly command that is queued comes after every failed one, by a day.
LEMMA AfterFailures ==
  ASSUME TypeInv, ClockInv, DecidedInv, RefreshedInv, CommandInv, NEW l \in Loops, WeeklyCall(l)
  PROVE  /\ \A i \in DOMAIN commands : commands[i].outcome # "ACTIVE"
         /\ \A i \in DOMAIN commands :
              commands[i].outcome = "FAILED" => commands[i].day < Day(loop[l].now)
<1> DEFINE n == Len(commands)
           today == Day(loop[l].now)
<1>1. mem.weeklyId = NoCommand /\ WeeklyDue(loop[l].now)
  BY QueuedAlone
<1>2. /\ n \in Nat /\ DOMAIN commands = 1 .. n
      /\ \A i \in DOMAIN commands : commands[i].day \in Nat
  BY CommandDays
<1>3. Awake(l) /\ today \in Nat
  <2>1. Works(l) /\ loop[l].now \in Nat
    BY TypeFields DEF Works
  <2> QED BY <2>1, WorksIs, TimeTyped DEF Awake
<1>4. \A i \in DOMAIN commands : commands[i].day <= today
  BY <1>3 DEF ClockInv
<1>5. SUFFICES ASSUME NEW i \in DOMAIN commands
               PROVE  /\ commands[i].outcome # "ACTIVE"
                      /\ commands[i].outcome = "FAILED" => commands[i].day < today
  OBVIOUS
<1>6. commands # <<>> /\ n \in DOMAIN commands
  BY <1>2, <1>5
<1>7. /\ commands[n].outcome # "ACTIVE" /\ mem.weeklyDay = commands[n].day
      /\ mem.weeklyStatus \in {commands[n].outcome, "FAILED"}
  BY <1>1, <1>2, <1>6 DEF CommandInv, Last, NoCommand
<1>8. CASE i = n
  <2>1. ASSUME commands[n].outcome = "FAILED"
        PROVE  commands[n].day # today
    <3>1. mem.weeklyStatus = "FAILED"
      BY <1>7, <2>1
    <3> QED BY <1>1, <1>7, <3>1 DEF WeeklyDue, ScheduledWeeklyDue, WaitingRetryDue
  <2> HIDE DEF n, today
  <2>2. commands[n].day \in Nat /\ commands[n].day <= today
    BY <1>2, <1>4, <1>6
  <2> QED BY <1>3, <1>7, <1>8, <2>1, <2>2
<1>9. CASE i # n
  <2>1. commands[i].outcome # "ACTIVE"
    BY <1>9 DEF CommandInv
  <2>2. ASSUME commands[i].outcome = "FAILED"
        PROVE  commands[i].day < commands[n].day
    <3>1. i < n
      BY <1>2, <1>9
    <3> QED BY <1>6, <2>2, <3>1 DEF CommandInv
  <2>3. commands[i].day \in Nat /\ commands[n].day \in Nat /\ commands[n].day <= today
    BY <1>2, <1>4, <1>6
  <2> HIDE DEF n, today
  <2> QED BY <1>3, <2>1, <2>2, <2>3
<1> QED BY <1>8, <1>9

\* The first three parts of CommandInv say nothing of the loops.
FollowedInv ==
  /\ commands # <<>> =>
       /\ mem.weeklyDay = Last.day
       /\ \/ mem.weeklyId = Len(commands)
          \/ /\ mem.weeklyId = NoCommand
             /\ Last.outcome # "ACTIVE"
             /\ mem.weeklyStatus \in {Last.outcome, "FAILED"}
  /\ \A i \in DOMAIN commands : i # Len(commands) => commands[i].outcome # "ACTIVE"
  /\ \A i, k \in DOMAIN commands :
       i < k /\ commands[i].outcome = "FAILED" => commands[i].day < commands[k].day

CompletingInv ==
  \A l \in Loops :
    loop[l].phase = "write" /\ (\E n \in DOMAIN loop[l].writes : loop[l].writes[n] = "weekly")
      => commands # <<>> /\ Last.outcome = "COMPLETED"

LEMMA CommandParts == CommandInv <=> FollowedInv /\ CompletingInv
BY DEF CommandInv, FollowedInv, CompletingInv

LEMMA CommandInit == Init => CommandInv
<1> SUFFICES ASSUME Init PROVE CommandInv
  OBVIOUS
<1>1. commands = <<>> /\ \A l \in Loops : loop[l].phase # "write"
  BY AsleepTyped DEF Init
<1> QED BY <1>1 DEF CommandInv

LEMMA FollowedNext ==
  ASSUME TypeInv, ClockInv, DecidedInv, RefreshedInv, CommandInv, [Next]_vars,
         crashes' = 0
  PROVE  FollowedInv'
<1> DEFINE n == Len(commands)
<1>0. /\ clock \in Nat /\ LoopsTyped /\ crashes \in Nat /\ FollowedInv
      /\ n \in Nat /\ DOMAIN commands = 1 .. n
      /\ \A i \in DOMAIN commands : commands[i].day \in Nat
      /\ commands # <<>> => n \in DOMAIN commands
      /\ mem.weeklyId \in {NoCommand} \cup DOMAIN commands
  <2>1. /\ clock \in Nat /\ LoopsTyped /\ crashes \in Nat /\ FollowedInv
        /\ n \in Nat /\ DOMAIN commands = 1 .. n
        /\ \A i \in DOMAIN commands : commands[i].day \in Nat
        /\ mem.weeklyId \in {NoCommand} \cup DOMAIN commands
    BY TypeFields, CommandDays, CommandParts
  <2>2. commands # <<>> => n \in DOMAIN commands
    BY TypeFields
  <2> QED BY <2>1, <2>2
<1>1. ASSUME commands' = commands, mem'.weeklyId = mem.weeklyId, mem'.weeklyDay = mem.weeklyDay,
             mem'.weeklyStatus \in {mem.weeklyStatus, "FAILED"}
      PROVE  FollowedInv'
  BY <1>0, <1>1 DEF FollowedInv, Last
<1>2. CASE UNCHANGED vars
  BY <1>1, <1>2 DEF vars
<1>3. CASE Outside
  <2>1. CASE Start \/ Stop \/ Tick
    BY <1>1, <2>1 DEF Start, Stop, Tick
  <2>2. CASE Restart
    BY <1>0, <2>2 DEF Restart
  <2>3. ASSUME NEW i \in DOMAIN commands, NEW outcome \in Outcomes \ {"ACTIVE"}, Finish(i, outcome)
        PROVE  FollowedInv'
    <3>1. /\ DOMAIN commands' = DOMAIN commands /\ Len(commands') = n
          /\ commands[i].outcome = "ACTIVE"
          /\ commands'[i].outcome = outcome
          /\ \A k \in DOMAIN commands : commands'[k].day = commands[k].day
          /\ \A k \in DOMAIN commands \ {i} : commands'[k] = commands[k]
          /\ mem' = mem
      BY <2>3, FinishIs
    <3>2. i = n
      BY <1>0, <3>1 DEF FollowedInv
    <3>3. commands # <<>> /\ commands' # <<>> /\ mem.weeklyId = n /\ mem.weeklyDay = commands[n].day
      <4>1. commands # <<>> /\ commands' # <<>>
        BY <2>3, <3>1
      <4> QED BY <1>0, <3>1, <3>2, <4>1 DEF FollowedInv, Last
    <3>4. mem'.weeklyDay = commands'[n].day /\ mem'.weeklyId = Len(commands')
      BY <1>0, <3>1, <3>3
    <3>5. \A k \in DOMAIN commands' : k # Len(commands') => commands'[k].outcome # "ACTIVE"
      BY <1>0, <3>1, <3>2 DEF FollowedInv
    <3>6. \A j, k \in DOMAIN commands' :
            j < k /\ commands'[j].outcome = "FAILED" => commands'[j].day < commands'[k].day
      <4> SUFFICES ASSUME NEW j \in DOMAIN commands, NEW k \in DOMAIN commands,
                          j < k, commands'[j].outcome = "FAILED"
                   PROVE  commands'[j].day < commands'[k].day
        BY <3>1
      <4>1. j # n
        BY <1>0
      <4>2. commands[j].outcome = "FAILED"
        BY <3>1, <3>2, <4>1
      <4> QED BY <1>0, <3>1, <4>2 DEF FollowedInv
    <3> QED BY <3>1, <3>4, <3>5, <3>6 DEF FollowedInv, Last
  <2> QED BY <1>3, <2>1, <2>2, <2>3 DEF Outside
<1>4. ASSUME NEW l \in Loops, Thinks(l)
      PROVE  FollowedInv'
  BY <1>0, <1>1, <1>4, ThinksIs
<1>5. ASSUME NEW l \in Loops, Works(l)
      PROVE  FollowedInv'
  <2>1. CASE Refresh(l)
    <3>1. /\ commands' = commands /\ mem.weeklyId \in DOMAIN commands
          /\ mem'.weeklyDay = mem.weeklyDay
          /\ mem'.weeklyStatus = commands[mem.weeklyId].outcome
          /\ mem'.weeklyId = IF commands[mem.weeklyId].outcome = "ACTIVE"
                               THEN mem.weeklyId ELSE NoCommand
      BY <2>1, RefreshIs
    <3>2. mem.weeklyId # NoCommand /\ commands # <<>>
      BY <1>0, <3>1 DEF NoCommand
    <3>3. mem.weeklyId = n
      BY <1>0, <3>2 DEF FollowedInv
    <3> QED BY <1>0, <3>1, <3>2, <3>3 DEF FollowedInv, Last
  <2>2. CASE WeeklyCall(l)
    <3>1. /\ Len(commands') = n + 1 /\ DOMAIN commands' = 1 .. n + 1
          /\ commands'[n + 1].day = Day(loop[l].now)
          /\ commands'[n + 1].outcome = "ACTIVE"
          /\ \A i \in DOMAIN commands : commands'[i] = commands[i]
          /\ mem'.weeklyId = n + 1 /\ mem'.weeklyDay = Day(loop[l].now)
      BY <2>2, QueuedIs, WeeklyCallIs
    <3>2. /\ \A i \in DOMAIN commands : commands[i].outcome # "ACTIVE"
          /\ \A i \in DOMAIN commands :
               commands[i].outcome = "FAILED" => commands[i].day < Day(loop[l].now)
      BY <2>2, AfterFailures
    <3> HIDE DEF n
    <3>3. \A i \in DOMAIN commands' : i # n + 1 => i \in DOMAIN commands
      BY <1>0, <3>1
    <3>4. \A i \in DOMAIN commands' : i # Len(commands') => commands'[i].outcome # "ACTIVE"
      BY <3>1, <3>2, <3>3
    <3>5. ASSUME NEW i \in DOMAIN commands', NEW k \in DOMAIN commands', i < k,
                 commands'[i].outcome = "FAILED"
          PROVE  commands'[i].day < commands'[k].day
      <4>1. i \in DOMAIN commands
        BY <1>0, <3>1, <3>5
      <4>2. commands[i].outcome = "FAILED" /\ commands'[i].day = commands[i].day
        BY <3>1, <3>5, <4>1
      <4>3. CASE k = n + 1
        BY <3>1, <3>2, <4>1, <4>2, <4>3
      <4>4. CASE k # n + 1
        <5>1. k \in DOMAIN commands /\ commands'[k].day = commands[k].day
          BY <3>1, <3>3, <4>4
        <5>2. commands[i].day < commands[k].day
          BY <1>0, <3>5, <4>1, <4>2, <5>1 DEF FollowedInv
        <5> QED BY <4>2, <5>1, <5>2
      <4> QED BY <4>3, <4>4
    <3>6. mem'.weeklyDay = Last'.day /\ mem'.weeklyId = Len(commands')
      BY <3>1 DEF Last
    <3> QED BY <3>4, <3>5, <3>6 DEF FollowedInv
  <2>3. CASE /\ commands' = commands
             /\ mem'.weeklyId = mem.weeklyId /\ mem'.weeklyDay = mem.weeklyDay
             /\ mem'.weeklyStatus \in {mem.weeklyStatus, "FAILED"}
    BY <1>1, <2>3
  <2> QED BY <1>5, <2>1, <2>2, <2>3, WorksWeekly
<1> QED BY <1>2, <1>3, <1>4, <1>5, StepIs

LEMMA CompletingNext ==
  ASSUME TypeInv, LoneLoop, CommandInv, [Next]_vars
  PROVE  CompletingInv'
<1>0. clock \in Nat /\ LoopsTyped /\ FollowedInv /\ CompletingInv
  BY TypeFields, CommandParts
<1>1. CASE UNCHANGED vars
  BY <1>0, <1>1 DEF vars, CompletingInv, Last
<1>2. CASE Outside
  <2>0. \A l \in Loops : loop'[l] = loop[l] \/ loop'[l].phase # "write"
    BY <1>2, OutsideLoops, AsleepTyped
  <2>1. CASE Start \/ Stop \/ Tick \/ Restart
    <3>1. commands' = commands
      BY <2>1 DEF Start, Stop, Tick, Restart
    <3> QED BY <1>0, <2>0, <3>1 DEF CompletingInv, Last
  <2>2. ASSUME NEW i \in DOMAIN commands, NEW outcome \in Outcomes \ {"ACTIVE"}, Finish(i, outcome)
        PROVE  CompletingInv'
    <3>1. /\ DOMAIN commands' = DOMAIN commands /\ Len(commands') = Len(commands)
          /\ commands[i].outcome = "ACTIVE"
          /\ \A k \in DOMAIN commands \ {i} : commands'[k] = commands[k]
      BY <2>2, FinishIs
    <3>2. commands' # <<>>
      BY <2>2, <3>1
    <3>3. Len(commands) \in DOMAIN commands
      BY <2>2, CommandDays
    <3>4. Last.outcome = "COMPLETED" => Last' = Last
      BY <3>1, <3>3 DEF Last
    <3> QED BY <1>0, <2>0, <3>2, <3>4 DEF CompletingInv
  <2> QED BY <1>2, <2>1, <2>2 DEF Outside
<1>3. ASSUME NEW l \in Loops, Thinks(l)
      PROVE  CompletingInv'
  <2>1. loop'[l].phase # "write" /\ \A k \in Loops : k # l => loop'[k].phase = "check"
    BY <1>0, <1>3, ThinksIs, Alone
  <2> QED BY <2>1 DEF CompletingInv
<1>4. ASSUME NEW l \in Loops, Works(l)
      PROVE  CompletingInv'
  <2>0. \A k \in Loops : k # l => loop'[k].phase = "check"
    BY <1>4, Alone
  <2>1. CASE Refresh(l)
    <3>1. /\ commands' = commands /\ mem.weeklyId \in DOMAIN commands
          /\ commands[mem.weeklyId].outcome = "COMPLETED"
             \/ \A n \in DOMAIN loop'[l].writes : loop'[l].writes[n] # "weekly"
      BY <2>1, RefreshIs
    <3>2. mem.weeklyId # NoCommand /\ commands # <<>>
      BY <3>1, CommandDays DEF NoCommand
    <3>3. mem.weeklyId = Len(commands)
      BY <1>0, <3>2 DEF FollowedInv
    <3> QED BY <2>0, <3>1, <3>2, <3>3 DEF CompletingInv, Last
  <2>2. CASE WeeklyCall(l)
    <3>1. \A n \in DOMAIN loop'[l].writes : loop'[l].writes[n] # "weekly"
      BY <2>2, WeeklyCallIs
    <3> QED BY <2>0, <3>1 DEF CompletingInv
  <2>3. CASE commands' = commands
             /\ \/ loop'[l].phase # "write"
                \/ \A n \in DOMAIN loop'[l].writes : loop'[l].writes[n] # "weekly"
                \/ /\ loop[l].phase = "write"
                   /\ \A n \in DOMAIN loop'[l].writes :
                        \E m \in DOMAIN loop[l].writes : loop'[l].writes[n] = loop[l].writes[m]
    BY <1>0, <2>0, <2>3 DEF CompletingInv, Last
  <2> QED BY <1>4, <2>1, <2>2, <2>3, WorksWeekly
<1> QED BY <1>1, <1>2, <1>3, <1>4, StepIs

LEMMA CrashesGrow ==
  ASSUME TypeInv, [Next]_vars
  PROVE  /\ crashes \in Nat /\ (crashes' = crashes \/ crashes' = crashes + 1)
         /\ revived => revived'
<1>0. clock \in Nat /\ LoopsTyped /\ crashes \in Nat
  BY TypeFields
<1>1. CASE Outside
  <2>1. CASE Start
    <3>1. crashes' = crashes /\ revived' = (revived \/ \E k \in Loops : loop[k] # Gone)
      BY <2>1 DEF Start, faultVars
    <3> QED BY <1>0, <3>1
  <2>2. CASE Outside /\ ~ Start
    BY <1>0, <2>2 DEF Outside, Stop, Tick, Restart, Finish, faultVars, historyVars
  <2> QED BY <1>1, <2>1, <2>2
<1>2. CASE \E l \in Loops : Thinks(l) \/ Works(l)
  BY <1>0, <1>2, ThinksIs, WorksIs DEF historyVars
<1> QED BY <1>0, <1>1, <1>2, StepIs DEF vars, faultVars, historyVars

\* Only a start() that revives a thread puts one loop beside another.
LEMMA LoneNext ==
  ASSUME TypeInv, LoneLoop, ~ revived', [Next]_vars
  PROVE  LoneLoop'
<1>0. loop \in [Loops -> LoopRecords] /\ Asleep # Gone /\ Gone' = Gone
  BY AsleepTyped DEF TypeInv, LoopsTyped, Gone, Asleep
<1>1. CASE UNCHANGED vars
  BY <1>0, <1>1 DEF vars, LoneLoop
<1>2. CASE Start
  <2>1. PICK l \in Loops : loop' = [loop EXCEPT ![l] = Asleep]
    BY <1>2 DEF Start
  <2>2. \A k \in Loops : loop[k] = Gone
    BY <1>2 DEF Start
  <2> QED BY <1>0, <2>1, <2>2 DEF LoneLoop
<1>3. CASE Stop \/ Tick \/ Restart
         \/ \E i \in DOMAIN commands, outcome \in Outcomes \ {"ACTIVE"} : Finish(i, outcome)
  <2>1. \A l \in Loops : loop'[l] \in {loop[l], Gone}
    BY <1>0, <1>3 DEF Stop, Tick, Restart, Finish
  <2> QED BY <1>0, <2>1 DEF LoneLoop
<1>4. ASSUME NEW l \in Loops, Thinks(l) \/ Works(l)
      PROVE  LoneLoop'
  <2>1. \A k \in Loops : k # l => loop[k] = Gone /\ loop'[k] = Gone
    BY <1>4, Alive DEF LoneLoop, OnlyLoop
  <2> QED BY <1>0, <2>1 DEF LoneLoop
<1> QED BY <1>1, <1>2, <1>3, <1>4, StepIs DEF Outside

\* Only the transaction that follows a completion records the week.
LEMMA ConsumedNext ==
  ASSUME TypeInv, ConsumedByCompletion, crashes = 0 => CommandInv, [Next]_vars
  PROVE  ConsumedByCompletion'
<1>0. clock \in Nat /\ LoopsTyped /\ crashes \in Nat
  BY TypeFields
<1> SUFFICES ASSUME crashes' = 0, ~ revived'
             PROVE  ConsumedByCompletion'
  BY DEF ConsumedByCompletion
<1>1. crashes = 0 /\ ~ revived /\ CommandInv
  BY CrashesGrow
<1>2. ASSUME NEW i \in DOMAIN commands, commands[i].outcome = "COMPLETED"
      PROVE  /\ i \in DOMAIN commands' /\ commands'[i].outcome = "COMPLETED"
             /\ commands'[i].day = commands[i].day
  <2>1. CASE commands' = commands
    BY <1>2, <2>1
  <2>2. ASSUME NEW k \in DOMAIN commands, NEW outcome \in Outcomes \ {"ACTIVE"}, Finish(k, outcome)
        PROVE  /\ i \in DOMAIN commands' /\ commands'[i].outcome = "COMPLETED"
               /\ commands'[i].day = commands[i].day
    <3>1. /\ DOMAIN commands' = DOMAIN commands /\ commands[k].outcome = "ACTIVE"
          /\ \A m \in DOMAIN commands \ {k} : commands'[m] = commands[m]
      BY <2>2, FinishIs
    <3> QED BY <1>2, <3>1
  <2>3. ASSUME NEW l \in Loops, WeeklyCall(l)
        PROVE  /\ i \in DOMAIN commands' /\ commands'[i].outcome = "COMPLETED"
               /\ commands'[i].day = commands[i].day
    <3>1. /\ Len(commands) \in Nat /\ DOMAIN commands = 1 .. Len(commands)
          /\ DOMAIN commands' = 1 .. Len(commands) + 1
          /\ commands'[i] = commands[i]
      BY <2>3, QueuedIs, CommandDays
    <3> QED BY <1>2, <3>1
  <2>4. ASSUME NEW l \in Loops, Thinks(l) \/ (Works(l) /\ ~ WeeklyCall(l))
        PROVE  commands' = commands
    BY <1>0, <2>4, ThinksIs, WorksWeekly, RefreshIs
  <2>5. CASE Start \/ Stop \/ Tick \/ Restart \/ UNCHANGED vars
    BY <2>1, <2>5 DEF Start, Stop, Tick, Restart, vars
  <2> QED BY <2>1, <2>2, <2>3, <2>4, <2>5, StepIs DEF Outside
<1>3. ASSUME \A r \in {mem', db'} :
               \/ r.lastRun["weekly"] \in {mem.lastRun["weekly"], db.lastRun["weekly"]}
               \/ commands # <<>> /\ Last.outcome = "COMPLETED" /\ r.lastRun["weekly"] = Last.day
      PROVE  ConsumedByCompletion'
  <2> SUFFICES ASSUME NEW r \in {mem', db'}, r.lastRun["weekly"] # Never
               PROVE  \E i \in DOMAIN commands' :
                        commands'[i].day = r.lastRun["weekly"] /\ commands'[i].outcome = "COMPLETED"
    BY DEF ConsumedByCompletion
  <2>1. CASE r.lastRun["weekly"] \in {mem.lastRun["weekly"], db.lastRun["weekly"]}
    <3>1. PICK i \in DOMAIN commands :
            commands[i].day = r.lastRun["weekly"] /\ commands[i].outcome = "COMPLETED"
      BY <1>1, <2>1 DEF ConsumedByCompletion
    <3> QED BY <1>2, <3>1
  <2>2. CASE commands # <<>> /\ Last.outcome = "COMPLETED" /\ r.lastRun["weekly"] = Last.day
    <3>1. Len(commands) \in DOMAIN commands
      BY <2>2, TypeFields
    <3> QED BY <1>2, <2>2, <3>1 DEF Last
  <2> QED BY <1>3, <2>1, <2>2
<1>4. CASE UNCHANGED vars
  BY <1>3, <1>4 DEF vars
<1>5. CASE Outside
  <2>1. db' = db /\ mem' \in {mem, db}
    BY <1>5 DEF Outside, Start, Stop, Tick, Restart, Finish
  <2> QED BY <1>3, <2>1
<1>6. ASSUME NEW l \in Loops, Thinks(l)
      PROVE  ConsumedByCompletion'
  BY <1>0, <1>3, <1>6, ThinksIs
<1>7. ASSUME NEW l \in Loops, Works(l)
      PROVE  ConsumedByCompletion'
  <2>1. \/ mem'.lastRun["weekly"] = mem.lastRun["weekly"]
        \/ /\ mem'.lastRun["weekly"] = mem.weeklyDay
           /\ loop[l].phase = "write"
           /\ \E n \in DOMAIN loop[l].writes : loop[l].writes[n] = "weekly"
    BY <1>7, WorksWeekly, RefreshIs, WeeklyCallIs
  <2>2. \/ mem'.lastRun["weekly"] = mem.lastRun["weekly"]
        \/ commands # <<>> /\ Last.outcome = "COMPLETED" /\ mem'.lastRun["weekly"] = Last.day
    BY <1>1, <2>1 DEF CommandInv
  <2>3. db' = db \/ db'.lastRun["weekly"] \in {db.lastRun["weekly"], mem'.lastRun["weekly"]}
    BY <1>7, WorksIs, WriteIs DEF Jobs
  <2> QED BY <1>3, <2>2, <2>3
<1> QED BY <1>4, <1>5, <1>6, <1>7, StepIs

LEMMA OneLoopInit == Init => OneLoopInv
<1> SUFFICES ASSUME Init PROVE OneLoopInv
  OBVIOUS
<1>1. /\ crashes = 0 /\ commands = <<>> /\ mem = NothingRan /\ db = NothingRan
      /\ \A l \in Loops : ~ (loop[l].step >= 1) /\ loop[l].phase = "check"
  BY AsleepTyped DEF Init
<1>2. DecidedInv /\ RefreshedInv
  BY <1>1 DEF DecidedInv, RefreshedInv, Awake
<1>3. OrphanInv
  <2>1. Active \ {mem.weeklyId} = {}
    BY <1>1 DEF Active
  <2> QED BY <1>1, <2>1, FS_EmptySet DEF OrphanInv
<1>4. ConsumedByCompletion
  BY <1>1, NothingTyped DEF ConsumedByCompletion, Jobs
<1> QED BY <1>2, <1>3, <1>4, ClockInit, CommandInit DEF OneLoopInv

\* What one loop keeps, through stops, starts, errors and restarts.
LEMMA OneLoopNext ==
  ASSUME TypeInv, LoneLoop, OneLoopInv, [Next]_vars
  PROVE  OneLoopInv'
<1>1. ClockInv' /\ DecidedInv' /\ RefreshedInv' /\ OrphanInv'
  BY ClockNext, DecidedNext, RefreshedNext, OrphanNext DEF OneLoopInv
<1>2. ASSUME crashes' = 0
      PROVE  CommandInv'
  <2>1. crashes = 0
    BY <1>2, CrashesGrow
  <2>2. CommandInv
    BY <2>1 DEF OneLoopInv
  <2>3. FollowedInv' /\ CompletingInv'
    BY <1>2, <2>2, FollowedNext, CompletingNext DEF OneLoopInv
  <2> QED BY <2>3 DEF CommandInv, FollowedInv, CompletingInv
<1>3. ConsumedByCompletion'
  BY ConsumedNext DEF OneLoopInv
<1> QED BY <1>1, <1>2, <1>3 DEF OneLoopInv

UnrevivedInv == ~ revived => LoneLoop /\ OneLoopInv

LEMMA UnrevivedAlways == Spec => [](TypeInv /\ UnrevivedInv)
<1>1. Init => UnrevivedInv
  BY OneLoopInit DEF Init, UnrevivedInv, LoneLoop
<1>2. TypeInv /\ UnrevivedInv /\ [Next]_vars => UnrevivedInv'
  <2> SUFFICES ASSUME TypeInv, UnrevivedInv, [Next]_vars, ~ revived'
               PROVE  LoneLoop' /\ OneLoopInv'
    BY DEF UnrevivedInv
  <2>1. LoneLoop /\ OneLoopInv
    BY CrashesGrow DEF UnrevivedInv
  <2> QED BY <2>1, LoneNext, OneLoopNext
<1> QED BY TypeAlways, <1>1, <1>2, PTL DEF Spec

\* Until start() finds a thread alive (scheduler.py:105-110), weekly researches
\* do not run next to one another: a restart between the INSERT and the record
\* of the command is the only way to one more, however long the program runs and
\* whatever raises.
THEOREM OneWeeklyResearch == Spec => []OneWeeklyAtATime
<1>1. ASSUME TypeInv, UnrevivedInv
      PROVE  OneWeeklyAtATime
  <2> SUFFICES ASSUME OneLoopInv
               PROVE  Cardinality(Active) <= 1 + crashes
    BY <1>1 DEF UnrevivedInv, OneWeeklyAtATime
  <2> DEFINE orphans == Active \ {mem.weeklyId}
  <2>1. /\ IsFiniteSet(orphans) /\ Cardinality(orphans) \in Nat
        /\ Cardinality(orphans) <= crashes /\ crashes \in Nat
    BY <1>1, ActiveFinite, TypeFields, FS_Subset, FS_CardinalityType DEF OneLoopInv, OrphanInv
  <2>2. Active \subseteq orphans \cup {mem.weeklyId} /\ mem.weeklyId \notin orphans
    OBVIOUS
  <2> HIDE DEF orphans
  <2>3. /\ IsFiniteSet(orphans \cup {mem.weeklyId})
        /\ Cardinality(orphans \cup {mem.weeklyId}) = Cardinality(orphans) + 1
    BY <2>1, <2>2, FS_AddElement
  <2>4. 1 + crashes \in Nat /\ Cardinality(orphans \cup {mem.weeklyId}) <= 1 + crashes
    BY <2>1, <2>3
  <2> QED BY <2>2, <2>3, <2>4, FewerOrphans
<1> QED BY <1>1, UnrevivedAlways, PTL

\* The week is consumed by a research that completed, and by no other outcome.
THEOREM WeekConsumedByCompletion == Spec => []ConsumedByCompletion
<1>1. UnrevivedInv => ConsumedByCompletion
  BY DEF UnrevivedInv, OneLoopInv, ConsumedByCompletion
<1> QED BY <1>1, UnrevivedAlways, PTL

\* The wait of the last research for the market is not forgotten.
THEOREM WaitIsRemembered == Spec => []WaitingIsRemembered
<1>1. UnrevivedInv => WaitingIsRemembered
  BY DEF UnrevivedInv, OneLoopInv, CommandInv, Last, WaitingIsRemembered
<1> QED BY <1>1, UnrevivedAlways, PTL

\* scheduler.py:66, "once per period", for any callbacks and calendar and until
\* a thread is revived: between the decision and the call, and from the call to
\* the next decision, nothing but the record of the job's own period can change
\* what the decision reads.
THEOREM OncePerPeriod == Spec => OncePerLife
<1>1. ASSUME TypeInv, UnrevivedInv, ~ revived, NEW l \in Loops, NEW j \in Periodic, Call(l, j)
      PROVE  Period(j, loop[l].now) \notin calledHere[j]
  <2>0. OneLoopInv
    BY <1>1 DEF UnrevivedInv
  <2>1. loop[l].step \in 1..7 /\ Parts[loop[l].step] = j /\ loop[l].phase = "call"
    BY <1>1, AtStep DEF Call
  <2>2. Due(j, loop[l].now)
    BY <2>0, <2>1 DEF OneLoopInv, DecidedInv, Periodic
  <2>3. /\ mem.lastRun[j] <= Period(j, loop[l].now)
        /\ \A p \in calledHere[j] : p <= mem.lastRun[j]
    BY <2>0, <2>1 DEF OneLoopInv, ClockInv, Awake
  <2>4. /\ mem.lastRun[j] \in Int /\ calledHere[j] \subseteq Nat
        /\ Period(j, loop[l].now) \in Nat
    BY <1>1, LastRunTyped, TypeFields, TimeTyped DEF Jobs
  <2> QED BY <2>2, <2>3, <2>4 DEF Due
<1>2. TypeInv /\ UnrevivedInv /\ [Next]_vars =>
        [\A l \in Loops, j \in Periodic :
           ~ revived /\ Call(l, j) => Period(j, loop[l].now) \notin calledHere[j]]_vars
  BY <1>1
<1> QED BY <1>2, UnrevivedAlways, PTL DEF Spec, OncePerLife

\* A research that failed is not queued again on the day it was queued.
THEOREM FailedWeekSitsOut == Spec => FailedSitsOut
<1>1. ASSUME TypeInv, UnrevivedInv, ~ revived, NEW l \in Loops, WeeklyCall(l),
             NEW i \in DOMAIN commands, crashes = 0, commands[i].outcome = "FAILED"
      PROVE  commands[i].day # Day(loop[l].now)
  <2>1. commands[i].day < Day(loop[l].now)
    BY <1>1, AfterFailures DEF UnrevivedInv, OneLoopInv
  <2>2. commands[i].day \in Nat /\ Day(loop[l].now) \in Nat
    BY <1>1, CommandDays, TypeFields, TimeTyped
  <2> QED BY <2>1, <2>2
<1>2. TypeInv /\ UnrevivedInv /\ [Next]_vars =>
        [\A l \in Loops : ~ revived /\ WeeklyCall(l) =>
           \A i \in DOMAIN commands :
             crashes = 0 /\ commands[i].outcome = "FAILED" => commands[i].day # Day(loop[l].now)]_vars
  BY <1>1
<1> QED BY <1>2, UnrevivedAlways, PTL DEF Spec, FailedSitsOut

=============================================================================
