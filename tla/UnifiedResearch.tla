-------------------------- MODULE UnifiedResearch --------------------------
(***************************************************************************)
(* equal_depth_candidates.py of the research skill: every candidate of a   *)
(* saved decision is researched with the same depth, each answer passes    *)
(* the evidence audit (evidence_discipline.py), and all of them are ranked *)
(* together.  A run leaves its events behind; a later run may be given     *)
(* them, or those of a run made before there was an audit, and takes over  *)
(* what they show to be finished.                                          *)
(*                                                                         *)
(* What a saved result says beyond its status and its ranking is left to   *)
(* SelectionResearch, which reads it.                                      *)
(***************************************************************************)
EXTENDS Naturals, Sequences, FiniteSets

CONSTANTS
  Stocks,
  TopCount,          \* length of a ranking (5 in the code)
  CandidateLists,    \* candidates of the saved decisions a run may be given
  OldEvents          \* what the events of runs made before the audit show

IsCandidateList(c) ==
  /\ c \in Seq(Stocks) /\ Len(c) >= TopCount
  /\ \A i, j \in 1..Len(c) : c[i] = c[j] => i = j

ASSUME UnifiedAssumption ==
  /\ TopCount \in Nat \ {0}
  /\ \A c \in CandidateLists : IsCandidateList(c)
  /\ OldEvents \subseteq [Stocks -> {"none", "plain"}]

VARIABLES
  candidates,  \* of the run under way, in order
  stage,       \* "off", "dive", "audit", "ranking", or how the run ended
  index,       \* of the candidate at hand
  deep,        \* deep_results: what the research of each stock went through
  failures,    \* stocks without research
  events,      \* what events.jsonl of this run shows of each stock
  earlier,     \* the events the run was given to resume
  ranking      \* its Top 5

unified == <<candidates, stage, index, deep, failures, events, earlier, ranking>>

\* What became of the research of a stock: "answered" was completed by the
\* model without a question left, "asked" with some, "passed" also passed the
\* audit; "plain" was completed before evidence_assessments existed.
Marks == {"none", "answered", "asked", "passed", "plain"}
NoMarks == [s \in Stocks |-> "none"]

SetOf(list) == {list[i] : i \in 1..Len(list)}
Rankings(set) == {t \in [1..TopCount -> set] : \A i, j \in 1..TopCount : t[i] = t[j] => i = j}
AllRankings == Rankings(Stocks)

Current == candidates[index]

UnifiedInit ==
  /\ candidates = <<>> /\ stage = "off" /\ index = 0 /\ ranking = <<>>
  /\ deep = NoMarks /\ failures = {} /\ events = NoMarks /\ earlier = NoMarks

\* The process is over; its events stay.
UnifiedOver ==
  /\ candidates' = <<>> /\ stage' = "off" /\ index' = 0 /\ ranking' = <<>>
  /\ deep' = NoMarks /\ failures' = {} /\ earlier' = NoMarks

\* load_source and read_event_state: with or without the events of the run
\* before, or of one that is older.
UnifiedStarts ==
  /\ stage = "off"
  /\ \E c \in CandidateLists : candidates' = c
  /\ earlier' \in {NoMarks, events} \cup OldEvents
  /\ events' = NoMarks
  /\ stage' = "dive" /\ index' = 1
  /\ UNCHANGED <<deep, failures, ranking>>

ReusableOnceAnswered(marks) == {s \in Stocks : marks[s] \in {"answered", "passed", "plain"}}

\* A result with evidence_assessments counts only once its audit passed as
\* well; one without them counts at once.
Reusable(marks) == {s \in Stocks : marks[s] \in {"passed", "plain"}}

AfterThis ==
  IF index < Len(candidates)
    THEN stage' = "dive" /\ index' = index + 1
    ELSE /\ stage' = IF failures' = {} THEN "ranking" ELSE "incomplete"
         /\ index' = index

DiveIsReused ==
  /\ stage = "dive" /\ Current \in Reusable(earlier)
  /\ deep' = [deep EXCEPT ![Current] = earlier[Current]]
  /\ failures' = failures
  /\ AfterThis
  /\ UNCHANGED <<candidates, events, earlier, ranking>>

\* There is nothing to take over, or it is malformed.
Researches == stage = "dive" /\ (Current \in Reusable(earlier) => earlier[Current] = "plain")

\* The structured answer was accepted, and the event says what it asks for.
DiveAnswers ==
  /\ Researches
  /\ \E m \in {"answered", "asked"} : events' = [events EXCEPT ![Current] = m]
  /\ stage' = "audit"
  /\ UNCHANGED <<candidates, index, deep, failures, earlier, ranking>>

DiveFails ==
  /\ Researches
  /\ failures' = failures \cup {Current}
  /\ AfterThis
  /\ UNCHANGED <<candidates, deep, events, earlier, ranking>>

\* audited: coverage, confidence and the cited searches were in order.
AuditPasses ==
  /\ stage = "audit" /\ events[Current] = "answered"
  /\ events' = [events EXCEPT ![Current] = "passed"]
  /\ deep' = [deep EXCEPT ![Current] = "passed"]
  /\ failures' = failures
  /\ AfterThis
  /\ UNCHANGED <<candidates, earlier, ranking>>

\* The research names another stock.  Only this run notices it: the audit has
\* passed and its event is written.
AuditPassesMistaken ==
  /\ stage = "audit" /\ events[Current] = "answered"
  /\ events' = [events EXCEPT ![Current] = "passed"]
  /\ failures' = failures \cup {Current}
  /\ AfterThis
  /\ UNCHANGED <<candidates, deep, earlier, ranking>>

AuditRejects ==
  /\ stage = "audit"
  /\ failures' = failures \cup {Current}
  /\ AfterThis
  /\ UNCHANGED <<candidates, deep, events, earlier, ranking>>

\* ResearchPending: questions of the model, or a calculation whose inputs the
\* packet lacks.  The candidates that follow are not researched.
AuditRequests ==
  /\ stage = "audit"
  /\ stage' = "pending"
  /\ UNCHANGED <<candidates, index, deep, failures, events, earlier, ranking>>

RankingCompletes ==
  /\ stage = "ranking"
  /\ ranking' \in Rankings(SetOf(candidates))
  /\ stage' = "complete"
  /\ UNCHANGED <<candidates, index, deep, failures, events, earlier>>

RankingRequests ==
  /\ stage = "ranking"
  /\ stage' = "pending"
  /\ UNCHANGED <<candidates, index, deep, failures, events, earlier, ranking>>

\* Nothing handles another error of the ranking: no result is written.
RankingFails ==
  /\ stage = "ranking"
  /\ UnifiedOver
  /\ UNCHANGED events

UnifiedStep ==
  \/ DiveIsReused \/ DiveAnswers \/ DiveFails
  \/ AuditPasses \/ AuditPassesMistaken \/ AuditRejects \/ AuditRequests
  \/ RankingCompletes \/ RankingRequests

UnifiedTypeOK ==
  /\ candidates \in CandidateLists \cup {<<>>}
  /\ stage \in {"off", "dive", "audit", "ranking", "complete", "incomplete", "pending"}
  /\ index \in 0..Len(candidates)
  /\ deep \in [Stocks -> Marks] /\ events \in [Stocks -> Marks] /\ earlier \in [Stocks -> Marks]
  /\ failures \subseteq Stocks
  /\ ranking \in AllRankings \cup {<<>>}

=============================================================================
