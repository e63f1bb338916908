-------------------------- MODULE SelectionResearch -------------------------
(***************************************************************************)
(* The research skill around its one piece of state, the active selection: *)
(* the stock that the last decided comparison retained.  A comparison of   *)
(* the best of a unified research (UnifiedResearch) with that stock        *)
(* (top_five_deep_research.py), of a named challenger with it              *)
(* (recheck_selection_pair.py), or the handoff of the same work to a       *)
(* session (session_research.py) reads an earlier result.json and writes   *)
(* its own; selection_state.py says what a result retains.                 *)
(*                                                                         *)
(* The scripts are started by hand, one at a time, each with files of the  *)
(* operator's choice; a prepared session may wait meanwhile.  The          *)
(* language, the scores and the confidence of an answer are left out: an   *)
(* answer that fails such a check is one that fails.                       *)
(***************************************************************************)
EXTENDS UnifiedResearch

CONSTANTS
  NoStock,
  Confirmed,    \* stocks the operator may have confirmed to begin with
  RoundLimit,   \* rounds of targeted research, max_rounds (2)
  MaxResults,   \* bound on the results written
  MaxUnified,   \* on the unified researches completed
  MaxUnfinished,\* on the results that are not COMPLETE
  MaxLaterGaps  \* on the gaps a result has that the audit did not see

ASSUME SelectionAssumption ==
  /\ NoStock \notin Stocks /\ Confirmed \subseteq Stocks
  /\ RoundLimit \in Nat /\ MaxResults \in Nat
  /\ MaxUnified \in Nat /\ MaxUnfinished \in Nat /\ MaxLaterGaps \in Nat

Keep == "KEEP_PREVIOUS"
Switch == "SWITCH_TO_NEW_FIRST"

VARIABLES
  job,       \* the comparison under way
  session,   \* the directory of a prepared session
  results    \* the results of all runs, in the order they were written

vars == <<unified, job, session, results>>

\* A saved result.  state: its active_selection.json exists; gaps: stocks that
\* its evidence_assessments leave with a critical retrieval gap; "TORN" is a
\* result.json that was being rewritten when the process ended.  unaudited and
\* given are history: the stocks whose research behind it passed no audit or is
\* missing, and those whose research was given to it from before there was one.
Blank == [kind |-> "initial", status |-> "COMPLETE", ranked |-> <<>>, listed |-> {},
          source |-> 0, previous |-> 0, incoming |-> NoStock, first |-> NoStock,
          action |-> "none", active |-> NoStock, state |-> FALSE, reported |-> FALSE,
          gaps |-> {}, unaudited |-> {}, given |-> {}]

Ended(kind, status) == [Blank EXCEPT !.kind = kind, !.status = status]

\* file: the one that was read of the earlier result.  seen, exposed and open
\* are history, of the audit of the pair: the stocks it saw with a critical
\* gap, those of which no critical gap was bearable, and those that are both.
NoJob == [script |-> "none", phase |-> "none", source |-> 0, previous |-> 0, file |-> "none",
          incoming |-> NoStock, top |-> <<>>, index |-> 0, done |-> {}, failures |-> {},
          ranked |-> <<>>, first |-> NoStock, seen |-> {}, exposed |-> {}, written |-> 0]

NoSession == [phase |-> "none", source |-> 0, previous |-> 0, file |-> "none",
              sourceSeen |-> Blank, previousSeen |-> Blank, top |-> <<>>, incoming |-> NoStock,
              decision |-> Blank, open |-> {}, written |-> 0]

\* The state the operator confirmed to begin with.
Init ==
  /\ UnifiedInit
  /\ job = NoJob /\ session = NoSession
  /\ \E s \in Confirmed : results = <<[Blank EXCEPT !.active = s, !.state = TRUE]>>

Idle == stage = "off" /\ job.script = "none"
Chosen == 1..Len(results)

Room == Len(results) < MaxResults
Unfinished == {"INCOMPLETE", "NEEDS_RESEARCH", "FAILED"}
Write(r) ==
  /\ Room
  /\ r.status \in Unfinished =>
       Cardinality({i \in Chosen : results[i].status \in Unfinished}) < MaxUnfinished
  /\ results' = Append(results, r)

-----------------------------------------------------------------------------
(* The unified research, as a run of its own.                               *)

StartUnified ==
  /\ Idle /\ Room
  /\ Cardinality({i \in Chosen : results[i].listed # {}}) < MaxUnified
  /\ UnifiedStarts
  /\ UNCHANGED <<job, session, results>>

ResearchUnified ==
  /\ UnifiedStep
  /\ UNCHANGED <<job, session, results>>

UnifiedFails ==
  /\ RankingFails
  /\ UNCHANGED <<job, session, results>>

UnifiedWrites ==
  /\ stage \in {"complete", "incomplete", "pending"}
  /\ Write(CASE stage = "complete" ->
                  [Ended("unified", "COMPLETE") EXCEPT
                     !.ranked = ranking, !.listed = SetOf(candidates),
                     !.unaudited = {s \in SetOf(candidates) : deep[s] # "passed"},
                     !.given = {s \in Stocks : earlier[s] = "plain"}]
             [] stage = "incomplete" -> Ended("unified", "INCOMPLETE")
             [] stage = "pending" -> Ended("unified", "NEEDS_RESEARCH"))
  /\ UnifiedOver
  /\ UNCHANGED <<events, job, session>>

-----------------------------------------------------------------------------
(* What a result retains.                                                   *)

\* transition_fields
Outgoing(incoming, first, action) == IF action = Keep THEN incoming ELSE first

Actions(incoming, first) == IF incoming = first THEN {Keep} ELSE {Keep, Switch}

\* The mistake the documentation warns of.
RankedFirst(r) == IF r.first # NoStock THEN r.first ELSE r.active

\* The files of a result that can be read: result.json while it is COMPLETE,
\* and the active_selection.json beside it.
Files(r) == {f \in {"result", "state"} : IF f = "result" THEN r.status = "COMPLETE" ELSE r.state}

\* resolve_active_selection, of either file.  A mere ranking retains nothing; a
\* saved action and a saved selection that disagree are refused.
Resolved(r) ==
  IF /\ Files(r) # {}
     /\ r.action # "none" => Outgoing(r.incoming, r.first, r.action) = r.active
    THEN r.active
    ELSE NoStock

-----------------------------------------------------------------------------
(* top_five_deep_research.py                                                *)

\* extract_initial_result, check_coverage and extract_previous_winner.
TopFiveStarts ==
  /\ Idle /\ Room
  /\ \E s, p \in Chosen : \E f \in Files(results[p]) :
       /\ results[s].status = "COMPLETE" /\ results[s].kind = "unified"
       /\ Resolved(results[p]) # NoStock
       /\ job' = [NoJob EXCEPT !.script = "topfive", !.phase = "dive", !.source = s,
                               !.previous = p, !.file = f, !.incoming = Resolved(results[p]),
                               !.top = results[s].ranked, !.index = 1]
  /\ UNCHANGED <<unified, session, results>>

InTopFive(phase) == job.script = "topfive" /\ job.phase = phase
InPair(phase) == job.script = "pair" /\ job.phase = phase

NextDive(j) == IF j.index < TopCount THEN [j EXCEPT !.index = @ + 1]
                                     ELSE [j EXCEPT !.phase = "dived"]

SupplementCompletes ==
  /\ InTopFive("dive")
  /\ job' = NextDive([job EXCEPT !.done = @ \cup {job.top[job.index]}])
  /\ UNCHANGED <<unified, session, results>>

SupplementFails ==
  /\ InTopFive("dive")
  /\ job' = NextDive([job EXCEPT !.failures = @ \cup {job.top[job.index]}])
  /\ UNCHANGED <<unified, session, results>>

\* The result of a script that stops, with its status.
Stops(status) ==
  /\ Write([Ended(job.script, status) EXCEPT
              !.incoming = IF job.script = "topfive" THEN job.incoming ELSE NoStock])
  /\ job' = NoJob
  /\ UNCHANGED <<unified, session>>

\* ResearchPending of any of its stages.
StageRequests ==
  /\ \/ job.phase \in {"dive", "incumbent", "rescore", "compare"}
     \/ job.phase = "dived" /\ job.failures = {}
  /\ Stops("NEEDS_RESEARCH")

StageFails ==
  /\ \/ job.phase \in {"dived", "incumbent", "rescore", "compare"}
  /\ Stops("FAILED")

EverySupplementDone == job.failures = {}

\* The final ranking covers exactly the saved Top 5.
FinalRankingCompletes ==
  /\ InTopFive("dived") /\ EverySupplementDone
  /\ \E t \in Rankings(SetOf(job.top)) :
       job' = [job EXCEPT !.ranked = t, !.first = t[1],
                          !.phase = IF job.incoming \in job.done THEN "pair" ELSE "incumbent"]
  /\ UNCHANGED <<unified, session, results>>

IncumbentCompletes ==
  /\ InTopFive("incumbent")
  /\ job' = [job EXCEPT !.done = @ \cup {job.incoming}, !.phase = "pair"]
  /\ UNCHANGED <<unified, session, results>>

-----------------------------------------------------------------------------
(* pair_evidence_audit                                                      *)

Legs == {job.first, job.incoming}

\* A retrieval gap of a leg: "critical" if it is marked so or as blocking.
Gaps == {"none", "minor", "critical"}

\* With the assessments the earlier result carries.
Recorded(now, old) == [s \in DOMAIN now |-> IF s \in old THEN "critical" ELSE now[s]]

\* One leg lacks what is known of the other; a variable that neither could
\* retrieve is no asymmetry.
Asymmetries(gap, verified) ==
  {x \in Legs : gap[x] = "critical" /\ \E y \in Legs \ {x} : gap[y] = "none" /\ y \in verified}

\* While a round remains, a stock of the pair may lack nothing critical that is
\* known of the other one.
Exposed(pair, gap, verified, rounds) ==
  {x \in pair : rounds < RoundLimit /\ \E y \in pair \ {x} : gap[y] = "none" /\ y \in verified}

\* The assessments of this run, what its packet verifies, and the rounds the
\* packet says were used.
PairEvidence == [now : [Legs -> Gaps], verified : SUBSET Legs, rounds : 0..RoundLimit]

ForgottenGaps == {}

\* evidence_assessments of the file the script was given; active_selection.json
\* has none.
OldGaps == IF job.file = "result" THEN results[job.previous].gaps ELSE {}

\* What an audit may let pass.
PassedAudits ==
  {[seen |-> {s \in Legs : p.now[s] = "critical"},
    exposed |-> Exposed(Legs, Recorded(p.now, OldGaps), p.verified, p.rounds)] :
     p \in {q \in PairEvidence :
              Asymmetries(Recorded(q.now, OldGaps), q.verified) = {} \/ q.rounds = RoundLimit}}

PairPassesAudit ==
  /\ job.phase = "pair"
  /\ \E p \in PassedAudits :
       job' = [job EXCEPT !.phase = "compare", !.seen = p.seen, !.exposed = p.exposed]
  /\ UNCHANGED <<unified, session, results>>

PairNeedsResearch ==
  /\ job.phase = "pair"
  /\ \E p \in PairEvidence :
       Asymmetries(Recorded(p.now, OldGaps), p.verified) # {} /\ p.rounds < RoundLimit
  /\ Stops("NEEDS_RESEARCH")

-----------------------------------------------------------------------------
(* The comparison, and what is written of it.                               *)

\* Its evidence_assessments are those of all its stages, this one included: the
\* gaps of any stock of the run.
LaterGaps == {g \in SUBSET (SetOf(job.top) \cup Legs) : Cardinality(g) <= MaxLaterGaps}

Decided(action, more) ==
  [Ended(job.script, "COMPLETE") EXCEPT
     !.ranked = job.ranked, !.source = job.source, !.previous = job.previous,
     !.incoming = job.incoming, !.first = job.first, !.action = action,
     !.active = Outgoing(job.incoming, job.first, action), !.gaps = job.seen \cup more,
     !.unaudited = results[job.source].unaudited \cup ((SetOf(job.top) \cup Legs) \ job.done),
     !.given = results[job.source].given]

ReportsNext(script) == IF script = "topfive" THEN "report" ELSE "state"

\* The selection is saved before anything else is done with the result.
AfterResult(script) == "state"

\* All three flags are set; result.json is written.
ComparisonCompletes ==
  /\ job.phase = "compare"
  /\ \E action \in Actions(job.incoming, job.first), more \in LaterGaps :
       Write(Decided(action, more))
  /\ job' = [job EXCEPT !.phase = AfterResult(job.script), !.written = Len(results) + 1]
  /\ UNCHANGED <<unified, session>>

\* active_selection.json
StateIsWritten ==
  /\ job.phase = "state"
  /\ results' = [results EXCEPT ![job.written].state = TRUE]
  /\ job' = [job EXCEPT !.phase = IF job.script = "topfive" THEN "report" ELSE "said"]
  /\ UNCHANGED <<unified, session>>

\* The reports were made, or not: result.json is written again.
ResultIsOpened ==
  /\ job.phase = "report"
  /\ results' = [results EXCEPT ![job.written].status = "TORN"]
  /\ job' = [job EXCEPT !.phase = "rewrite"]
  /\ UNCHANGED <<unified, session>>

ResultIsRewritten ==
  /\ job.phase = "rewrite"
  /\ results' = [results EXCEPT ![job.written].status = "COMPLETE", ![job.written].reported = TRUE]
  /\ job' = NoJob
  /\ UNCHANGED <<unified, session>>

-----------------------------------------------------------------------------
(* recheck_selection_pair.py                                                *)

\* extract_pair_context.  The result of another recheck has no ranking.
Challengers(r) == SetOf(r.ranked) \ {Resolved(r)}

PairStarts ==
  /\ Idle /\ Room
  /\ \E s \in Chosen :
       /\ results[s].status = "COMPLETE" /\ Resolved(results[s]) # NoStock
       /\ \E c \in Challengers(results[s]) :
            job' = [NoJob EXCEPT !.script = "pair", !.phase = "rescore", !.source = s,
                                 !.previous = s, !.file = "result",
                                 !.incoming = Resolved(results[s]), !.first = c,
                                 !.done = {Resolved(results[s])}]
  /\ UNCHANGED <<unified, session, results>>

RescoreCompletes ==
  /\ InPair("rescore")
  /\ job' = [job EXCEPT !.phase = "pair", !.done = @ \cup {job.first}]
  /\ UNCHANGED <<unified, session, results>>

\* The decision is printed.
PairEnds ==
  /\ InPair("said")
  /\ job' = NoJob
  /\ UNCHANGED <<unified, session, results>>

\* One handler for everything: active_selection.json or the print failed, and
\* the decided result.json is overwritten with a failure.
PairFailsLate ==
  /\ InPair("state") \/ InPair("said")
  /\ results' = [results EXCEPT ![job.written].status = "FAILED"]
  /\ job' = NoJob
  /\ UNCHANGED <<unified, session>>

-----------------------------------------------------------------------------
(* session_research.py                                                      *)

\* Only a ranking of all candidates will do.
SessionPrepares ==
  /\ session.phase = "none" /\ Room
  /\ \E s, p \in Chosen : \E f \in Files(results[p]) :
       /\ results[s].status = "COMPLETE" /\ results[s].kind = "unified"
       /\ SetOf(results[s].ranked) = results[s].listed
       /\ Resolved(results[p]) # NoStock
       /\ session' = [phase |-> "prepared", source |-> s, previous |-> p, file |-> f,
                      sourceSeen |-> results[s], previousSeen |-> results[p],
                      top |-> results[s].ranked, incoming |-> Resolved(results[p]),
                      decision |-> Blank, open |-> {}, written |-> 0]
  /\ UNCHANGED <<unified, job, results>>

\* The digests of both files; active_selection.json is never written again.
Unchanged == /\ results[session.source] = session.sourceSeen
             /\ session.file = "result" => results[session.previous] = session.previousSeen

\* Unlike the scripts: no earlier gap counts, and a gap that both legs have does.
SessionAsymmetries(gap, verified) ==
  {x \in DOMAIN gap : gap[x] = "critical" /\ \E y \in DOMAIN gap : (y # x \/ DOMAIN gap = {x}) /\ y \in verified}

\* What the audit of finalize lets pass: the gaps no one should bear.
SessionOpens(pair) ==
  {{s \in Exposed(pair, p.gap, p.verified, p.rounds) : p.gap[s] = "critical"} :
     p \in {q \in [gap : [pair -> Gaps], verified : SUBSET pair, rounds : 0..RoundLimit] :
              SessionAsymmetries(q.gap, q.verified) = {} \/ q.rounds = RoundLimit}}

\* finalize: the inputs are what they were and the decision is in order; the
\* two files of its evidence come first.
SessionFinalizes ==
  /\ session.phase = "prepared"
  /\ Unchanged
  /\ \E t \in Rankings(SetOf(session.top)) :
     \E action \in Actions(session.incoming, t[1]), open \in SessionOpens({t[1], session.incoming}) :
       session' = [session EXCEPT !.phase = "evidence", !.open = open,
         !.decision = [Ended("session", "COMPLETE") EXCEPT
           !.ranked = t, !.source = session.source, !.previous = session.previous,
           !.incoming = session.incoming, !.first = t[1], !.action = action,
           !.active = Outgoing(session.incoming, t[1], action),
           !.unaudited = results[session.source].unaudited,
           !.given = results[session.source].given]]
  /\ UNCHANGED <<unified, job, results>>

SessionWritesResult ==
  /\ session.phase = "evidence" /\ Room
  /\ Write(session.decision)
  /\ session' = [session EXCEPT !.phase = "state", !.written = Len(results) + 1]
  /\ UNCHANGED <<unified, job>>

SessionWritesState ==
  /\ session.phase = "state"
  /\ results' = [results EXCEPT ![session.written].state = TRUE]
  /\ session' = NoSession
  /\ UNCHANGED <<unified, job>>

\* The operator gives the directory up.  It is lost as well once finalize
\* ended early: what it wrote is never overwritten.
SessionEnds ==
  /\ session.phase # "none"
  /\ session' = NoSession
  /\ UNCHANGED <<unified, job, results>>

-----------------------------------------------------------------------------
\* The process of a script ends; its files stay as they are.
Crash ==
  /\ ~ Idle
  /\ UnifiedOver
  /\ job' = NoJob
  /\ UNCHANGED <<events, session, results>>

Next ==
  \/ StartUnified \/ ResearchUnified \/ UnifiedFails \/ UnifiedWrites
  \/ TopFiveStarts \/ SupplementCompletes \/ SupplementFails
  \/ FinalRankingCompletes \/ IncumbentCompletes
  \/ StageRequests \/ StageFails
  \/ PairStarts \/ RescoreCompletes \/ PairEnds \/ PairFailsLate
  \/ PairPassesAudit \/ PairNeedsResearch \/ ComparisonCompletes
  \/ StateIsWritten \/ ResultIsOpened \/ ResultIsRewritten
  \/ SessionPrepares \/ SessionFinalizes \/ SessionWritesResult \/ SessionWritesState
  \/ SessionEnds \/ Crash

Spec == Init /\ [][Next]_vars

-----------------------------------------------------------------------------
(* Properties.                                                              *)

Result ==
  [kind : {"initial", "unified", "topfive", "pair", "session"},
   status : {"COMPLETE", "INCOMPLETE", "NEEDS_RESEARCH", "FAILED", "TORN"},
   ranked : AllRankings \cup {<<>>}, listed : SUBSET Stocks,
   source : 0..MaxResults, previous : 0..MaxResults,
   incoming : Stocks \cup {NoStock}, first : Stocks \cup {NoStock},
   action : {"none", Keep, Switch}, active : Stocks \cup {NoStock},
   state : BOOLEAN, reported : BOOLEAN, gaps : SUBSET Stocks,
   unaudited : SUBSET Stocks, given : SUBSET Stocks]

Job ==
  [script : {"none", "topfive", "pair"},
   phase : {"none", "dive", "dived", "incumbent", "rescore", "pair", "compare",
            "state", "said", "report", "rewrite"},
   source : 0..Len(results), previous : 0..Len(results), file : {"none", "result", "state"},
   incoming : Stocks \cup {NoStock}, top : AllRankings \cup {<<>>}, index : 0..TopCount,
   done : SUBSET Stocks, failures : SUBSET Stocks, ranked : AllRankings \cup {<<>>},
   first : Stocks \cup {NoStock}, seen : SUBSET Stocks, exposed : SUBSET Stocks,
   written : 0..Len(results)]

Session ==
  [phase : {"none", "prepared", "evidence", "state"},
   source : 0..Len(results), previous : 0..Len(results), file : {"none", "result", "state"},
   sourceSeen : Result, previousSeen : Result,
   top : AllRankings \cup {<<>>}, incoming : Stocks \cup {NoStock},
   decision : Result, open : SUBSET Stocks, written : 0..Len(results)]

\* The variables have the types their comments give.
TypeOK ==
  /\ UnifiedTypeOK
  /\ results \in Seq(Result) /\ Len(results) \in 1..MaxResults
  /\ job \in Job /\ session \in Session

DecidedResults == {i \in Chosen : results[i].kind # "initial" /\ results[i].active # NoStock}

\* No selection rests on research that was not done: whatever runs were
\* resumed, failed or were left open on the way, each candidate of the unified
\* research behind it passed the evidence audit, and each of the best ones
\* and the incumbent were researched again for the comparison.  The one
\* exception is research that was taken over from the events of a run made
\* before there was an audit (read_event_state).
RestsOnAuditedResearch == \A i \in DecidedResults : results[i].unaudited \subseteq results[i].given

\* The same without the exception: an event without evidence_assessments is
\* not by itself proof of sufficient evidence, and a raw _COMPLETED event no
\* valid result (references/verification-and-sizing.md, SKILL.md).
OnlyAuditedResearch == \A i \in DecidedResults : results[i].unaudited = {}

\* While a round of targeted research remains, no comparison is decided with a
\* critical gap of one stock on which the other one is known: not with one
\* that its own assessments showed, and, by a script, not with one that any
\* stage of the earlier result left in the result.json the script was given
\* (pair_evidence_audit; references/verification-and-sizing.md).  A session
\* looks at its own assessments alone, and active_selection.json has none.
Given == IF job.file = "result" THEN results[job.previous].gaps ELSE {}

DecidedOnEvenEvidence ==
  [][\A i \in DecidedResults' \ DecidedResults :
       IF results'[i].kind = "session"
         THEN session.open = {}
         ELSE job.exposed \cap (job.seen \cup Given) = {}]_vars

\* The incoming selection is what the result before it retained, and not its
\* first in rank; a selection changes only to the stock that was compared with
\* it, and every stock that is selected won such a comparison or was confirmed
\* at the start.
ContinuesTheSelection ==
  \A i \in DecidedResults :
    LET r == results[i] IN
      /\ r.incoming = results[r.previous].active
      /\ r.active \in {r.incoming, r.first}
      /\ \/ r.active = results[1].active
         \/ \E k \in DecidedResults :
              k <= i /\ results[k].first = r.active /\ results[k].active = r.active

\* A decision that a later run could continue can be continued ever after,
\* also when the process ends while its result is written again, and whatever
\* other runs do.  Only a recheck takes one back: when it cannot write its
\* active_selection.json it declares the decided result FAILED.
SelectionSurvives ==
  [][\A i \in Chosen : Resolved(results[i]) # NoStock =>
        \/ Resolved(results'[i]) = Resolved(results[i])
        \/ results[i].kind = "pair" /\ ~ results[i].state /\ results'[i].status = "FAILED"]_vars

=============================================================================
