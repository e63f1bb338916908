--------------------------- MODULE AgentPipeline ---------------------------
(***************************************************************************)
(* LunaSolPipeline and SolResearchCIOAgent of src/src/llm_agent.py: Luna's *)
(* screening (LunaScreening), the fall back to Sol alone, Sol's research   *)
(* with its tools or in the stages of the deep research, and the decision. *)
(* A run that failed in Sol's hands can be resumed from the events it left *)
(* (_persisted_sol_resume_context of src/src/runner.py and                 *)
(* run_sol_decision_resume of src/src/service.py), without Luna and        *)
(* without the ranking tools.                                              *)
(*                                                                         *)
(* The four tools of the ranking evidence are asked together and stand for *)
(* one; a result is recorded whether the tool had data or not.             *)
(***************************************************************************)
EXTENDS LunaScreening, FiniteSets

CONSTANTS
  MaxRuns,          \* bound on runs
  MaxScreenings,    \* bound on those that start with a screening
  MaxToolRounds,    \* of a research without stages
  SolOnlyMax,       \* rows that Sol is given without Luna (25 in the code)
  DeepFrom,         \* candidates that make comparisons binding (5)
  TopCount,         \* candidates researched in depth (3)
  Configs           \* configurations a run may find

None == 0    \* no symbol: cash, or a position that is kept

ASSUME PipelineAssumption ==
  /\ MaxRuns \in Nat /\ MaxScreenings \in Nat /\ MaxToolRounds \in Nat
  /\ SolOnlyMax \in Nat \ {0} /\ TopCount \in Nat \ {0} /\ DeepFrom \in Nat
  /\ TopCount <= DeepFrom
  /\ Configs \subseteq [luna : BOOLEAN, fallback : BOOLEAN, deep : BOOLEAN, force : BOOLEAN]

VARIABLES
  at,          \* where the run under way stands
  config,      \* its configuration
  mode,        \* actual_pipeline
  candidates,  \* that Sol was given
  top,         \* the first ones of Sol's ranking, in order
  step,        \* tool round, or the candidate under research in depth
  bought,      \* the symbol its decision would buy
  run,         \* number of the run, 0 before the first
  runs         \* what each run left behind

sol  == <<config, mode, candidates, top, step, bought>>
vars == <<luna, at, sol, run, runs>>

\* finals: of the event LUNA_FINAL_SCREENING_COMPLETED with the global
\* comparison.  results: how often the ranking tools answered for a symbol, 2
\* for any larger number.  screened, ranked and source are history.
NoRun == [finals |-> {}, researched |-> FALSE, results |-> [s \in Symbols |-> 0],
          failed |-> FALSE, decided |-> FALSE, solError |-> FALSE,
          screened |-> "none", ranked |-> FALSE, source |-> 0]

NoConfig == [luna |-> TRUE, fallback |-> FALSE, deep |-> TRUE, force |-> FALSE]

Init ==
  /\ LunaInit
  /\ at = "idle" /\ config = NoConfig /\ mode = "none" /\ candidates = {}
  /\ top = <<>> /\ step = 0 /\ bought = None
  /\ run = 0 /\ runs = [r \in 1..MaxRuns |-> NoRun]

\* The run is over, or the process with it: nothing of it is left but events.
Over ==
  /\ at' = "idle" /\ config' = NoConfig /\ mode' = "none" /\ candidates' = {}
  /\ top' = <<>> /\ step' = 0 /\ bought' = None

LunaOver ==
  /\ rows' = 0 /\ stage' = "off" /\ todo' = <<>> /\ covered' = {}
  /\ merged' = <<>> /\ groups' = <<>> /\ staged' = <<>> /\ final' = <<>>

\* The end of a run that failed, before Sol or after its decision.
Fails(record) == runs' = [runs EXCEPT ![run] = [record EXCEPT !.failed = TRUE]]

Bump(record, S) ==
  [record EXCEPT !.results = [s \in Symbols |-> IF s \in S THEN Smaller(@[s] + 1, 2) ELSE @[s]]]

-----------------------------------------------------------------------------
(* Screening.                                                               *)

FirstRows == 1 .. Smaller(rows, SolOnlyMax)

\* run and decide, with the snapshot it finds.
Start ==
  /\ at \in {"idle", "restarted"} /\ run < MaxRuns /\ run < MaxScreenings
  /\ run' = run + 1
  /\ \E c \in Configs, n \in Symbols :
       /\ config' = c /\ rows' = n
       /\ IF c.luna
            THEN at' = "screening" /\ mode' = "LUNA_SOL" /\ candidates' = {}
            ELSE at' = "candidates" /\ mode' = "SOL_ONLY" /\ candidates' = 1 .. Smaller(n, SolOnlyMax)
  /\ UNCHANGED <<stage, todo, covered, merged, groups, staged, final, top, step, bought, runs>>

\* The portfolio cannot be read, the snapshot is empty, or a source that was
\* named cannot be resumed.
StartFails ==
  /\ at \in {"idle", "restarted"} /\ run < MaxRuns
  /\ run' = run + 1
  /\ runs' = [runs EXCEPT ![run + 1].failed = TRUE]
  /\ at' = "idle"
  /\ UNCHANGED <<luna, sol>>

Screen ==
  /\ at = "screening"
  /\ LunaNext
  /\ UNCHANGED <<at, sol, run, runs>>

ScreeningCompletes ==
  /\ at = "screening" /\ stage = "done"
  /\ at' = "candidates"
  /\ candidates' = SetOf(final)
  /\ runs' = [runs EXCEPT ![run].screened = "complete",
                          ![run].finals = IF rows < BatchSize THEN {} ELSE SetOf(final)]
  /\ LunaOver
  /\ UNCHANGED <<config, mode, top, step, bought, run>>

FallsBackAlways(why) == config.fallback

\* Only an error that is no ScreeningIncompleteError.
FallsBack(why) == config.fallback /\ why # "incomplete"

ScreeningFallsBack ==
  /\ at = "screening" /\ stage \in {"incomplete", "failed"} /\ FallsBack(stage)
  /\ at' = "candidates" /\ mode' = "SOL_ONLY"
  /\ candidates' = FirstRows
  /\ runs' = [runs EXCEPT ![run].screened = stage]
  /\ LunaOver
  /\ UNCHANGED <<config, top, step, bought, run>>

ScreeningFailsRun ==
  /\ at = "screening" /\ stage \in {"incomplete", "failed"} /\ ~ FallsBack(stage)
  /\ Fails([runs[run] EXCEPT !.screened = stage])
  /\ LunaOver /\ Over
  /\ UNCHANGED run

-----------------------------------------------------------------------------
(* Sol's research.                                                          *)

\* Sol's structured answers: whatever it names, checked by the code.
Comparative == Cardinality(candidates) >= DeepFrom
Deep == config.deep /\ Comparative

Research ==
  /\ at = "candidates"
  /\ LET record == [runs[run] EXCEPT !.researched = TRUE] IN
     IF Deep
       THEN at' = "ranking" /\ runs' = [runs EXCEPT ![run] = Bump(record, candidates)]
       ELSE at' = "tools" /\ runs' = [runs EXCEPT ![run] = record]
  /\ UNCHANGED <<luna, sol, run>>

\* A round of tool calls, of which those of the ranking tools matter.
ToolRound ==
  /\ at = "tools" /\ step <= MaxToolRounds
  /\ \E S \in SUBSET Symbols : runs' = [runs EXCEPT ![run] = Bump(@, S)]
  /\ step' = step + 1
  /\ UNCHANGED <<luna, at, config, mode, candidates, top, bought, run>>

\* validate_comparative_context: rank 1 is a supplied candidate and the symbol
\* of the decision; with fewer candidates nothing is compared.
Compared(named) == named # None /\ Comparative => named \in candidates

\* A decision without a call, within the rounds.  None stands for CASH too.
ToolsDecide ==
  /\ at = "tools" /\ step <= MaxToolRounds
  /\ \E named \in Named \cup {None} : Compared(named) /\ bought' = named
  /\ runs' = [runs EXCEPT ![run].decided = TRUE]
  /\ at' = "decided"
  /\ UNCHANGED <<luna, config, mode, candidates, top, step, run>>

\* Stage A: exactly the best TopCount matter of the ranking, whose symbols are
\* unique and among the candidates.
Rankings ==
  {t \in [1..TopCount -> Named] :
     /\ \A i, j \in 1..TopCount : t[i] = t[j] => i = j
     /\ SetOf(t) \subseteq candidates}

\* It ends with the tools for the first of them, whose ranking tools are asked again.
RankingCompletes ==
  /\ at = "ranking"
  /\ top' \in Rankings
  /\ runs' = [runs EXCEPT ![run] = Bump([@ EXCEPT !.ranked = TRUE], {top'[1]})]
  /\ at' = "dives" /\ step' = 1
  /\ UNCHANGED <<luna, config, mode, candidates, bought, run>>

\* Stage B for one symbol, and the tools for the next.
DiveCompletes ==
  /\ at = "dives"
  /\ \/ /\ step < TopCount
        /\ step' = step + 1
        /\ runs' = [runs EXCEPT ![run] = Bump(@, {top[step + 1]})]
        /\ UNCHANGED at
     \/ /\ step = TopCount
        /\ at' = "committee"      \* by way of the adversarial review, of these symbols
        /\ UNCHANGED <<step, runs>>
  /\ UNCHANGED <<luna, config, mode, candidates, top, bought, run>>

AnySelection(named) == {named, None}

\* What the decision of the committee buys: the symbol it selected, which must
\* be one of the top, unless it sells, reduces or keeps; and the first of the
\* top when it wants cash without expecting a loss and cash is not allowed.
Selection(named) ==
  IF named = None THEN (IF config.force THEN {None, top[1]} ELSE {None})
  ELSE IF named \in SetOf(top) THEN {named, None} ELSE {}

CommitteeDecides ==
  /\ at = "committee"
  /\ \E named \in Named \cup {None} : bought' \in Selection(named)
  /\ runs' = [runs EXCEPT ![run].decided = TRUE]
  /\ at' = "decided"
  /\ UNCHANGED <<luna, config, mode, candidates, top, step, run>>

\* A request or an answer that even its repair did not save, a bad tool call,
\* too many rounds: no TradeIntent.
SolFails ==
  /\ at \in {"tools", "ranking", "dives", "committee"}
  /\ Fails(runs[run])
  /\ at' = "solFailed"
  /\ UNCHANGED <<luna, sol, run>>

\* _fail_closed_llm: the text of the error tells whose it was; one that also
\* names Luna counts as hers.
FailureRecorded ==
  /\ at = "solFailed"
  /\ \E staged_ \in BOOLEAN : runs' = [runs EXCEPT ![run].solError = staged_]
  /\ Over
  /\ UNCHANGED <<luna, run>>

\* The probe before a run fails: its error goes under the id of the last run.
ProbeFails ==
  /\ at = "idle" /\ run \in 1..(MaxRuns - 1)
  /\ runs' = [runs EXCEPT ![run].solError = TRUE]
  /\ UNCHANGED <<luna, at, sol, run>>

\* Risk engine, order and journal follow; the run may still fail there.
RunEnds ==
  /\ at = "decided"
  /\ runs' = runs \/ Fails(runs[run])
  /\ Over
  /\ UNCHANGED <<luna, run>>

-----------------------------------------------------------------------------
(* Resuming.                                                                *)

\* _persisted_sol_resume_context.
Failed(r) ==
  /\ runs[r].failed /\ runs[r].researched /\ ~ runs[r].decided
  /\ runs[r].solError
  /\ runs[r].finals # {}

EvidenceAtLeastOnce(r) == \A s \in runs[r].finals : runs[r].results[s] # 0

\* decide_from_persisted_ranking_evidence: neither missing nor duplicate.
EvidenceOnce(r) == \A s \in runs[r].finals : runs[r].results[s] = 1

Resumable(r) == Failed(r) /\ Cardinality(runs[r].finals) >= DeepFrom /\ EvidenceOnce(r)

Resume ==
  /\ at \in {"idle", "restarted"} /\ run < MaxRuns
  /\ \E c \in Configs, r \in 1..run :
       /\ Resumable(r)
       /\ config' = c
       /\ candidates' = runs[r].finals
       /\ runs' = [runs EXCEPT ![run + 1].researched = TRUE, ![run + 1].source = r]
  /\ mode' = "RESUMED" /\ at' = "ranking"
  /\ run' = run + 1
  /\ UNCHANGED <<luna, top, step, bought>>

\* The process ends in the middle of a run: no event says that it failed.
Crash ==
  /\ at \notin {"idle", "restarted"}
  /\ LunaOver
  /\ at' = "restarted" /\ config' = NoConfig /\ mode' = "none" /\ candidates' = {}
  /\ top' = <<>> /\ step' = 0 /\ bought' = None
  /\ UNCHANGED <<run, runs>>

Next ==
  \/ Start \/ StartFails
  \/ Screen \/ ScreeningCompletes \/ ScreeningFallsBack \/ ScreeningFailsRun
  \/ Research \/ ToolRound \/ ToolsDecide
  \/ RankingCompletes \/ DiveCompletes \/ CommitteeDecides
  \/ SolFails \/ FailureRecorded \/ ProbeFails \/ RunEnds
  \/ Resume \/ Crash

Spec == Init /\ [][Next]_vars

-----------------------------------------------------------------------------

TypeOK ==
  /\ rows \in 0..UniverseSize /\ stage \in Stages
  /\ covered \subseteq Universe
  /\ \A i \in DOMAIN todo : Size(todo[i]) \in 1..BatchSize
  /\ \A s \in {merged, staged, final} : SetOf(s) \subseteq Symbols
  /\ at \in {"idle", "restarted", "screening", "candidates", "tools", "ranking", "dives",
             "committee", "decided", "solFailed"}
  /\ config \in [luna : BOOLEAN, fallback : BOOLEAN, deep : BOOLEAN, force : BOOLEAN]
  /\ mode \in {"none", "LUNA_SOL", "SOL_ONLY", "RESUMED"}
  /\ candidates \subseteq Symbols /\ SetOf(top) \subseteq Named
  /\ step \in 0 .. (MaxToolRounds + TopCount + 1)
  /\ bought \in Named \cup {None} /\ run \in 0..MaxRuns
  /\ \A r \in 1..MaxRuns : r > run => runs[r] = NoRun

\* A screening that left a part of the universe unseen never ends in a
\* decision, not even in one of Sol alone; only another error of Luna's is a
\* reason to go on without her (decide).
NoDecisionOnAGap ==
  \A r \in 1..run : runs[r].decided => runs[r].screened # "incomplete"

\* What a decision buys had been compared with the others: it is one of the
\* candidates when there are enough of them to compare, and after a deep
\* research it is one of those researched in depth.  (With fewer candidates the
\* code does not check the symbol: validate_comparative_context returns.)
BoughtWasCompared ==
  at = "decided" /\ bought # None =>
    /\ Comparative => bought \in candidates
    /\ top # <<>> => /\ SetOf(top) \subseteq candidates
                     /\ bought \in SetOf(top)
                     /\ \A s \in SetOf(top) : runs[run].results[s] > 0

\* A run is resumed in Sol's hands where it failed: with the candidates that
\* the whole comparison gave it, none of whom it had decided about or researched
\* beyond the ranking, so that every piece of the evidence is the one that the
\* ranking was asked with (decide_from_persisted_ranking_evidence: "Resume Deep
\* Research after a failed Stage A request").
ResumedWhereItFailed ==
  \A r \in 1..run : LET q == runs[r].source IN
    q # 0 =>
      /\ q < r /\ runs[q].failed /\ ~ runs[q].decided /\ ~ runs[q].ranked
      /\ runs[q].screened = "complete" /\ runs[q].source = 0

=============================================================================
