----------------------- MODULE SelectionResearchProofs ----------------------
(***************************************************************************)
(* Proofs about SelectionResearch, for any stocks, candidates, rankings and*)
(* runs: every decision rests on research that was audited, or given to it *)
(* from before there was an audit, and on even evidence, it continues the  *)
(* selection before it, and it survives the end of a process.              *)
(*                                                                         *)
(* The invariant says of each place of a run what it has seen to: of the   *)
(* unified research, which candidates have passed (UnifiedInv); of a       *)
(* comparison, from which results it starts and which stocks are researched*)
(* again (JobInv); of a session, what its decision was made from           *)
(* (SessionInv); and of the results what follows (ResultsInv).  The first  *)
(* three refer to results only by what no step takes from one (Kept), so   *)
(* each needs the steps of its own part and Grew.                          *)
(***************************************************************************)
EXTENDS SelectionResearch, TLAPS

-----------------------------------------------------------------------------
(* The inductive invariant.                                                 *)

Researching == {"dive", "audit"}

\* Its research passed the audit, or was given from before there was one.
Sure(s) == deep[s] = "passed" \/ earlier[s] = "plain"

\* Of the candidates up to the one at hand, each is sure or has failed; the
\* ranking begins when all are sure.
UnifiedInv ==
  /\ candidates \in Seq(Stocks) /\ deep \in [Stocks -> Marks]
  /\ stage \in Researching =>
       /\ index \in 1..Len(candidates)
       /\ \A i \in 1..(index - 1) : Sure(candidates[i]) \/ candidates[i] \in failures
  /\ stage \in {"ranking", "complete"} => \A i \in 1..Len(candidates) : Sure(candidates[i])
  /\ stage = "complete" => ranking \in Rankings(SetOf(candidates))

\* The selection results[i] retains is that of the start, or won a comparison
\* since.
Earned(i) ==
  \/ results[i].active = results[1].active
  \/ \E k \in DecidedResults :
       k <= i /\ results[k].first = results[i].active /\ results[k].active = results[i].active

Continues(i) ==
  LET r == results[i] IN
    /\ r.previous \in 1..(i - 1)
    /\ r.incoming = results[r.previous].active /\ r.incoming # NoStock
    /\ r.active \in {r.incoming, r.first}
    /\ Earned(i)

Sound(r) == r.unaudited \subseteq r.given

\* What a result says of itself.
ResultFits(r) ==
  /\ DOMAIN r = DOMAIN Blank
  /\ r.kind = "initial" => r.ranked = <<>>
  /\ r.kind = "unified" => r.active = NoStock
  /\ r.kind = "unified" /\ r.status = "COMPLETE" => Sound(r) /\ r.ranked \in AllRankings

ResultsInv ==
  /\ results \in Seq(SetOf(results))
  /\ \A i \in Chosen : ResultFits(results[i])
  /\ \A i \in Chosen : results[i].kind = "initial" => i = 1
  /\ \A i \in DecidedResults : Sound(results[i]) /\ Continues(i)

\* What a comparison or a session works from.
RestsOn(source, previous, incoming) ==
  /\ source \in Chosen /\ previous \in Chosen
  /\ Sound(results[source])
  /\ incoming = results[previous].active /\ incoming # NoStock

Saving == {"state", "said", "report", "rewrite"}

\* The best ones up to the one at hand are researched again or have failed;
\* none is left out of a comparison.
JobInv ==
  /\ DOMAIN job = DOMAIN NoJob
  /\ job.phase # "none" => /\ job.script \in {"topfive", "pair"}
                           /\ RestsOn(job.source, job.previous, job.incoming)
  /\ job.phase # "none" /\ job.script = "topfive" => job.top \in AllRankings
  /\ job.phase # "none" /\ job.script = "pair" => job.top = <<>> /\ job.incoming \in job.done
  /\ job.phase = "dive" =>
       /\ job.script = "topfive" /\ job.index \in 1..TopCount
       /\ \A i \in 1..(job.index - 1) : job.top[i] \in job.done \cup job.failures
  /\ job.phase = "dived" => \A i \in 1..TopCount : job.top[i] \in job.done \cup job.failures
  /\ job.phase \in {"incumbent", "pair", "compare"} => SetOf(job.top) \cup {job.first} \subseteq job.done
  /\ job.phase \in {"pair", "compare"} => job.incoming \in job.done
  /\ job.phase = "compare" => job.exposed \cap (job.seen \cup Given) = {}
  /\ job.phase \in Saving => job.written \in Chosen /\ results[job.written].kind = job.script
  /\ job.phase \in {"said", "report", "rewrite"} => results[job.written].state

\* The decision of a session whose evidence is written.
DecisionFits(d) ==
  /\ DOMAIN d = DOMAIN Blank /\ d.kind = "session"
  /\ d.previous = session.previous /\ d.incoming = session.incoming
  /\ d.active \in {d.incoming, d.first}
  /\ Sound(d)

SessionInv ==
  /\ DOMAIN session = DOMAIN NoSession
  /\ session.phase \in {"prepared", "evidence"} =>
       RestsOn(session.source, session.previous, session.incoming)
  /\ session.phase = "evidence" => DecisionFits(session.decision) /\ session.open = {}
  /\ session.phase = "state" => session.written \in Chosen

Inv == UnifiedInv /\ ResultsInv /\ JobInv /\ SessionInv

-----------------------------------------------------------------------------
(* What no step takes from a result.                                        *)

Kept(r, q) ==
  /\ DOMAIN q = DOMAIN r
  /\ q.kind = r.kind /\ q.ranked = r.ranked /\ q.previous = r.previous
  /\ q.incoming = r.incoming /\ q.first = r.first /\ q.action = r.action
  /\ q.active = r.active /\ q.gaps = r.gaps
  /\ q.unaudited = r.unaudited /\ q.given = r.given
  /\ r.state => q.state
  /\ r.kind = "unified" => q.status = r.status

Grew ==
  /\ Len(results) \in Nat /\ Len(results') \in Nat /\ Len(results) <= Len(results')
  /\ \A i \in Chosen : Kept(results[i], results'[i])

Survives(r, q) ==
  Resolved(r) # NoStock =>
    \/ Resolved(q) = Resolved(r)
    \/ r.kind = "pair" /\ ~ r.state /\ q.status = "FAILED"

Survive == \A i \in Chosen : Survives(results[i], results'[i])

\* What a result retains is what it did as long as its selection is saved.
LEMMA ResolvedStays ==
  ASSUME NEW r, NEW q, Kept(r, q), q.state
  PROVE  Survives(r, q)
<1> SUFFICES ASSUME Resolved(r) # NoStock PROVE Resolved(q) = Resolved(r)
  BY DEF Survives
<1>1. /\ Resolved(r) = r.active
      /\ r.action # "none" => Outgoing(r.incoming, r.first, r.action) = r.active
  BY DEF Resolved
<1>2. "state" \in Files(q) BY DEF Files
<1>3. Resolved(q) = q.active
  BY <1>1, <1>2 DEF Resolved, Kept
<1> QED BY <1>1, <1>3 DEF Kept

LEMMA RestsOnStays ==
  ASSUME Grew, NEW s, NEW p, NEW incoming, RestsOn(s, p, incoming)
  PROVE  RestsOn(s, p, incoming)'
BY DEF Grew, RestsOn, Kept, Chosen, Sound

LEMMA EarnedStays ==
  ASSUME Grew, NEW i \in Chosen, Earned(i)
  PROVE  Earned(i)'
<1>1. 1 \in Chosen /\ Chosen \subseteq Chosen'
  BY DEF Grew, Chosen
<1>2. \A k \in Chosen : /\ results'[k].kind = results[k].kind /\ results'[k].active = results[k].active
                        /\ results'[k].first = results[k].first
  BY DEF Grew, Kept
<1>3. CASE results[i].active = results[1].active
  BY <1>1, <1>2, <1>3 DEF Earned
<1>4. ASSUME NEW k \in DecidedResults, k <= i,
             results[k].first = results[i].active, results[k].active = results[i].active
      PROVE  Earned(i)'
  <2>1. k \in DecidedResults' BY <1>1, <1>2, <1>4 DEF DecidedResults
  <2>2. results'[k].first = results'[i].active /\ results'[k].active = results'[i].active
    BY <1>2, <1>4 DEF DecidedResults
  <2> QED BY <1>4, <2>1, <2>2 DEF Earned
<1> QED BY <1>3, <1>4 DEF Earned

LEMMA ContinuesStays ==
  ASSUME Grew, NEW i \in Chosen, Continues(i)
  PROVE  Continues(i)'
<1>1. results[i].previous \in Chosen /\ results'[i].previous = results[i].previous
  BY DEF Continues, Grew, Kept, Chosen
<1>2. /\ results'[i].incoming = results[i].incoming /\ results'[i].active = results[i].active
      /\ results'[i].first = results[i].first
      /\ results'[results[i].previous].active = results[results[i].previous].active
  BY <1>1 DEF Grew, Kept
<1>3. Earned(i)' BY EarnedStays DEF Continues
<1> QED BY <1>1, <1>2, <1>3 DEF Continues

\* What a step leaves of the results that were there.
LEMMA OldResultsFit ==
  ASSUME ResultsInv, Grew, NEW i \in Chosen
  PROVE  /\ results'[i].kind = "initial" => i = 1
         /\ i \in DecidedResults' => Sound(results'[i]) /\ Continues(i)'
         /\ results[i].status = results'[i].status => ResultFits(results'[i])
<1>1. Kept(results[i], results'[i]) /\ ResultFits(results[i]) /\ (results[i].kind = "initial" => i = 1)
  BY DEF Grew, ResultsInv
<1>2. i \in DecidedResults' => i \in DecidedResults
  BY <1>1 DEF DecidedResults, Kept
<1>3. i \in DecidedResults => Sound(results[i]) /\ Continues(i)
  BY DEF ResultsInv
<1> QED BY <1>1, <1>2, <1>3, ContinuesStays DEF Kept, ResultFits, Sound

LEMMA RangeIs ==
  ASSUME NEW S, NEW s \in Seq(S)
  PROVE  s \in Seq(SetOf(s))
BY DEF SetOf

LEMMA AppendIs ==
  ASSUME NEW S, NEW s \in Seq(S), NEW e
  PROVE  /\ Len(s) \in Nat /\ Len(Append(s, e)) = Len(s) + 1
         /\ \A i \in 1..Len(s) : Append(s, e)[i] = s[i]
         /\ Append(s, e)[Len(s) + 1] = e
         /\ Append(s, e) \in Seq(S \cup {e})
<1>1. s \in Seq(S \cup {e}) OBVIOUS
<1>2. /\ Len(s) \in Nat /\ Len(Append(s, e)) = Len(s) + 1
      /\ \A i \in 1..Len(s) : Append(s, e)[i] = s[i]
      /\ Append(s, e)[Len(s) + 1] = e
      /\ Append(s, e) \in Seq(S \cup {e})
  BY <1>1
<1> QED BY <1>2

\* A result that is written: it fits, and if it retains a stock it continues
\* the selection.
LEMMA Appended ==
  ASSUME ResultsInv, NEW r, results' = Append(results, r),
         ResultFits(r), r.kind # "initial",
         r.active # NoStock => /\ Sound(r) /\ r.previous \in Chosen
                               /\ r.incoming = results[r.previous].active /\ r.incoming # NoStock
                               /\ r.active \in {r.incoming, r.first}
  PROVE  ResultsInv' /\ Grew /\ Survive
<1>0. Len(results) \in Nat /\ Len(results) + 1 \in Nat
  BY DEF ResultsInv
<1> PICK n \in Nat : n = Len(results) + 1
  BY <1>0
<1>1. /\ Len(results) \in Nat /\ Len(results') = n
      /\ \A i \in Chosen : results'[i] = results[i]
      /\ results'[n] = r
      /\ results' \in Seq(SetOf(results'))
  <2>1. results \in Seq(SetOf(results)) BY DEF ResultsInv
  <2>2. PICK S : results \in Seq(S) BY <2>1
  <2>3. /\ Len(results') = Len(results) + 1 /\ results' \in Seq(S \cup {r})
        /\ \A i \in 1..Len(results) : results'[i] = results[i]
        /\ results'[Len(results) + 1] = r
    BY <2>2, AppendIs
  <2>4. results' \in Seq(SetOf(results'))
    BY <2>3, RangeIs
  <2> QED BY <1>0, <2>3, <2>4 DEF Chosen
<1>2. \A i \in Chosen : ResultFits(results[i]) /\ (results[i].kind = "initial" => i = 1)
  BY DEF ResultsInv
<1>3. Grew
  BY <1>1 DEF Grew, Kept, Chosen
<1>4. Survive
  BY <1>1 DEF Survive, Survives
<1>5. Chosen' = Chosen \cup {n} /\ n \notin Chosen
  BY <1>1 DEF Chosen
<1>6. \A i \in Chosen : ResultFits(results'[i])
  BY <1>1, <1>2
<1>7. \A i \in Chosen' : ResultFits(results'[i]) /\ (results'[i].kind = "initial" => i = 1)
  BY <1>1, <1>2, <1>5
<1>8. \A i \in Chosen : i \in DecidedResults' => Sound(results'[i]) /\ Continues(i)'
  BY <1>3, OldResultsFit
<1>9. ASSUME n \in DecidedResults' PROVE Sound(r) /\ Continues(n)'
  <2>1. r.active # NoStock BY <1>1, <1>9 DEF DecidedResults
  <2>2. /\ Sound(r) /\ r.previous \in Chosen /\ r.incoming = results[r.previous].active
        /\ r.incoming # NoStock /\ r.active \in {r.incoming, r.first}
    BY <2>1
  <2>3. r.previous \in 1..(n - 1) /\ results'[r.previous] = results[r.previous]
    BY <1>1, <2>2 DEF Chosen
  <2>4. Earned(n)'
    <3>1. CASE r.active = r.first
      BY <1>1, <1>9, <3>1 DEF Earned, DecidedResults, Chosen
    <3>2. CASE r.active = results[r.previous].active
      <4>1. CASE results[r.previous].kind = "initial"
        <5>1. r.previous = 1 BY <1>2, <2>2, <4>1
        <5> QED BY <1>1, <2>3, <3>2, <5>1 DEF Earned
      <4>2. CASE results[r.previous].kind # "initial"
        <5>1. r.previous \in DecidedResults BY <2>2, <4>2 DEF DecidedResults
        <5>2. Earned(r.previous) BY <5>1 DEF ResultsInv, Continues
        <5>3. Earned(r.previous)' BY <1>3, <2>2, <5>2, EarnedStays
        <5>4. r.active = results'[n].active /\ results'[r.previous].active = results'[n].active
          BY <1>1, <2>3, <3>2
        <5>5. \A k \in DecidedResults' : k <= r.previous => k <= n
          BY <1>1, <2>3, <1>5 DEF DecidedResults, Chosen
        <5> QED BY <5>3, <5>4, <5>5 DEF Earned
      <4> QED BY <4>1, <4>2
    <3> QED BY <2>2, <3>1, <3>2
  <2> QED BY <1>1, <2>2, <2>3, <2>4 DEF Continues
<1> QED BY <1>1, <1>3, <1>4, <1>5, <1>7, <1>8, <1>9 DEF ResultsInv, DecidedResults

LEMMA ExceptIs ==
  ASSUME NEW S, NEW s \in Seq(S), NEW w \in 1..Len(s), NEW e
  PROVE  [s EXCEPT ![w] = e] \in Seq(S \cup {e}) /\ Len([s EXCEPT ![w] = e]) = Len(s)
<1>1. s \in Seq(S \cup {e}) OBVIOUS
<1> QED BY <1>1

\* A result that is rewritten.
LEMMA Edited ==
  ASSUME ResultsInv, NEW w \in Chosen, NEW q, results' = [results EXCEPT ![w] = q],
         Kept(results[w], q), results[w].kind # "unified" \/ q.status = results[w].status,
         Survives(results[w], q)
  PROVE  ResultsInv' /\ Grew /\ Survive
<1>1. /\ Len(results) \in Nat /\ Chosen = DOMAIN results /\ Len(results') = Len(results)
      /\ results'[w] = q /\ \A i \in Chosen \ {w} : results'[i] = results[i]
      /\ results' \in Seq(SetOf(results'))
  <2>1. results \in Seq(SetOf(results)) BY DEF ResultsInv
  <2>2. Len(results) \in Nat /\ Chosen = DOMAIN results BY <2>1 DEF Chosen
  <2>3. /\ DOMAIN results' = DOMAIN results
        /\ results'[w] = q /\ \A i \in Chosen \ {w} : results'[i] = results[i]
    BY <2>2
  <2>4. w \in 1..Len(results) BY DEF Chosen
  <2>5. PICK S : results \in Seq(S) BY <2>1
  <2>6. results' \in Seq(S \cup {q}) /\ Len(results') = Len(results)
    BY <2>4, <2>5, ExceptIs
  <2>7. results' \in Seq(SetOf(results'))
    BY <2>6, RangeIs
  <2> QED BY <2>2, <2>3, <2>6, <2>7
<1>2. Chosen' = Chosen BY <1>1 DEF Chosen
<1>3. Grew BY <1>1 DEF Grew, Kept
<1>4. Survive BY <1>1 DEF Survive, Survives
<1>5. \A i \in Chosen : ResultFits(results'[i])
  <2>1. \A i \in Chosen : ResultFits(results[i]) BY DEF ResultsInv
  <2>2. ResultFits(q) BY <2>1 DEF ResultFits, Kept, Sound
  <2> QED BY <1>1, <2>1, <2>2
<1>6. \A i \in Chosen : /\ results'[i].kind = "initial" => i = 1
                        /\ i \in DecidedResults' => Sound(results'[i]) /\ Continues(i)'
  BY <1>3, OldResultsFit
<1> QED BY <1>1, <1>2, <1>3, <1>4, <1>5, <1>6 DEF ResultsInv, DecidedResults

LEMMA ResultsStay ==
  ASSUME ResultsInv, results' = results
  PROVE  ResultsInv' /\ Grew /\ Survive
<1>1. ResultsInv'
  BY DEF ResultsInv, Chosen, DecidedResults, Continues, Earned
<1>2. Len(results) \in Nat
  BY DEF ResultsInv
<1> QED BY <1>1, <1>2 DEF Grew, Kept, Survive, Survives, Chosen

-----------------------------------------------------------------------------
(* The unified research.                                                    *)

LEMMA RankingsWithin ==
  ASSUME NEW S \in SUBSET Stocks
  PROVE  Rankings(S) \subseteq AllRankings
<1>1. [1..TopCount -> S] \subseteq [1..TopCount -> Stocks]
  OBVIOUS
<1> QED BY <1>1 DEF AllRankings, Rankings

LEMMA CandidatesAreStocks ==
  ASSUME UnifiedInv
  PROVE  SetOf(candidates) \in SUBSET Stocks
<1>1. candidates \in Seq(Stocks) BY DEF UnifiedInv
<1> QED BY <1>1 DEF SetOf

\* After one more candidate.
LEMMA NextCandidate ==
  ASSUME UnifiedInv, stage \in Researching, candidates' = candidates,
         earlier' = earlier, deep' \in [Stocks -> Marks], failures \subseteq failures',
         \A s \in Stocks : deep[s] = "passed" => deep'[s] = "passed" \/ earlier[s] = "plain",
         deep'[Current] = "passed" \/ earlier[Current] = "plain" \/ Current \in failures',
         AfterThis
  PROVE  UnifiedInv'
<1>1. /\ candidates \in Seq(Stocks) /\ index \in 1..Len(candidates) /\ Len(candidates) \in Nat
      /\ \A i \in 1..(index - 1) : Sure(candidates[i]) \/ candidates[i] \in failures
  BY DEF UnifiedInv
<1>2. \A i \in 1..Len(candidates) : candidates[i] \in Stocks
  BY <1>1
<1>3. \A i \in 1..index : (deep'[candidates[i]] = "passed" \/ earlier'[candidates[i]] = "plain")
                          \/ candidates[i] \in failures'
  <2> TAKE i \in 1..index
  <2>1. CASE i = index BY <2>1 DEF Current
  <2>2. CASE i # index
    <3>1. i \in 1..(index - 1) /\ i \in 1..Len(candidates) BY <1>1, <2>2
    <3> QED BY <1>1, <1>2, <3>1 DEF Sure
  <2> QED BY <2>1, <2>2
<1>4. CASE index < Len(candidates)
  <2>1. stage' = "dive" /\ index' = index + 1 BY <1>4 DEF AfterThis
  <2>2. index' \in 1..Len(candidates) /\ 1..(index' - 1) = 1..index BY <1>1, <1>4, <2>1
  <2> QED BY <1>1, <1>3, <2>1, <2>2 DEF UnifiedInv, Researching, Sure
<1>5. CASE ~ (index < Len(candidates))
  <2>1. index' = index /\ index = Len(candidates) BY <1>1, <1>5 DEF AfterThis
  <2>2. CASE failures' = {}
    <3>1. stage' = "ranking" BY <1>5, <2>2 DEF AfterThis
    <3> QED BY <1>1, <1>3, <2>1, <2>2, <3>1 DEF UnifiedInv, Researching, Sure
  <2>3. CASE failures' # {}
    <3>1. stage' = "incomplete" BY <1>5, <2>3 DEF AfterThis
    <3> QED BY <1>1, <3>1 DEF UnifiedInv, Researching, Sure
  <2> QED BY <2>2, <2>3
<1> QED BY <1>4, <1>5

LEMMA CurrentIsStock ==
  ASSUME UnifiedInv, stage \in Researching
  PROVE  Current \in Stocks
<1>1. candidates \in Seq(Stocks) /\ index \in 1..Len(candidates) BY DEF UnifiedInv
<1> QED BY <1>1 DEF Current

LEMMA UnifiedEnds ==
  ASSUME UnifiedOver
  PROVE  UnifiedInv'
<1>1. NoMarks \in [Stocks -> Marks] BY DEF NoMarks, Marks
<1> QED BY <1>1 DEF UnifiedOver, UnifiedInv, Researching, Sure

LEMMA UnifiedStays ==
  ASSUME UnifiedInv, UNCHANGED unified
  PROVE  UnifiedInv'
BY DEF UnifiedInv, unified, Sure

LEMMA UnifiedStepFits ==
  ASSUME UnifiedInv, UnifiedStep
  PROVE  UnifiedInv'
<1>0. deep \in [Stocks -> Marks] /\ candidates \in Seq(Stocks) BY DEF UnifiedInv
<1>1. CASE DiveIsReused
  <2>1. stage \in Researching BY <1>1 DEF DiveIsReused, Researching
  <2>2. Current \in Stocks BY <2>1, CurrentIsStock
  <2>3. deep' = [deep EXCEPT ![Current] = earlier[Current]] /\ earlier[Current] \in {"passed", "plain"}
    BY <1>1, <2>2 DEF DiveIsReused, Reusable
  <2>4. /\ deep' \in [Stocks -> Marks] /\ deep'[Current] = earlier[Current]
        /\ \A s \in Stocks : deep[s] = "passed" => deep'[s] = "passed" \/ earlier[s] = "plain"
    BY <1>0, <2>2, <2>3 DEF Marks
  <2>5. candidates' = candidates /\ failures' = failures /\ earlier' = earlier /\ AfterThis
    BY <1>1 DEF DiveIsReused
  <2> QED BY <2>1, <2>3, <2>4, <2>5, NextCandidate
<1>2. CASE DiveAnswers
  BY <1>2 DEF DiveAnswers, Researches, UnifiedInv, Researching, Sure
<1>3. CASE DiveFails
  <2>1. stage \in Researching BY <1>3 DEF DiveFails, Researches, Researching
  <2>2. /\ candidates' = candidates /\ deep' = deep /\ failures' = failures \cup {Current}
        /\ earlier' = earlier /\ AfterThis
    BY <1>3 DEF DiveFails
  <2> QED BY <1>0, <2>1, <2>2, NextCandidate
<1>4. CASE AuditPasses
  <2>1. stage \in Researching BY <1>4 DEF AuditPasses, Researching
  <2>2. Current \in Stocks BY <2>1, CurrentIsStock
  <2>3. deep' = [deep EXCEPT ![Current] = "passed"] BY <1>4 DEF AuditPasses
  <2>4. deep' \in [Stocks -> Marks] /\ deep'[Current] = "passed"
        /\ \A s \in Stocks : deep[s] = "passed" => deep'[s] = "passed"
    BY <1>0, <2>2, <2>3 DEF Marks
  <2>5. candidates' = candidates /\ failures' = failures /\ earlier' = earlier /\ AfterThis
    BY <1>4 DEF AuditPasses
  <2> QED BY <2>1, <2>4, <2>5, NextCandidate
<1>5. CASE AuditPassesMistaken
  <2>1. stage \in Researching BY <1>5 DEF AuditPassesMistaken, Researching
  <2>2. /\ candidates' = candidates /\ deep' = deep /\ failures' = failures \cup {Current}
        /\ earlier' = earlier /\ AfterThis
    BY <1>5 DEF AuditPassesMistaken
  <2> QED BY <1>0, <2>1, <2>2, NextCandidate
<1>6. CASE AuditRejects
  <2>1. stage \in Researching BY <1>6 DEF AuditRejects, Researching
  <2>2. /\ candidates' = candidates /\ deep' = deep /\ failures' = failures \cup {Current}
        /\ earlier' = earlier /\ AfterThis
    BY <1>6 DEF AuditRejects
  <2> QED BY <1>0, <2>1, <2>2, NextCandidate
<1>7. CASE AuditRequests
  BY <1>0, <1>7 DEF AuditRequests, UnifiedInv, Researching
<1>8. CASE RankingCompletes
  <2>1. \A i \in 1..Len(candidates) : Sure(candidates[i])
    BY <1>8 DEF RankingCompletes, UnifiedInv
  <2>2. candidates' = candidates /\ deep' = deep /\ earlier' = earlier
    BY <1>8 DEF RankingCompletes
  <2>3. \A i \in 1..Len(candidates) : Sure(candidates[i])'
    BY <2>1, <2>2 DEF Sure
  <2>4. stage' = "complete" /\ ranking' \in Rankings(SetOf(candidates))
    BY <1>8 DEF RankingCompletes
  <2>5. SetOf(candidates)' = SetOf(candidates) BY <2>2
  <2>6. ranking' \in Rankings(SetOf(candidates))' BY <2>4, <2>5
  <2> QED BY <1>0, <2>2, <2>3, <2>4, <2>6 DEF UnifiedInv, Researching
<1>9. CASE RankingRequests
  BY <1>0, <1>9 DEF RankingRequests, UnifiedInv, Researching
<1> QED BY <1>1, <1>2, <1>3, <1>4, <1>5, <1>6, <1>7, <1>8, <1>9 DEF UnifiedStep

LEMMA UnifiedStartsFits ==
  ASSUME UnifiedInv, UnifiedStarts
  PROVE  UnifiedInv'
<1>1. PICK c \in CandidateLists : candidates' = c BY DEF UnifiedStarts
<1>2. c \in Seq(Stocks) /\ Len(c) >= TopCount
  BY UnifiedAssumption DEF IsCandidateList
<1>3. 1 \in 1..Len(c) BY <1>2, UnifiedAssumption
<1> QED BY <1>1, <1>2, <1>3 DEF UnifiedStarts, UnifiedInv, Researching

\* Every other action leaves the unified research alone.
LEMMA UnifiedNext ==
  ASSUME UnifiedInv, [Next]_vars
  PROVE  UnifiedInv'
<1>1. CASE StartUnified BY <1>1, UnifiedStartsFits DEF StartUnified
<1>2. CASE ResearchUnified BY <1>2, UnifiedStepFits DEF ResearchUnified
<1>3. CASE UnifiedFails BY <1>3, UnifiedEnds DEF UnifiedFails, RankingFails
<1>4. CASE UnifiedWrites BY <1>4, UnifiedEnds DEF UnifiedWrites
<1>5. CASE Crash BY <1>5, UnifiedEnds DEF Crash
<1>6. CASE UNCHANGED unified BY <1>6, UnifiedStays
<1>7. CASE UNCHANGED vars BY <1>7, UnifiedStays DEF vars
<1>8. CASE TopFiveStarts \/ SupplementCompletes \/ SupplementFails \/ FinalRankingCompletes
           \/ IncumbentCompletes \/ PairStarts \/ RescoreCompletes \/ PairPassesAudit \/ PairEnds
  BY <1>6, <1>8 DEF TopFiveStarts, SupplementCompletes, SupplementFails, FinalRankingCompletes,
                    IncumbentCompletes, PairStarts, RescoreCompletes, PairPassesAudit, PairEnds
<1>9. CASE StageRequests \/ StageFails \/ PairNeedsResearch
  BY <1>6, <1>9 DEF StageRequests, StageFails, PairNeedsResearch, Stops
<1>10. CASE ComparisonCompletes \/ StateIsWritten \/ ResultIsOpened \/ ResultIsRewritten \/ PairFailsLate
  BY <1>6, <1>10 DEF ComparisonCompletes, StateIsWritten, ResultIsOpened, ResultIsRewritten, PairFailsLate
<1>11. CASE SessionPrepares \/ SessionFinalizes \/ SessionWritesResult \/ SessionWritesState \/ SessionEnds
  BY <1>6, <1>11 DEF SessionPrepares, SessionFinalizes, SessionWritesResult, SessionWritesState,
                     SessionEnds
<1> QED BY <1>1, <1>2, <1>3, <1>4, <1>5, <1>7, <1>8, <1>9, <1>10, <1>11 DEF Next

-----------------------------------------------------------------------------
(* The comparison.                                                          *)

LEMMA ResolvedIs ==
  ASSUME NEW r, Resolved(r) # NoStock
  PROVE  Resolved(r) = r.active
BY DEF Resolved

JobFields == {"script", "phase", "source", "previous", "incoming", "top", "index", "done",
              "failures", "ranked", "first", "file", "seen", "exposed", "written"}

LEMMA JobFieldsAre == DOMAIN NoJob = JobFields
BY DEF NoJob, JobFields

LEMMA NoJobFits ==
  ASSUME job' = NoJob
  PROVE  JobInv'
BY DEF JobInv, NoJob, Saving

\* The gaps a comparison was given stay what they are.
LEMMA GivenStays ==
  ASSUME Grew, job.previous \in Chosen, job'.file = job.file, job'.previous = job.previous
  PROVE  Given' = Given
BY DEF Given, Grew, Kept

LEMMA JobStays ==
  ASSUME JobInv, Grew, job' = job
  PROVE  JobInv'
<1>1. job.phase # "none" => RestsOn(job.source, job.previous, job.incoming)'
  BY RestsOnStays DEF JobInv
<1>2. job.phase \in Saving => /\ job.written \in Chosen' /\ results'[job.written].kind = job.script
                              /\ results[job.written].state => results'[job.written].state
  BY DEF JobInv, Grew, Kept, Chosen
<1>3. job.phase \in {"said", "report", "rewrite"} => results'[job.written].state
  BY <1>2 DEF JobInv, Saving
<1>4. job.phase = "compare" => job'.exposed \cap (job'.seen \cup Given') = {}
  BY GivenStays DEF JobInv, RestsOn
<1> QED BY <1>1, <1>2, <1>3, <1>4 DEF JobInv

\* A comparison moves on, from the same results.
LEMMA JobMoves ==
  ASSUME JobInv, Grew, job.phase # "none",
         DOMAIN job' = DOMAIN NoJob, job'.script = job.script, job'.source = job.source,
         job'.previous = job.previous, job'.incoming = job.incoming, job'.top = job.top,
         job.done \subseteq job'.done,
         job'.phase = "dive" =>
           /\ job'.script = "topfive" /\ job'.index \in 1..TopCount
           /\ \A i \in 1..(job'.index - 1) : job'.top[i] \in job'.done \cup job'.failures,
         job'.phase = "dived" => \A i \in 1..TopCount : job'.top[i] \in job'.done \cup job'.failures,
         job'.phase \in {"incumbent", "pair", "compare"} =>
           SetOf(job'.top) \cup {job'.first} \subseteq job'.done,
         job'.phase \in {"pair", "compare"} => job'.incoming \in job'.done,
         job'.phase = "compare" => job'.exposed \cap (job'.seen \cup Given') = {},
         job'.phase \in Saving => job'.written \in Chosen' /\ results'[job'.written].kind = job'.script,
         job'.phase \in {"said", "report", "rewrite"} => results'[job'.written].state
  PROVE  JobInv'
<1>1. RestsOn(job.source, job.previous, job.incoming)'
  BY RestsOnStays DEF JobInv
<1>2. /\ job.script \in {"topfive", "pair"}
      /\ job.script = "topfive" => job.top \in AllRankings
      /\ job.script = "pair" => job.top = <<>> /\ job.incoming \in job.done
  BY DEF JobInv
<1> QED BY <1>1, <1>2 DEF JobInv

LEMMA TopFiveFits ==
  ASSUME ResultsInv, Grew, TopFiveStarts
  PROVE  JobInv'
<1>1. PICK s \in Chosen, p \in Chosen, f \in {"result", "state"} :
        /\ results[s].status = "COMPLETE" /\ results[s].kind = "unified"
        /\ Resolved(results[p]) # NoStock
        /\ job' = [NoJob EXCEPT !.script = "topfive", !.phase = "dive", !.source = s,
                                !.previous = p, !.file = f, !.incoming = Resolved(results[p]),
                                !.top = results[s].ranked, !.index = 1]
  BY DEF TopFiveStarts, Files
<1>2. Sound(results[s]) /\ results[s].ranked \in AllRankings
  BY <1>1 DEF ResultsInv, ResultFits
<1>3. RestsOn(s, p, Resolved(results[p]))
  BY <1>1, <1>2, ResolvedIs DEF RestsOn
<1>5. /\ DOMAIN job' = DOMAIN NoJob /\ job'.script = "topfive" /\ job'.phase = "dive"
      /\ job'.source = s /\ job'.previous = p /\ job'.incoming = Resolved(results[p])
      /\ job'.top = results[s].ranked /\ job'.index = 1
  BY <1>1 DEF NoJob
<1>6. RestsOn(job'.source, job'.previous, job'.incoming)
  BY <1>3, <1>5
<1>7. results' = results BY DEF TopFiveStarts
<1>8. RestsOn(job.source, job.previous, job.incoming)'
  BY <1>6, <1>7 DEF RestsOn, Chosen
<1>9. 1 \in 1..TopCount /\ 1..(1 - 1) = {} BY UnifiedAssumption
<1> QED BY <1>2, <1>5, <1>8, <1>9 DEF JobInv, Saving

LEMMA PairFits ==
  ASSUME ResultsInv, PairStarts
  PROVE  JobInv'
<1>1. PICK s \in Chosen : /\ results[s].status = "COMPLETE" /\ Resolved(results[s]) # NoStock
                          /\ \E c \in Challengers(results[s]) :
                               job' = [NoJob EXCEPT !.script = "pair", !.phase = "rescore", !.source = s,
                                        !.previous = s, !.file = "result", !.incoming = Resolved(results[s]),
                                        !.first = c, !.done = {Resolved(results[s])}]
  BY DEF PairStarts
<1>2. PICK c \in Challengers(results[s]) :
        job' = [NoJob EXCEPT !.script = "pair", !.phase = "rescore", !.source = s,
                             !.previous = s, !.file = "result", !.incoming = Resolved(results[s]),
                             !.first = c, !.done = {Resolved(results[s])}]
  BY <1>1
<1>3. results[s].ranked # <<>>
  BY <1>2 DEF Challengers, SetOf
<1>4. results[s].active = Resolved(results[s]) /\ results[s].active # NoStock
  BY <1>1, ResolvedIs
<1>5. Sound(results[s])
  BY <1>3, <1>4 DEF ResultsInv, ResultFits, DecidedResults
<1>6. /\ DOMAIN job' = DOMAIN NoJob /\ job'.script = "pair" /\ job'.phase = "rescore"
      /\ job'.source = s /\ job'.previous = s /\ job'.incoming = Resolved(results[s])
      /\ job'.top = <<>> /\ job'.done = {Resolved(results[s])}
  BY <1>2 DEF NoJob
<1>7. results' = results BY DEF PairStarts
<1>8. RestsOn(job.source, job.previous, job.incoming)'
  BY <1>4, <1>5, <1>6, <1>7 DEF RestsOn, Chosen
<1> QED BY <1>6, <1>8 DEF JobInv, Saving

\* The stock at hand is done or has failed.
LEMMA DiveMoves ==
  ASSUME JobInv, Grew, InTopFive("dive"), NEW d, NEW f,
         job.done \subseteq d, job.failures \subseteq f, job.top[job.index] \in d \cup f,
         job' = NextDive([job EXCEPT !.done = d, !.failures = f])
  PROVE  JobInv'
<1> DEFINE j == [job EXCEPT !.done = d, !.failures = f]
<1>1. /\ DOMAIN job = JobFields /\ job.index \in 1..TopCount
      /\ job.script = "topfive" /\ job.phase = "dive"
      /\ \A i \in 1..(job.index - 1) : job.top[i] \in job.done \cup job.failures
  BY JobFieldsAre DEF JobInv, InTopFive
<1>2. TopCount \in Nat BY UnifiedAssumption
<1>3. \A i \in 1..job.index : job.top[i] \in d \cup f
  <2> TAKE i \in 1..job.index
  <2>1. CASE i = job.index BY <2>1
  <2>2. CASE i # job.index
    <3>1. i \in 1..(job.index - 1) BY <1>1, <2>2
    <3> QED BY <1>1, <3>1
  <2> QED BY <2>1, <2>2
<1>4. /\ DOMAIN j = JobFields /\ j.script = job.script /\ j.source = job.source
      /\ j.previous = job.previous /\ j.incoming = job.incoming /\ j.top = job.top
      /\ j.done = d /\ j.failures = f /\ j.index = job.index /\ j.phase = job.phase
  BY <1>1 DEF JobFields
<1>5. CASE job.index < TopCount
  <2>1. job' = [j EXCEPT !.index = job.index + 1] BY <1>4, <1>5 DEF NextDive
  <2>2. /\ DOMAIN job' = JobFields /\ job'.script = job.script /\ job'.source = job.source
        /\ job'.previous = job.previous /\ job'.incoming = job.incoming /\ job'.top = job.top
        /\ job'.done = d /\ job'.failures = f /\ job'.index = job.index + 1 /\ job'.phase = "dive"
    BY <1>1, <1>4, <2>1 DEF JobFields
  <2>3. job'.index \in 1..TopCount /\ 1..(job'.index - 1) = 1..job.index
    BY <1>1, <1>2, <1>5, <2>2
  <2> QED BY <1>1, <1>3, <2>2, <2>3, JobMoves, JobFieldsAre DEF Saving
<1>6. CASE ~ (job.index < TopCount)
  <2>1. job' = [j EXCEPT !.phase = "dived"] BY <1>4, <1>6 DEF NextDive
  <2>2. /\ DOMAIN job' = JobFields /\ job'.script = job.script /\ job'.source = job.source
        /\ job'.previous = job.previous /\ job'.incoming = job.incoming /\ job'.top = job.top
        /\ job'.done = d /\ job'.failures = f /\ job'.phase = "dived"
    BY <1>4, <2>1 DEF JobFields
  <2>3. job.index = TopCount BY <1>1, <1>2, <1>6
  <2> QED BY <1>1, <1>3, <2>2, <2>3, JobMoves, JobFieldsAre DEF Saving
<1> QED BY <1>5, <1>6

LEMMA SupplementsFit ==
  ASSUME JobInv, Grew, SupplementCompletes \/ SupplementFails
  PROVE  JobInv'
<1>0. DOMAIN job = JobFields BY JobFieldsAre DEF JobInv
<1>1. CASE SupplementCompletes
  <2>1. [job EXCEPT !.done = @ \cup {job.top[job.index]}]
          = [job EXCEPT !.done = job.done \cup {job.top[job.index]}, !.failures = job.failures]
    BY <1>0 DEF JobFields
  <2>2. job' = NextDive([job EXCEPT !.done = job.done \cup {job.top[job.index]}, !.failures = job.failures])
    BY <1>1, <2>1 DEF SupplementCompletes
  <2> QED BY <1>1, <2>2, DiveMoves DEF SupplementCompletes
<1>2. CASE SupplementFails
  <2>1. [job EXCEPT !.failures = @ \cup {job.top[job.index]}]
          = [job EXCEPT !.done = job.done, !.failures = job.failures \cup {job.top[job.index]}]
    BY <1>0 DEF JobFields
  <2>2. job' = NextDive([job EXCEPT !.done = job.done, !.failures = job.failures \cup {job.top[job.index]}])
    BY <1>2, <2>1 DEF SupplementFails
  <2> QED BY <1>2, <2>2, DiveMoves DEF SupplementFails
<1> QED BY <1>1, <1>2

LEMMA SetOfRanking ==
  ASSUME NEW t \in AllRankings
  PROVE  /\ SetOf(t) = {t[i] : i \in 1..TopCount}
         /\ 1..TopCount = DOMAIN t
<1>1. TopCount \in Nat /\ t \in [1..TopCount -> Stocks]
  BY UnifiedAssumption DEF AllRankings, Rankings
<1>2. t \in Seq(Stocks) /\ Len(t) = TopCount
  BY <1>1
<1> QED BY <1>1, <1>2 DEF SetOf

LEMMA FinalRankingFits ==
  ASSUME JobInv, Grew, FinalRankingCompletes
  PROVE  JobInv'
<1>1. PICK t \in Rankings(SetOf(job.top)) :
        job' = [job EXCEPT !.ranked = t, !.first = t[1],
                           !.phase = IF job.incoming \in job.done THEN "pair" ELSE "incumbent"]
  BY DEF FinalRankingCompletes
<1>2. job.failures = {} /\ job.phase = "dived" /\ job.script = "topfive"
  BY DEF FinalRankingCompletes, EverySupplementDone, InTopFive
<1>3. job.top \in AllRankings /\ \A i \in 1..TopCount : job.top[i] \in job.done
  BY <1>2 DEF JobInv
<1>4. SetOf(job.top) \cup {t[1]} \subseteq job.done
  <2>1. SetOf(job.top) \subseteq job.done BY <1>3, SetOfRanking
  <2>2. t \in [1..TopCount -> SetOf(job.top)] /\ 1 \in 1..TopCount
    BY UnifiedAssumption DEF Rankings
  <2> QED BY <2>1, <2>2
<1>5. DOMAIN job = JobFields BY JobFieldsAre DEF JobInv
<1>6. /\ DOMAIN job' = JobFields /\ job'.script = job.script
      /\ job'.source = job.source /\ job'.previous = job.previous /\ job'.incoming = job.incoming
      /\ job'.top = job.top /\ job'.done = job.done /\ job'.first = t[1]
      /\ job'.phase = IF job.incoming \in job.done THEN "pair" ELSE "incumbent"
  BY <1>1, <1>5 DEF JobFields
<1>7. job'.phase \in {"pair", "incumbent"} /\ (job'.phase = "pair" => job.incoming \in job.done)
  BY <1>6
<1> QED BY <1>2, <1>4, <1>5, <1>6, <1>7, JobMoves, JobFieldsAre DEF Saving

\* The incumbent, or the challenger of a recheck.
LEMMA IncumbentFits ==
  ASSUME JobInv, Grew, IncumbentCompletes \/ RescoreCompletes
  PROVE  JobInv'
<1>1. DOMAIN job = JobFields BY JobFieldsAre DEF JobInv
<1>2. CASE IncumbentCompletes
  <2>1. /\ job.phase = "incumbent" /\ job' = [job EXCEPT !.done = @ \cup {job.incoming}, !.phase = "pair"]
    BY <1>2 DEF IncumbentCompletes, InTopFive
  <2>2. SetOf(job.top) \cup {job.first} \subseteq job.done BY <2>1 DEF JobInv
  <2>3. /\ DOMAIN job' = JobFields /\ job'.script = job.script /\ job'.first = job.first
        /\ job'.source = job.source /\ job'.previous = job.previous /\ job'.incoming = job.incoming
        /\ job'.top = job.top /\ job'.done = job.done \cup {job.incoming} /\ job'.phase = "pair"
    BY <1>1, <2>1 DEF JobFields
  <2> QED BY <1>1, <2>1, <2>2, <2>3, JobMoves, JobFieldsAre DEF Saving
<1>3. CASE RescoreCompletes
  <2>1. /\ job.phase = "rescore" /\ job.script = "pair"
        /\ job' = [job EXCEPT !.phase = "pair", !.done = @ \cup {job.first}]
    BY <1>3 DEF RescoreCompletes, InPair
  <2>2. SetOf(job.top) = {} /\ job.incoming \in job.done BY <2>1 DEF JobInv, SetOf
  <2>3. /\ DOMAIN job' = JobFields /\ job'.script = job.script /\ job'.first = job.first
        /\ job'.source = job.source /\ job'.previous = job.previous /\ job'.incoming = job.incoming
        /\ job'.top = job.top /\ job'.done = job.done \cup {job.first} /\ job'.phase = "pair"
    BY <1>1, <2>1 DEF JobFields
  <2> QED BY <1>1, <2>1, <2>2, <2>3, JobMoves, JobFieldsAre DEF Saving
<1> QED BY <1>2, <1>3

-----------------------------------------------------------------------------
(* The evidence audits.                                                     *)

\* What pair_evidence_audit lets pass while a round remains: no gap of a stock
\* on which none was bearable, neither one seen nor one recorded before.
LEMMA AuditIsEven ==
  ASSUME NEW p \in PassedAudits
  PROVE  p.exposed \cap (p.seen \cup OldGaps) = {}
<1>1. PICK q \in PairEvidence :
        /\ \/ Asymmetries(Recorded(q.now, OldGaps), q.verified) = {}
           \/ q.rounds = RoundLimit
        /\ p = [seen |-> {s \in Legs : q.now[s] = "critical"},
                exposed |-> Exposed(Legs, Recorded(q.now, OldGaps), q.verified, q.rounds)]
  BY Zenon DEF PassedAudits
<1>2. q.rounds \in 0..RoundLimit /\ RoundLimit \in Nat /\ DOMAIN q.now = Legs
  BY SelectionAssumption DEF PairEvidence
<1> DEFINE gap == Recorded(q.now, OldGaps)
<1>3. \A x \in Legs : x \in OldGaps \/ q.now[x] = "critical" => gap[x] = "critical"
  BY <1>2 DEF Recorded
<1>4. p.seen = {s \in Legs : q.now[s] = "critical"} /\ p.exposed = Exposed(Legs, gap, q.verified, q.rounds)
  BY <1>1
<1> HIDE DEF gap
<1> SUFFICES ASSUME NEW x \in p.exposed, x \in p.seen \cup OldGaps PROVE FALSE
  OBVIOUS
<1>5. x \in Legs /\ q.rounds < RoundLimit
      /\ \E y \in Legs \ {x} : gap[y] = "none" /\ y \in q.verified
  BY <1>4 DEF Exposed
<1>6. gap[x] = "critical" BY <1>3, <1>4, <1>5
<1>7. x \in Asymmetries(gap, q.verified) BY <1>5, <1>6 DEF Asymmetries
<1>8. q.rounds # RoundLimit BY <1>2, <1>5
<1>9. Asymmetries(gap, q.verified) = {} \/ q.rounds = RoundLimit BY <1>1 DEF gap
<1> QED BY <1>7, <1>8, <1>9

\* Nor does finalize of a session let such a gap pass.
LEMMA SessionIsEven ==
  ASSUME NEW pair, NEW open \in SessionOpens(pair)
  PROVE  open = {}
<1>1. PICK q \in [gap : [pair -> Gaps], verified : SUBSET pair, rounds : 0..RoundLimit] :
        /\ SessionAsymmetries(q.gap, q.verified) = {} \/ q.rounds = RoundLimit
        /\ open = {s \in Exposed(pair, q.gap, q.verified, q.rounds) : q.gap[s] = "critical"}
  BY DEF SessionOpens
<1>2. q.rounds \in 0..RoundLimit /\ RoundLimit \in Nat /\ DOMAIN q.gap = pair
  BY SelectionAssumption
<1> SUFFICES ASSUME NEW x \in open PROVE FALSE
  OBVIOUS
<1>3. /\ x \in pair /\ q.rounds < RoundLimit /\ q.gap[x] = "critical"
      /\ \E y \in pair \ {x} : q.gap[y] = "none" /\ y \in q.verified
  BY <1>1 DEF Exposed
<1>4. x \in SessionAsymmetries(q.gap, q.verified) BY <1>2, <1>3 DEF SessionAsymmetries
<1>5. q.rounds # RoundLimit BY <1>2, <1>3
<1> QED BY <1>1, <1>4, <1>5

LEMMA PairAuditFits ==
  ASSUME JobInv, Grew, PairPassesAudit
  PROVE  JobInv'
<1>1. PICK p \in PassedAudits :
        job' = [job EXCEPT !.phase = "compare", !.seen = p.seen, !.exposed = p.exposed]
  BY DEF PairPassesAudit
<1>2. job.phase = "pair" BY DEF PairPassesAudit
<1>3. DOMAIN job = JobFields /\ p.exposed \cap (p.seen \cup OldGaps) = {}
  BY AuditIsEven, JobFieldsAre DEF JobInv
<1>4. /\ SetOf(job.top) \cup {job.first} \subseteq job.done /\ job.incoming \in job.done
      /\ job.previous \in Chosen
  BY <1>2 DEF JobInv, RestsOn
<1>5. /\ DOMAIN job' = JobFields /\ job'.script = job.script /\ job'.file = job.file
      /\ job'.source = job.source /\ job'.previous = job.previous /\ job'.incoming = job.incoming
      /\ job'.top = job.top /\ job'.done = job.done /\ job'.phase = "compare"
      /\ job'.seen = p.seen /\ job'.exposed = p.exposed /\ job'.first = job.first
  BY <1>1, <1>3 DEF JobFields
<1>6. Given' = Given /\ Given = OldGaps BY <1>4, <1>5, GivenStays DEF Given, OldGaps
<1> QED BY <1>2, <1>3, <1>4, <1>5, <1>6, JobMoves, JobFieldsAre DEF Saving

-----------------------------------------------------------------------------
(* What is written.                                                         *)

ResultFields == {"kind", "status", "ranked", "listed", "source", "previous", "incoming", "first",
                 "action", "active", "state", "reported", "gaps", "unaudited", "given"}

LEMMA ResultFieldsAre == DOMAIN Blank = ResultFields
BY DEF Blank, ResultFields

LEMMA EndedIs ==
  ASSUME NEW kind, NEW status
  PROVE  /\ DOMAIN Ended(kind, status) = ResultFields
         /\ Ended(kind, status).kind = kind /\ Ended(kind, status).status = status
         /\ Ended(kind, status).active = NoStock /\ Ended(kind, status).unaudited = {}
BY DEF Ended, Blank, ResultFields

\* A script that stops, or a unified research that does, decides nothing.
LEMMA WithoutDecision ==
  ASSUME ResultsInv, NEW r, Write(r), DOMAIN r = ResultFields, r.kind # "initial",
         r.active = NoStock,
         r.kind = "unified" /\ r.status = "COMPLETE" => Sound(r) /\ r.ranked \in AllRankings
  PROVE  ResultsInv' /\ Grew /\ Survive
<1>1. ResultFits(r) BY ResultFieldsAre DEF ResultFits
<1>2. results' = Append(results, r) BY DEF Write
<1> QED BY <1>1, <1>2, Appended

LEMMA StopFits ==
  ASSUME ResultsInv, JobInv, NEW status, job.phase # "none", Stops(status)
  PROVE  ResultsInv' /\ Grew /\ Survive
<1> DEFINE e == Ended(job.script, status)
           x == IF job.script = "topfive" THEN job.incoming ELSE NoStock
           r == [e EXCEPT !.incoming = x]
<1>1. Write(r) BY DEF Stops
<1>2. DOMAIN e = ResultFields /\ e.kind = job.script /\ e.active = NoStock
  BY EndedIs
<1> HIDE DEF e, x
<1>3. DOMAIN r = ResultFields /\ r.kind = job.script /\ r.active = NoStock
  BY <1>2 DEF ResultFields
<1>4. job.script \in {"topfive", "pair"} BY DEF JobInv
<1> QED BY <1>1, <1>3, <1>4, WithoutDecision

LEMMA UnifiedResultFits ==
  ASSUME UnifiedInv, ResultsInv, UnifiedWrites
  PROVE  ResultsInv' /\ Grew /\ Survive
<1>1. CASE stage = "complete"
  <2> DEFINE e == Ended("unified", "COMPLETE")
             l == SetOf(candidates)
             u == {s \in SetOf(candidates) : deep[s] # "passed"}
             g == {s \in Stocks : earlier[s] = "plain"}
             r == [e EXCEPT !.ranked = ranking, !.listed = l, !.unaudited = u, !.given = g]
  <2>1. Write(r) BY <1>1 DEF UnifiedWrites
  <2>2. /\ DOMAIN e = ResultFields /\ e.kind = "unified" /\ e.active = NoStock
    BY EndedIs
  <2>3. u \subseteq g
    <3>1. \A i \in 1..Len(candidates) : Sure(candidates[i]) BY <1>1 DEF UnifiedInv
    <3>2. \A s \in SetOf(candidates) : s \in Stocks BY CandidatesAreStocks
    <3>3. \A s \in SetOf(candidates) : Sure(s) BY <3>1 DEF SetOf
    <3> QED BY <3>2, <3>3 DEF Sure
  <2>4. ranking \in AllRankings
    BY <1>1, CandidatesAreStocks, RankingsWithin DEF UnifiedInv
  <2> HIDE DEF e, l, u, g
  <2>5. /\ DOMAIN r = ResultFields /\ r.kind = "unified" /\ r.active = NoStock
        /\ r.unaudited = u /\ r.given = g /\ r.ranked = ranking
    BY <2>2 DEF ResultFields
  <2> HIDE DEF r
  <2> QED BY <2>1, <2>3, <2>4, <2>5, WithoutDecision DEF Sound
<1>2. ASSUME NEW status \in {"INCOMPLETE", "NEEDS_RESEARCH"}, Write(Ended("unified", status))
      PROVE  ResultsInv' /\ Grew /\ Survive
  <2>1. status # "COMPLETE" BY <1>2
  <2> QED BY <1>2, <2>1, EndedIs, WithoutDecision
<1>3. CASE stage = "incomplete"
  BY <1>2, <1>3 DEF UnifiedWrites
<1>4. CASE stage = "pending"
  BY <1>2, <1>4 DEF UnifiedWrites
<1> QED BY <1>1, <1>3, <1>4 DEF UnifiedWrites

LEMMA DecisionFitsResults ==
  ASSUME ResultsInv, NEW r, Write(r), DOMAIN r = ResultFields, r.kind \notin {"initial", "unified"},
         Sound(r), r.previous \in Chosen, r.incoming = results[r.previous].active,
         r.incoming # NoStock, r.active \in {r.incoming, r.first}
  PROVE  ResultsInv' /\ Grew /\ Survive
<1>1. ResultFits(r) BY ResultFieldsAre DEF ResultFits
<1>2. results' = Append(results, r) BY DEF Write
<1> QED BY <1>1, <1>2, Appended

LEMMA DecidedIs ==
  ASSUME JobInv, job.phase = "compare", NEW action, NEW more
  PROVE  /\ DOMAIN Decided(action, more) = ResultFields
         /\ Decided(action, more).kind = job.script
         /\ Decided(action, more).previous = job.previous
         /\ Decided(action, more).incoming = job.incoming
         /\ Decided(action, more).first = job.first
         /\ Decided(action, more).active = Outgoing(job.incoming, job.first, action)
         /\ Sound(Decided(action, more))
<1> DEFINE e == Ended(job.script, "COMPLETE")
           o == Outgoing(job.incoming, job.first, action)
           m == job.seen \cup more
           u == results[job.source].unaudited \cup ((SetOf(job.top) \cup Legs) \ job.done)
           g == results[job.source].given
           r == [e EXCEPT !.ranked = job.ranked, !.source = job.source, !.previous = job.previous,
                   !.incoming = job.incoming, !.first = job.first, !.action = action,
                   !.active = o, !.gaps = m, !.unaudited = u, !.given = g]
<1>1. DOMAIN e = ResultFields /\ e.kind = job.script BY EndedIs
<1>2. u \subseteq g
  <2>1. SetOf(job.top) \cup Legs \subseteq job.done BY DEF JobInv, Legs
  <2>2. Sound(results[job.source]) BY DEF JobInv, RestsOn
  <2> QED BY <2>1, <2>2 DEF Sound
<1>3. Decided(action, more) = r BY DEF Decided
<1> HIDE DEF e, o, m, u, g
<1>4. /\ DOMAIN r = ResultFields /\ r.kind = e.kind /\ r.previous = job.previous
      /\ r.incoming = job.incoming /\ r.first = job.first /\ r.active = o
      /\ r.unaudited = u /\ r.given = g
  BY <1>1 DEF ResultFields
<1>5. o = Outgoing(job.incoming, job.first, action) BY DEF o
<1> HIDE DEF r
<1> QED BY <1>1, <1>2, <1>3, <1>4, <1>5 DEF Sound

LEMMA ComparisonResultFits ==
  ASSUME ResultsInv, JobInv, ComparisonCompletes
  PROVE  ResultsInv' /\ Grew /\ Survive
<1>1. PICK action \in Actions(job.incoming, job.first), more \in LaterGaps : Write(Decided(action, more))
  BY DEF ComparisonCompletes
<1>2. job.phase = "compare" BY DEF ComparisonCompletes
<1>3. Outgoing(job.incoming, job.first, action) \in {job.incoming, job.first} BY DEF Outgoing
<1>4. /\ job.script \in {"topfive", "pair"} /\ job.previous \in Chosen
      /\ job.incoming = results[job.previous].active /\ job.incoming # NoStock
  BY <1>2 DEF JobInv, RestsOn
<1> QED BY <1>1, <1>2, <1>3, <1>4, DecidedIs, DecisionFitsResults

LEMMA SessionResultFits ==
  ASSUME ResultsInv, SessionInv, SessionWritesResult
  PROVE  ResultsInv' /\ Grew /\ Survive
<1>1. session.phase = "evidence" /\ Write(session.decision) BY DEF SessionWritesResult
<1>2. DecisionFits(session.decision) /\ RestsOn(session.source, session.previous, session.incoming)
  BY <1>1 DEF SessionInv
<1> QED BY <1>1, <1>2, DecisionFitsResults, ResultFieldsAre DEF DecisionFits, RestsOn

\* active_selection.json is written: what a result retains is what it did.
LEMMA StateIsSaved ==
  ASSUME ResultsInv, NEW w \in Chosen, results' = [results EXCEPT ![w].state = TRUE]
  PROVE  ResultsInv' /\ Grew /\ Survive
<1>1. DOMAIN results[w] = ResultFields BY ResultFieldsAre DEF ResultsInv, ResultFits
<1>2. results' = [results EXCEPT ![w] = [results[w] EXCEPT !.state = TRUE]]
  OBVIOUS
<1> DEFINE q == [results[w] EXCEPT !.state = TRUE]
<1>3. Kept(results[w], q) /\ q.status = results[w].status /\ q.state
  BY <1>1 DEF Kept, ResultFields
<1> HIDE DEF q
<1>4. Survives(results[w], q)
  BY <1>3, ResolvedStays
<1> QED BY <1>2, <1>3, <1>4, Edited DEF q

\* result.json is written again, of a result whose selection is saved.
LEMMA ResultIsEdited ==
  ASSUME ResultsInv, NEW w \in Chosen, NEW q, results' = [results EXCEPT ![w] = q],
         Kept(results[w], q), results[w].kind # "unified", results[w].state
  PROVE  ResultsInv' /\ Grew /\ Survive
<1>1. q.state BY DEF Kept
<1>2. Survives(results[w], q)
  BY <1>1, ResolvedStays
<1> QED BY <1>2, Edited

LEMMA RewritesFit ==
  ASSUME ResultsInv, JobInv, ResultIsOpened \/ ResultIsRewritten
  PROVE  ResultsInv' /\ Grew /\ Survive
<1>0. PICK w : w = job.written OBVIOUS
<1>1. /\ w \in Chosen /\ results[w].kind # "unified" /\ results[w].state
  BY <1>0 DEF JobInv, Saving, ResultIsOpened, ResultIsRewritten
<1>2. DOMAIN results[w] = ResultFields BY <1>1, ResultFieldsAre DEF ResultsInv, ResultFits
<1>3. CASE ResultIsOpened
  <2> DEFINE q == [results[w] EXCEPT !.status = "TORN"]
  <2>1. results' = [results EXCEPT ![w] = q] BY <1>0, <1>3 DEF ResultIsOpened
  <2>2. Kept(results[w], q) BY <1>1, <1>2 DEF Kept, ResultFields
  <2> QED BY <1>1, <2>1, <2>2, ResultIsEdited
<1>4. CASE ResultIsRewritten
  <2> DEFINE q == [results[w] EXCEPT !.status = "COMPLETE", !.reported = TRUE]
  <2>1. results' = [results EXCEPT ![w] = q] BY <1>0, <1>1, <1>4 DEF ResultIsRewritten, Chosen
  <2>2. Kept(results[w], q) BY <1>1, <1>2 DEF Kept, ResultFields
  <2> QED BY <1>1, <2>1, <2>2, ResultIsEdited
<1> QED BY <1>3, <1>4

\* A recheck declares its result FAILED: a selection that is saved survives.
LEMMA FailureFits ==
  ASSUME ResultsInv, JobInv, PairFailsLate
  PROVE  ResultsInv' /\ Grew /\ Survive
<1>0. PICK w : w = job.written OBVIOUS
<1>1. job.script = "pair" /\ job.phase \in Saving
  BY DEF PairFailsLate, InPair, Saving
<1>2. w \in Chosen /\ results[w].kind = "pair"
  BY <1>0, <1>1 DEF JobInv
<1>3. DOMAIN results[w] = ResultFields BY <1>2, ResultFieldsAre DEF ResultsInv, ResultFits
<1> DEFINE q == [results[w] EXCEPT !.status = "FAILED"]
<1>4. results' = [results EXCEPT ![w] = q] BY <1>0 DEF PairFailsLate
<1>5. Kept(results[w], q) /\ q.status = "FAILED" BY <1>2, <1>3 DEF Kept, ResultFields
<1> HIDE DEF q
<1>6. CASE results[w].state
  BY <1>2, <1>4, <1>5, <1>6, ResultIsEdited
<1>7. CASE ~ results[w].state
  <2>1. Survives(results[w], q) BY <1>2, <1>5, <1>7 DEF Survives
  <2> QED BY <1>2, <1>4, <1>5, <2>1, Edited
<1> QED BY <1>6, <1>7

LEMMA ResultsNext ==
  ASSUME UnifiedInv, ResultsInv, JobInv, SessionInv, [Next]_vars
  PROVE  ResultsInv' /\ Grew /\ Survive
<1>1. CASE UnifiedWrites BY <1>1, UnifiedResultFits
<1>2. CASE StageRequests \/ StageFails \/ PairNeedsResearch
  <2>1. job.phase # "none" /\ (Stops("NEEDS_RESEARCH") \/ Stops("FAILED"))
    BY <1>2 DEF StageRequests, StageFails, PairNeedsResearch
  <2> QED BY <2>1, StopFits
<1>3. CASE ComparisonCompletes BY <1>3, ComparisonResultFits
<1>4. CASE StateIsWritten
  <2>1. PICK w : w = job.written OBVIOUS
  <2>2. w \in Chosen /\ results' = [results EXCEPT ![w].state = TRUE]
    BY <1>4, <2>1 DEF StateIsWritten, JobInv, Saving
  <2> QED BY <2>2, StateIsSaved
<1>5. CASE ResultIsOpened \/ ResultIsRewritten BY <1>5, RewritesFit
<1>11. CASE PairFailsLate BY <1>11, FailureFits
<1>6. CASE SessionWritesResult BY <1>6, SessionResultFits
<1>7. CASE SessionWritesState
  <2>1. PICK w : w = session.written OBVIOUS
  <2>2. w \in Chosen /\ results' = [results EXCEPT ![w].state = TRUE]
    BY <1>7, <2>1 DEF SessionWritesState, SessionInv
  <2> QED BY <2>2, StateIsSaved
<1>8. CASE UNCHANGED vars \/ StartUnified \/ ResearchUnified \/ UnifiedFails
  BY <1>8, ResultsStay DEF vars, StartUnified, ResearchUnified, UnifiedFails
<1>9. CASE TopFiveStarts \/ SupplementCompletes \/ SupplementFails \/ FinalRankingCompletes
           \/ IncumbentCompletes \/ PairStarts \/ RescoreCompletes \/ PairPassesAudit \/ PairEnds
  BY <1>9, ResultsStay DEF TopFiveStarts, SupplementCompletes, SupplementFails, FinalRankingCompletes,
                           IncumbentCompletes, PairStarts, RescoreCompletes, PairPassesAudit, PairEnds
<1>10. CASE SessionPrepares \/ SessionFinalizes \/ SessionEnds \/ Crash
  BY <1>10, ResultsStay DEF SessionPrepares, SessionFinalizes, SessionEnds, Crash
<1> QED BY <1>1, <1>2, <1>3, <1>4, <1>5, <1>6, <1>7, <1>8, <1>9, <1>10, <1>11 DEF Next

\* The result of a comparison is the one its job goes on with.
LEMMA ComparisonFits ==
  ASSUME ResultsInv, JobInv, Grew, ComparisonCompletes
  PROVE  JobInv'
<1>1. PICK action \in Actions(job.incoming, job.first), more \in LaterGaps :
        results' = Append(results, Decided(action, more))
  BY DEF ComparisonCompletes, Write
<1>2. /\ job.phase = "compare"
      /\ job' = [job EXCEPT !.phase = "state", !.written = Len(results) + 1]
  BY DEF ComparisonCompletes, AfterResult
<1>3. DOMAIN job = JobFields
  BY <1>2, JobFieldsAre DEF JobInv
<1>4. /\ DOMAIN job' = JobFields /\ job'.script = job.script
      /\ job'.source = job.source /\ job'.previous = job.previous /\ job'.incoming = job.incoming
      /\ job'.top = job.top /\ job'.done = job.done /\ job'.phase = "state"
      /\ job'.written = Len(results) + 1
  BY <1>2, <1>3 DEF JobFields
<1>5. /\ Len(results) \in Nat /\ Len(results') = Len(results) + 1
      /\ results'[Len(results) + 1] = Decided(action, more)
  <2>1. PICK S : results \in Seq(S) BY DEF ResultsInv
  <2> QED BY <1>1, <2>1, AppendIs
<1>6. Decided(action, more).kind = job.script BY <1>2, DecidedIs
<1>7. job'.written \in Chosen' /\ results'[job'.written].kind = job'.script
  BY <1>4, <1>5, <1>6 DEF Chosen
<1> QED BY <1>2, <1>3, <1>4, <1>7, JobMoves, JobFieldsAre DEF Saving

LEMMA SavingFits ==
  ASSUME ResultsInv, JobInv, Grew, StateIsWritten \/ ResultIsOpened
  PROVE  JobInv'
<1>0. PICK w : w = job.written OBVIOUS
<1>1. DOMAIN job = JobFields BY JobFieldsAre DEF JobInv
<1>2. /\ w \in Chosen /\ job.phase # "none" /\ w \in Chosen'
      /\ results'[w].kind = job.script /\ (results[w].state => results'[w].state)
  <2>1. w \in Chosen /\ results[w].kind = job.script /\ job.phase # "none"
    BY <1>0 DEF JobInv, Saving, StateIsWritten, ResultIsOpened
  <2> QED BY <2>1 DEF Grew, Kept, Chosen
<1>3. ASSUME NEW next \in {"said", "report", "rewrite"}, job' = [job EXCEPT !.phase = next], results'[w].state
      PROVE  JobInv'
  <2>1. /\ DOMAIN job' = JobFields /\ job'.script = job.script
        /\ job'.source = job.source /\ job'.previous = job.previous /\ job'.incoming = job.incoming
        /\ job'.top = job.top /\ job'.done = job.done /\ job'.phase = next /\ job'.written = w
    BY <1>0, <1>1, <1>3 DEF JobFields
  <2> QED BY <1>1, <1>2, <1>3, <2>1, JobMoves, JobFieldsAre
<1>4. CASE StateIsWritten
  <2>1. results' = [results EXCEPT ![w].state = TRUE] BY <1>0, <1>4 DEF StateIsWritten
  <2>2. w \in DOMAIN results /\ DOMAIN results[w] = ResultFields
    BY <1>2, ResultFieldsAre DEF ResultsInv, ResultFits, Chosen
  <2>3. results'[w].state BY <2>1, <2>2 DEF ResultFields
  <2>4. PICK next \in {"said", "report", "rewrite"} : job' = [job EXCEPT !.phase = next]
    BY <1>4 DEF StateIsWritten
  <2> QED BY <1>3, <2>3, <2>4
<1>5. CASE ResultIsOpened
  <2>1. results[w].state BY <1>0, <1>5 DEF ResultIsOpened, JobInv
  <2> QED BY <1>2, <1>3, <1>5, <2>1 DEF ResultIsOpened
<1> QED BY <1>4, <1>5

LEMMA JobNext ==
  ASSUME ResultsInv, JobInv, Grew, [Next]_vars
  PROVE  JobInv'
<1>1. CASE TopFiveStarts BY <1>1, TopFiveFits
<1>2. CASE SupplementCompletes \/ SupplementFails BY <1>2, SupplementsFit
<1>3. CASE FinalRankingCompletes BY <1>3, FinalRankingFits
<1>4. CASE IncumbentCompletes \/ RescoreCompletes BY <1>4, IncumbentFits
<1>5. CASE PairStarts BY <1>5, PairFits
<1>6. CASE PairPassesAudit BY <1>6, PairAuditFits
<1>7. CASE ComparisonCompletes BY <1>7, ComparisonFits
<1>8. CASE StateIsWritten \/ ResultIsOpened BY <1>8, SavingFits
<1>13. CASE ResultIsRewritten \/ PairEnds \/ PairFailsLate
  BY <1>13, NoJobFits DEF ResultIsRewritten, PairEnds, PairFailsLate
<1>9. CASE StageRequests \/ StageFails \/ PairNeedsResearch
  BY <1>9, NoJobFits DEF StageRequests, StageFails, PairNeedsResearch, Stops
<1>10. CASE Crash BY <1>10, NoJobFits DEF Crash
<1>11. CASE UNCHANGED vars \/ StartUnified \/ ResearchUnified \/ UnifiedFails \/ UnifiedWrites
  BY <1>11, JobStays DEF vars, StartUnified, ResearchUnified, UnifiedFails, UnifiedWrites
<1>12. CASE SessionPrepares \/ SessionFinalizes \/ SessionWritesResult \/ SessionWritesState \/ SessionEnds
  BY <1>12, JobStays DEF SessionPrepares, SessionFinalizes, SessionWritesResult, SessionWritesState,
                         SessionEnds
<1> QED BY <1>1, <1>2, <1>3, <1>4, <1>5, <1>6, <1>7, <1>8, <1>9, <1>10, <1>11, <1>12, <1>13 DEF Next

-----------------------------------------------------------------------------
(* The session.                                                             *)

SessionFields == {"phase", "source", "previous", "sourceSeen", "previousSeen", "top", "incoming",
                  "decision", "written", "file", "open"}

LEMMA SessionFieldsAre == DOMAIN NoSession = SessionFields
BY DEF NoSession, SessionFields

LEMMA NoSessionFits ==
  ASSUME session' = NoSession
  PROVE  SessionInv'
BY DEF SessionInv, NoSession

LEMMA SessionStays ==
  ASSUME SessionInv, Grew, session' = session
  PROVE  SessionInv'
<1>1. session.phase \in {"prepared", "evidence"} =>
        RestsOn(session.source, session.previous, session.incoming)'
  BY RestsOnStays DEF SessionInv
<1>2. session.phase = "evidence" => DecisionFits(session.decision)' /\ session.open = {}
  BY DEF SessionInv, DecisionFits
<1>3. session.phase = "state" => session.written \in Chosen'
  BY DEF SessionInv, Grew, Chosen
<1> QED BY <1>1, <1>2, <1>3 DEF SessionInv

LEMMA PreparedFits ==
  ASSUME ResultsInv, SessionPrepares
  PROVE  SessionInv'
<1>1. PICK s \in Chosen, p \in Chosen, f \in {"result", "state"} :
        /\ results[s].status = "COMPLETE" /\ results[s].kind = "unified"
        /\ Resolved(results[p]) # NoStock
        /\ session' = [phase |-> "prepared", source |-> s, previous |-> p, file |-> f,
                       sourceSeen |-> results[s], previousSeen |-> results[p],
                       top |-> results[s].ranked, incoming |-> Resolved(results[p]),
                       decision |-> Blank, open |-> {}, written |-> 0]
  BY DEF SessionPrepares, Files
<1>2. Sound(results[s]) BY <1>1 DEF ResultsInv, ResultFits
<1>3. RestsOn(s, p, Resolved(results[p]))
  BY <1>1, <1>2, ResolvedIs DEF RestsOn
<1>4. /\ DOMAIN session' = SessionFields /\ session'.phase = "prepared" /\ session'.source = s
      /\ session'.previous = p /\ session'.incoming = Resolved(results[p])
  BY <1>1 DEF SessionFields
<1>5. RestsOn(session'.source, session'.previous, session'.incoming) BY <1>3, <1>4
<1>6. results' = results BY DEF SessionPrepares
<1>7. RestsOn(session.source, session.previous, session.incoming)'
  BY <1>5, <1>6 DEF RestsOn, Chosen
<1> QED BY <1>4, <1>7, SessionFieldsAre DEF SessionInv

LEMMA FinalizedFits ==
  ASSUME SessionInv, Grew, SessionFinalizes
  PROVE  SessionInv'
<1>1. session.phase = "prepared" /\ results' = results
  BY DEF SessionFinalizes
<1>2. PICK t \in Rankings(SetOf(session.top)) :
      \E action \in Actions(session.incoming, t[1]), open \in SessionOpens({t[1], session.incoming}) :
        session' = [session EXCEPT !.phase = "evidence", !.open = open,
          !.decision = [Ended("session", "COMPLETE") EXCEPT
            !.ranked = t, !.source = session.source, !.previous = session.previous,
            !.incoming = session.incoming, !.first = t[1], !.action = action,
            !.active = Outgoing(session.incoming, t[1], action),
            !.unaudited = results[session.source].unaudited,
            !.given = results[session.source].given]]
  BY Zenon DEF SessionFinalizes
<1>3. PICK action \in Actions(session.incoming, t[1]), open \in SessionOpens({t[1], session.incoming}) :
        session' = [session EXCEPT !.phase = "evidence", !.open = open,
          !.decision = [Ended("session", "COMPLETE") EXCEPT
            !.ranked = t, !.source = session.source, !.previous = session.previous,
            !.incoming = session.incoming, !.first = t[1], !.action = action,
            !.active = Outgoing(session.incoming, t[1], action),
            !.unaudited = results[session.source].unaudited,
            !.given = results[session.source].given]]
  BY <1>2, Zenon
<1>4. open = {} BY SessionIsEven
<1>5. DOMAIN session = SessionFields /\ RestsOn(session.source, session.previous, session.incoming)
  BY <1>1, SessionFieldsAre DEF SessionInv
<1>6. Sound(results[session.source]) BY <1>5 DEF RestsOn
<1> DEFINE e == Ended("session", "COMPLETE")
           o == Outgoing(session.incoming, t[1], action)
           u == results[session.source].unaudited
           g == results[session.source].given
           x == t[1]
           d == [e EXCEPT !.ranked = t, !.source = session.source, !.previous = session.previous,
                   !.incoming = session.incoming, !.first = x, !.action = action,
                   !.active = o, !.unaudited = u, !.given = g]
<1>7. DOMAIN e = ResultFields /\ e.kind = "session" BY EndedIs
<1>8. o \in {session.incoming, x} BY DEF Outgoing
<1>9. session' = [session EXCEPT !.phase = "evidence", !.open = open, !.decision = d] BY <1>3
<1>10. u \subseteq g BY <1>6 DEF Sound
<1> HIDE DEF e, o, u, g, x
<1>11. /\ DOMAIN d = ResultFields /\ d.kind = e.kind /\ d.previous = session.previous
       /\ d.incoming = session.incoming /\ d.first = x /\ d.active = o
       /\ d.unaudited = u /\ d.given = g
  BY <1>7 DEF ResultFields
<1> HIDE DEF d
<1>12. /\ DOMAIN session' = SessionFields /\ session'.phase = "evidence" /\ session'.decision = d
       /\ session'.source = session.source /\ session'.previous = session.previous
       /\ session'.incoming = session.incoming /\ session'.open = {}
  BY <1>4, <1>5, <1>9 DEF SessionFields
<1>13. RestsOn(session.source, session.previous, session.incoming)'
  BY <1>5, <1>12, RestsOnStays
<1>14. DecisionFits(session.decision)'
  BY <1>7, <1>8, <1>10, <1>11, <1>12, ResultFieldsAre DEF DecisionFits, Sound
<1> QED BY <1>12, <1>13, <1>14, SessionFieldsAre DEF SessionInv

LEMMA WrittenFits ==
  ASSUME ResultsInv, SessionInv, SessionWritesResult
  PROVE  SessionInv'
<1>1. /\ session' = [session EXCEPT !.phase = "state", !.written = Len(results) + 1]
      /\ results' = Append(results, session.decision)
  BY DEF SessionWritesResult, Write
<1>2. DOMAIN session = SessionFields BY SessionFieldsAre DEF SessionInv
<1>3. DOMAIN session' = SessionFields /\ session'.phase = "state" /\ session'.written = Len(results) + 1
  BY <1>1, <1>2 DEF SessionFields
<1>4. Len(results) \in Nat /\ Len(results') = Len(results) + 1
  <2>1. PICK S : results \in Seq(S) BY DEF ResultsInv
  <2> QED BY <1>1, <2>1, AppendIs
<1>5. session'.written \in Chosen' BY <1>3, <1>4 DEF Chosen
<1> QED BY <1>3, <1>5, SessionFieldsAre DEF SessionInv

LEMMA SessionNext ==
  ASSUME ResultsInv, SessionInv, Grew, [Next]_vars
  PROVE  SessionInv'
<1>1. CASE SessionPrepares BY <1>1, PreparedFits
<1>2. CASE SessionFinalizes BY <1>2, FinalizedFits
<1>3. CASE SessionWritesResult BY <1>3, WrittenFits
<1>4. CASE SessionWritesState \/ SessionEnds
  BY <1>4, NoSessionFits DEF SessionWritesState, SessionEnds
<1>5. CASE UNCHANGED vars \/ StartUnified \/ ResearchUnified \/ UnifiedFails \/ UnifiedWrites \/ Crash
  BY <1>5, SessionStays DEF vars, StartUnified, ResearchUnified, UnifiedFails, UnifiedWrites, Crash
<1>6. CASE TopFiveStarts \/ SupplementCompletes \/ SupplementFails \/ FinalRankingCompletes
           \/ IncumbentCompletes \/ PairStarts \/ RescoreCompletes \/ PairPassesAudit \/ PairEnds
  BY <1>6, SessionStays DEF TopFiveStarts, SupplementCompletes, SupplementFails, FinalRankingCompletes,
                            IncumbentCompletes, PairStarts, RescoreCompletes, PairPassesAudit, PairEnds
<1>7. CASE StageRequests \/ StageFails \/ PairNeedsResearch
  BY <1>7, SessionStays DEF StageRequests, StageFails, PairNeedsResearch, Stops
<1>8. CASE ComparisonCompletes \/ StateIsWritten \/ ResultIsOpened \/ ResultIsRewritten \/ PairFailsLate
  BY <1>8, SessionStays DEF ComparisonCompletes, StateIsWritten, ResultIsOpened, ResultIsRewritten,
                            PairFailsLate
<1> QED BY <1>1, <1>2, <1>3, <1>4, <1>5, <1>6, <1>7, <1>8 DEF Next

-----------------------------------------------------------------------------
(* The theorems.                                                            *)

LEMMA InvInit == Init => Inv
<1> SUFFICES ASSUME Init PROVE Inv OBVIOUS
<1>1. NoMarks \in [Stocks -> Marks] BY DEF NoMarks, Marks
<1>2. UnifiedInv BY <1>1 DEF Init, UnifiedInit, UnifiedInv, Researching
<1>3. PICK s \in Confirmed : results = <<[Blank EXCEPT !.active = s, !.state = TRUE]>>
  BY DEF Init
<1> DEFINE r == [Blank EXCEPT !.active = s, !.state = TRUE]
<1>4. DOMAIN r = DOMAIN Blank /\ r.kind = "initial" /\ r.ranked = <<>>
  BY DEF Blank
<1> HIDE DEF r
<1>5. results = <<r>> /\ Chosen = {1} /\ results[1] = r
  BY <1>3 DEF Chosen, r
<1>6. results \in Seq(SetOf(results))
  <2>1. results \in Seq({r}) BY <1>5
  <2> QED BY <2>1, RangeIs
<1>7. ResultsInv BY <1>4, <1>5, <1>6 DEF ResultsInv, ResultFits, DecidedResults
<1>8. JobInv BY DEF Init, JobInv, NoJob, Saving
<1>9. SessionInv BY DEF Init, SessionInv, NoSession
<1> QED BY <1>2, <1>7, <1>8, <1>9 DEF Inv

\* A decision that was not there before is a comparison's, or a session's,
\* whose audit has been made.
LEMMA NewDecisionIsEven ==
  ASSUME Inv, ResultsInv', Grew, [Next]_vars, NEW i \in DecidedResults', i \notin DecidedResults
  PROVE  IF results'[i].kind = "session"
           THEN session.open = {}
           ELSE job.exposed \cap (job.seen \cup Given) = {}
<1>1. i \notin Chosen
  BY DEF DecidedResults, Grew, Kept
<1>2. ASSUME NEW r, Write(r) PROVE i = Len(results) + 1 /\ results'[i] = r /\ r.active # NoStock
  <2>1. PICK S : results \in Seq(S) BY DEF Inv, ResultsInv
  <2>2. /\ Len(results) \in Nat /\ Len(results') = Len(results) + 1
        /\ results'[Len(results) + 1] = r
    BY <1>2, <2>1, AppendIs DEF Write
  <2>3. i \in 1..(Len(results) + 1) BY <2>2 DEF DecidedResults, Chosen
  <2>4. i = Len(results) + 1 BY <1>1, <2>2, <2>3 DEF Chosen
  <2> QED BY <2>2, <2>4 DEF DecidedResults
<1>3. ASSUME Len(results') = Len(results) PROVE FALSE
  BY <1>1, <1>3 DEF DecidedResults, Chosen
<1>4. CASE ComparisonCompletes
  <2>1. PICK action \in Actions(job.incoming, job.first), more \in LaterGaps : Write(Decided(action, more))
    BY <1>4 DEF ComparisonCompletes
  <2>2. job.phase = "compare" BY <1>4 DEF ComparisonCompletes
  <2>3. JobInv BY DEF Inv
  <2>4. results'[i].kind = job.script BY <1>2, <2>1, <2>2, <2>3, DecidedIs
  <2> QED BY <2>2, <2>3, <2>4 DEF JobInv
<1>5. CASE SessionWritesResult
  <2>1. session.phase = "evidence" /\ Write(session.decision) BY <1>5 DEF SessionWritesResult
  <2>2. session.open = {} /\ session.decision.kind = "session"
    BY <2>1 DEF Inv, SessionInv, DecisionFits
  <2> QED BY <1>2, <2>1, <2>2
<1>6. CASE UnifiedWrites
  <2>1. ASSUME NEW status, Write(Ended("unified", status)) PROVE FALSE
    BY <1>2, <2>1, EndedIs
  <2>2. CASE stage = "complete"
    <3> DEFINE e == Ended("unified", "COMPLETE")
               l == SetOf(candidates)
               u == {s \in SetOf(candidates) : deep[s] # "passed"}
               g == {s \in Stocks : earlier[s] = "plain"}
               r == [e EXCEPT !.ranked = ranking, !.listed = l, !.unaudited = u, !.given = g]
    <3>1. Write(r) BY <1>6, <2>2 DEF UnifiedWrites
    <3>2. DOMAIN e = ResultFields /\ e.active = NoStock BY EndedIs
    <3> HIDE DEF e, l, u, g
    <3>3. r.active = NoStock BY <3>2 DEF ResultFields
    <3> HIDE DEF r
    <3> QED BY <1>2, <3>1, <3>3
  <2>3. CASE stage = "incomplete" BY <1>6, <2>1, <2>3 DEF UnifiedWrites
  <2>4. CASE stage = "pending" BY <1>6, <2>1, <2>4 DEF UnifiedWrites
  <2> QED BY <1>6, <2>2, <2>3, <2>4 DEF UnifiedWrites
<1>7. CASE StageRequests \/ StageFails \/ PairNeedsResearch
  <2> DEFINE x == IF job.script = "topfive" THEN job.incoming ELSE NoStock
  <2>1. PICK status : Write([Ended(job.script, status) EXCEPT !.incoming = x])
    BY <1>7 DEF StageRequests, StageFails, PairNeedsResearch, Stops
  <2> DEFINE e == Ended(job.script, status)
             r == [e EXCEPT !.incoming = x]
  <2>2. DOMAIN e = ResultFields /\ e.active = NoStock BY EndedIs
  <2>3. Write(r) BY <2>1
  <2> HIDE DEF e, x
  <2>4. r.active = NoStock BY <2>2 DEF ResultFields
  <2> HIDE DEF r
  <2> QED BY <1>2, <2>3, <2>4
<1>8. CASE StateIsWritten \/ ResultIsOpened \/ ResultIsRewritten \/ PairFailsLate \/ SessionWritesState
  <2>1. PICK S : results \in Seq(S) BY DEF Inv, ResultsInv
  <2>2. Len(results') = Len(results)
    <3>1. DOMAIN results' = DOMAIN results
      BY <1>8, <2>1 DEF StateIsWritten, ResultIsOpened, ResultIsRewritten, PairFailsLate, SessionWritesState
    <3>2. Len(results) \in Nat /\ DOMAIN results = 1..Len(results) BY <2>1
    <3>3. PICK T : results' \in Seq(T) BY DEF ResultsInv
    <3> QED BY <3>1, <3>2, <3>3
  <2> QED BY <1>3, <2>2
<1>9. CASE UNCHANGED vars \/ StartUnified \/ ResearchUnified \/ UnifiedFails
  BY <1>3, <1>9 DEF vars, StartUnified, ResearchUnified, UnifiedFails
<1>10. CASE TopFiveStarts \/ SupplementCompletes \/ SupplementFails \/ FinalRankingCompletes
            \/ IncumbentCompletes \/ PairStarts \/ RescoreCompletes \/ PairPassesAudit \/ PairEnds
  BY <1>3, <1>10 DEF TopFiveStarts, SupplementCompletes, SupplementFails, FinalRankingCompletes,
                     IncumbentCompletes, PairStarts, RescoreCompletes, PairPassesAudit, PairEnds
<1>11. CASE SessionPrepares \/ SessionFinalizes \/ SessionEnds \/ Crash
  BY <1>3, <1>11 DEF SessionPrepares, SessionFinalizes, SessionEnds, Crash
<1> QED BY <1>4, <1>5, <1>6, <1>7, <1>8, <1>9, <1>10, <1>11 DEF Next

LEMMA InvNext == Inv /\ [Next]_vars => Inv' /\ Survive /\ Grew
<1> SUFFICES ASSUME Inv, [Next]_vars PROVE Inv' /\ Survive /\ Grew OBVIOUS
<1>1. UnifiedInv /\ ResultsInv /\ JobInv /\ SessionInv BY DEF Inv
<1>2. ResultsInv' /\ Grew /\ Survive BY <1>1, ResultsNext
<1>3. UnifiedInv' /\ JobInv' /\ SessionInv' BY <1>1, <1>2, UnifiedNext, JobNext, SessionNext
<1> QED BY <1>2, <1>3 DEF Inv

LEMMA InvAlways == Spec => []Inv
<1>1. Inv /\ [Next]_vars => Inv' BY InvNext
<1> QED BY InvInit, <1>1, PTL DEF Spec

\* Whatever runs were resumed, failed, crashed or were left open on the way,
\* every decided comparison rests on a unified research whose candidates all
\* passed the evidence audit, except those whose research it was given from
\* before there was one, and on a further research of each of the best ones
\* and of the incumbent: a resumed run takes over nothing else, and each
\* script stops at the first stock that fails.
THEOREM DecisionsAreAudited == Spec => []RestsOnAuditedResearch
<1>1. Inv => RestsOnAuditedResearch BY DEF Inv, ResultsInv, RestsOnAuditedResearch, Sound
<1> QED BY <1>1, InvAlways, PTL

\* No step decides a comparison on lopsided evidence while a round of targeted
\* research remains: a script's audit looks at its own assessments and at those
\* of the result.json it was given, a session's at its own only.
THEOREM DecisionsAreEven == Spec => DecidedOnEvenEvidence
<1>1. Inv /\ [Next]_vars
        => [\A i \in DecidedResults' \ DecidedResults :
              IF results'[i].kind = "session"
                THEN session.open = {}
                ELSE job.exposed \cap (job.seen \cup Given) = {}]_vars
  <2> SUFFICES ASSUME Inv, [Next]_vars, NEW i \in DecidedResults' \ DecidedResults
               PROVE  IF results'[i].kind = "session"
                        THEN session.open = {}
                        ELSE job.exposed \cap (job.seen \cup Given) = {}
    OBVIOUS
  <2>1. Grew /\ ResultsInv' BY InvNext DEF Inv
  <2> QED BY <2>1, NewDecisionIsEven
<1> QED BY <1>1, InvAlways, PTL DEF Spec, DecidedOnEvenEvidence

\* A decision continues the selection that a result before it retained, and
\* every stock that is selected won a comparison or was confirmed at the
\* start: resolve_active_selection never takes a mere ranking for a selection.
THEOREM SelectionContinues == Spec => []ContinuesTheSelection
<1>1. Inv => ContinuesTheSelection
  <2> SUFFICES ASSUME Inv, NEW i \in DecidedResults
               PROVE  /\ results[i].incoming = results[results[i].previous].active
                      /\ results[i].active \in {results[i].incoming, results[i].first}
                      /\ Earned(i)
    BY DEF ContinuesTheSelection, Earned
  <2>1. Continues(i) BY DEF Inv, ResultsInv
  <2> QED BY <2>1 DEF Continues
<1> QED BY <1>1, InvAlways, PTL

\* What a result retains is never lost or replaced: not while the result is
\* written again, where only active_selection.json still says it, and not by
\* any later run; only a recheck that cannot save its selection takes it back.
THEOREM SelectionIsKept == Spec => SelectionSurvives
<1>1. Inv /\ [Next]_vars
        => [\A i \in Chosen : Resolved(results[i]) # NoStock =>
              \/ Resolved(results'[i]) = Resolved(results[i])
              \/ results[i].kind = "pair" /\ ~ results[i].state /\ results'[i].status = "FAILED"]_vars
  BY InvNext DEF Survive, Survives
<1> QED BY <1>1, InvAlways, PTL DEF Spec, SelectionSurvives

=============================================================================
