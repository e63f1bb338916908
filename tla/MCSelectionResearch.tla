------------------------ MODULE MCSelectionResearch ------------------------
(* Three stocks, of which two make a ranking; the saved decisions propose   *)
(* two of them or all three.                                                *)
EXTENDS SelectionResearch, TLC

CONSTANTS a, b, c

MCStocks == {a, b, c}
MCConfirmed == {c}
MCCandidateLists == {<<a, b>>, <<a, b, c>>}
MCOldEvents == {[s \in MCStocks |-> IF s = b THEN "plain" ELSE "none"]}

\* States that differ only in what no step reads any more are one: the events
\* of a research after the last one, what a result says that decides nothing,
\* whether a report was made, what the audit saw of a pair that is decided,
\* and, once no result can follow, the gaps of the results and a run that has
\* yet to write its own.
FullOf == Len(results) = MaxResults
LastResearch == Cardinality({i \in Chosen : results[i].listed # {}}) = MaxUnified

Read(r) ==
  IF r.status \in Unfinished /\ r.active = NoStock
    THEN Ended("unified", "FAILED")
    ELSE [r EXCEPT !.reported = FALSE, !.gaps = IF FullOf THEN {} ELSE @]

MCView ==
  <<[i \in Chosen |-> Read(results[i])],
    IF FullOf /\ session.phase # "state" THEN NoSession ELSE session,
    IF job.phase = "compare" /\ ~ FullOf THEN job
      ELSE IF FullOf /\ job.phase \notin {"state", "said", "report", "rewrite"} THEN NoJob
      ELSE [job EXCEPT !.seen = {}, !.exposed = {}],
    IF FullOf THEN <<>>
      ELSE <<candidates, stage, index, deep, failures, earlier, ranking,
             IF LastResearch THEN NoMarks ELSE events>>>>

=============================================================================
