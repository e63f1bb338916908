--------------------------- MODULE LunaScreening ---------------------------
(***************************************************************************)
(* Luna's screening of the universe: LunaScreeningAgent.screen and         *)
(* LunaSolPipeline._screen_batched and _screen_final_candidates of         *)
(* src/src/llm_agent.py.                                                   *)
(*                                                                         *)
(* The universe is cut into batches; a batch that the gateway could not    *)
(* digest is cut in halves; one that fails for good fails the screening.   *)
(* What the batches pick is merged, and is compared once more as a whole,  *)
(* by way of partitions when it is too long for one request.               *)
(*                                                                         *)
(* A row of the universe is its place in it, a batch a range of places.    *)
(***************************************************************************)
EXTENDS Naturals, Sequences

CONSTANTS
  UniverseSize,     \* bound on the rows of a snapshot
  LunaMax,          \* max_candidates of the agent
  BatchSize, MinBatch, BatchTopK,   \* luna_screen_batch_size, luna_min_batch_size, luna_screen_batch_top_k
  FinalMax, FinalTopK               \* luna_final_max_candidates, luna_final_top_k

\* The configurations that _screen_batched accepts.
ASSUME ScreeningAssumption ==
  /\ UniverseSize \in Nat \ {0} /\ LunaMax \in Nat \ {0}
  /\ BatchSize \in Nat /\ MinBatch \in 1..BatchSize
  /\ BatchTopK \in Nat \ {0}
  /\ FinalMax \in Nat /\ FinalTopK \in 1..FinalMax

Symbols == 1..UniverseSize
Outside == UniverseSize + 1     \* a symbol that no snapshot has
Named   == Symbols \cup {Outside}

VARIABLES
  rows,      \* how many rows the snapshot has
  stage,     \* of the screening
  todo,      \* the batches still to run, the next one first
  covered,   \* the symbols of the completed batches
  merged,    \* what they picked, in the order of the picks
  groups,    \* the partitions still to compare
  staged,    \* what they picked
  final      \* the final candidates

luna == <<rows, stage, todo, covered, merged, groups, staged, final>>

Stages == {"off", "whole", "batches", "partitions", "global", "done", "incomplete", "failed"}

Clear == <<>>

Universe == 1..rows

LunaInit ==
  /\ rows = 0 /\ stage = "off"
  /\ todo = Clear /\ covered = {} /\ merged = Clear
  /\ groups = Clear /\ staged = Clear /\ final = Clear

-----------------------------------------------------------------------------
(* One request to Luna.                                                     *)

SetOf(s) == {s[i] : i \in DOMAIN s}

Smaller(a, b) == IF a < b THEN a ELSE b

AnyPicks(limit) == UNION {[1..n -> Named] : n \in 1..Smaller(limit, LunaMax)}

\* Candidates that screen lets pass: at least one, no more than the limit, no
\* symbol twice, and none outside the rows it was sent.
Picks(sent, limit) ==
  {p \in AnyPicks(limit) :
     /\ SetOf(p) \subseteq sent
     /\ \A i, j \in DOMAIN p : p[i] = p[j] => i = j}

\* dict.setdefault, for one pick after the other.
Kept(s, x) == IF x \in SetOf(s) THEN s ELSE Append(s, x)

Added(s, p) ==
  LET after[k \in 0 .. Len(p)] == IF k = 0 THEN s ELSE Kept(after[k - 1], p[k])
  IN  after[Len(p)]

-----------------------------------------------------------------------------
(* The batches.                                                             *)

Batch(first, last) == [first |-> first, last |-> last]
Covers(b) == b.first .. b.last
Size(b) == (b.last + 1) - b.first

InitialBatches ==
  [k \in 1 .. ((rows + BatchSize - 1) \div BatchSize) |->
     Batch((k - 1) * BatchSize + 1, Smaller(k * BatchSize, rows))]

StartBatches ==
  /\ stage = "off"
  /\ rows >= BatchSize
  /\ stage' = "batches"
  /\ todo' = InitialBatches
  /\ UNCHANGED <<rows, covered, merged, groups, staged, final>>

BatchCompletes ==
  /\ stage = "batches" /\ todo # Clear
  /\ \E p \in Picks(Covers(Head(todo)), BatchTopK) : merged' = Added(merged, p)
  /\ covered' = covered \cup Covers(Head(todo))
  /\ todo' = Tail(todo)
  /\ UNCHANGED <<rows, stage, groups, staged, final>>

HalvesBeside(b) ==   \* a row lost between the halves
  LET middle == b.first + Size(b) \div 2 IN
  <<Batch(b.first, middle - 1), Batch(Smaller(middle + 1, b.last), b.last)>>

Halves(b) ==
  LET middle == b.first + Size(b) \div 2 IN
  <<Batch(b.first, middle - 1), Batch(middle, b.last)>>

Splits(b) ==
  /\ Size(b) >= 2 * MinBatch
  /\ \A i \in 1..2 : Size(Halves(b)[i]) >= MinBatch

\* A time-out, an overload or a request that was too large.
BatchSplits ==
  /\ stage = "batches" /\ todo # Clear /\ Splits(Head(todo))
  /\ todo' = Halves(Head(todo)) \o Tail(todo)
  /\ UNCHANGED <<rows, stage, covered, merged, groups, staged, final>>

\* Any other error, or one of those at the smallest size.
BatchFails ==
  /\ stage = "batches" /\ todo # Clear
  /\ stage' = "incomplete"
  /\ UNCHANGED <<rows, todo, covered, merged, groups, staged, final>>

-----------------------------------------------------------------------------
(* The final comparison.                                                    *)

GroupCount(n) == (n + FinalMax - 1) \div FinalMax

\* candidates[index::group_count]
EveryNth(s, index, step) ==
  [k \in 1 .. ((Len(s) + step - index) \div step) |-> s[(k - 1) * step + index]]

Partitions(s) == [i \in 1..GroupCount(Len(s)) |-> EveryNth(s, i, GroupCount(Len(s)))]

KeepPerGroup(n) == (FinalMax + GroupCount(n) - 1) \div GroupCount(n)

Truncated(s) == SubSeq(s, 1, Smaller(Len(s), FinalMax))

\* The check for missing symbols, and the way the merged candidates go.
MergeEnds ==
  /\ stage = "batches" /\ todo = Clear
  /\ IF covered # Universe
       THEN stage' = "incomplete" /\ UNCHANGED <<groups, staged>>
     ELSE IF Len(merged) <= FinalMax
       THEN stage' = "global" /\ staged' = merged /\ UNCHANGED groups
       ELSE stage' = "partitions" /\ groups' = Partitions(merged) /\ UNCHANGED staged
  /\ UNCHANGED <<rows, todo, covered, merged, final>>

\* The limit of a partition never exceeds its length.
PartitionCompletes ==
  /\ stage = "partitions" /\ groups # Clear
  /\ \E p \in Picks(SetOf(Head(groups)), Smaller(KeepPerGroup(Len(merged)), Len(Head(groups)))) :
       staged' = Added(staged, p)
  /\ groups' = Tail(groups)
  /\ UNCHANGED <<rows, stage, todo, covered, merged, final>>

PartitionsEnd ==
  /\ stage = "partitions" /\ groups = Clear
  /\ stage' = "global"
  /\ staged' = Truncated(staged)
  /\ UNCHANGED <<rows, todo, covered, merged, groups, final>>

GlobalCompletes ==
  /\ stage = "global"
  /\ \E p \in Picks(SetOf(staged), FinalTopK) : final' = p
  /\ stage' = "done"
  /\ UNCHANGED <<rows, todo, covered, merged, groups, staged>>

\* Any error of these requests; it is no ScreeningIncompleteError.
FinalFails ==
  /\ stage \in {"partitions", "global", "whole"}
  /\ stage' = "failed"
  /\ UNCHANGED <<rows, todo, covered, merged, groups, staged, final>>

\* A universe shorter than a batch is screened in one request.
StartWhole ==
  /\ stage = "off"
  /\ rows \in 1 .. (BatchSize - 1)
  /\ stage' = "whole"
  /\ UNCHANGED <<rows, todo, covered, merged, groups, staged, final>>

WholeCompletes ==
  /\ stage = "whole"
  /\ \E p \in Picks(Universe, LunaMax) : final' = p
  /\ covered' = Universe
  /\ stage' = "done"
  /\ UNCHANGED <<rows, todo, merged, groups, staged>>

LunaNext ==
  \/ StartBatches \/ BatchCompletes \/ BatchSplits \/ BatchFails
  \/ MergeEnds \/ PartitionCompletes \/ PartitionsEnd \/ GlobalCompletes \/ FinalFails
  \/ StartWhole \/ WholeCompletes

-----------------------------------------------------------------------------

\* A batch that is cut loses no row and doubles none: what is covered and what
\* is still to do make up the universe, and no row is in two places
\* (_screen_batched; the check for missing symbols must never have a reason).
EveryRowOnce ==
  stage = "batches" =>
    /\ Universe = covered \cup UNION {Covers(todo[i]) : i \in DOMAIN todo}
    /\ \A i \in DOMAIN todo :
         /\ Covers(todo[i]) \cap covered = {}
         /\ \A j \in DOMAIN todo : i # j => Covers(todo[i]) \cap Covers(todo[j]) = {}

=============================================================================
