------------------------------ MODULE MCQuery ------------------------------
(***************************************************************************)
(* Instances of Query for TLC: small tables and the shapes of plan that    *)
(* the SQL planner makes.                                                  *)
(***************************************************************************)
EXTENDS Query

Row(i, k) == [id |-> i, key |-> k, n |-> 1]

\* Two row groups in a segment, then a segment whose smallest key is the table's.
\* In the second table a segment is pruned to nothing and two batches are buffered.
TwoSegments ==
    [segments |-> << <<<<Row(1, 2)>>, <<Row(2, 1)>>>>, <<<<Row(3, 1), Row(4, 0)>>>> >>,
     buffered |-> <<>>]
WithBuffered ==
    [segments |-> << <<>> >>, buffered |-> << <<<<Row(1, 1)>>>>, <<<<Row(2, 0)>>>> >>]
SmallTables == {TwoSegments, WithBuffered}
OneTable == {TwoSegments}

AllKeys == 0 .. 2
StageOf(sink, keep, l, o, k) ==
    [sink |-> sink, keep |-> keep, limit |-> l, offset |-> o, k |-> k]
CollectStage == StageOf("collect", AllKeys, 0, 0, 0)

WherePlan  == <<StageOf("collect", {0, 1}, 0, 0, 0)>>
LimitPlan  == <<StageOf("limit", AllKeys, 1, 1, 0), CollectStage>>
TopPlan    == <<StageOf("topk", AllKeys, 0, 0, 2), StageOf("limit", AllKeys, 1, 1, 0), CollectStage>>
GroupPlan  == <<StageOf("aggregate", AllKeys, 0, 0, 0), CollectStage>>
SortPlan   == <<StageOf("sort", AllKeys, 0, 0, 0), CollectStage>>
OffsetPlan == <<StageOf("sort", AllKeys, 0, 0, 0), StageOf("limit", AllKeys, NoLimit, 1, 0), CollectStage>>

AllPlans == {WherePlan, LimitPlan, OffsetPlan, TopPlan, GroupPlan}
OrderByPlan == {SortPlan}
=============================================================================
