------------------------------- MODULE Sinks -------------------------------
(***************************************************************************)
(* What the sinks of a pipeline hold, how two partial ones merge and what  *)
(* they return (src/src/exec/ops, src/src/exec/agg/hash.rs), and the       *)
(* answer each must give, defined without workers or merges.               *)
(*                                                                         *)
(* A row is [id, key, n]: its position in the table, its sort or group key *)
(* and how many rows it stands for (1 until rows are grouped).  A batch is *)
(* a sequence of rows, and a row is one byte of the memory budget.  A      *)
(* stage of a plan is a record with the field sink, the set keep of the    *)
(* keys its filter lets through, and limit, offset or k.                   *)
(***************************************************************************)
EXTENDS Integers, SequencesExt

CONSTANTS BatchRows   \* BATCH_ROWS

ASSUME SinksAssumption == BatchRows \in Nat \ {0}

NoLimit == -1

Rows == [id : Nat, key : Int, n : Nat \ {0}]
StageType ==
    [sink : {"collect", "sort", "limit", "topk", "aggregate"}, keep : SUBSET Int,
     limit : Nat \cup {NoLimit}, offset : Nat, k : Nat]

\* concat_batches.
Concat(batches) == FlattenSeq(batches)
FirstRows(rows, n) == SubSeq(rows, 1, Min({n, Len(rows)}))

\* sort_indices: a stable sort by key.
StableSort(rows) ==
    LET Before(i, j) == \/ rows[i].key < rows[j].key
                        \/ rows[i].key = rows[j].key /\ i < j
        At(n) == CHOOSE i \in DOMAIN rows :
                    Cardinality({j \in DOMAIN rows : Before(j, i)}) = n - 1
    IN  [n \in DOMAIN rows |-> rows[At(n)]]

\* rechunk: batches of at most BatchRows rows, none empty.
Rechunk(rows) ==
    [b \in 1 .. (Len(rows) + BatchRows - 1) \div BatchRows |->
        SubSeq(rows, (b - 1) * BatchRows + 1, Min({b * BatchRows, Len(rows)}))]

\* The rows that are in S, in their order.
RowsIn(rows, S) ==
    LET kept[i \in 0 .. Len(rows)] ==
            IF i = 0 THEN <<>>
            ELSE IF rows[i] \in S THEN Append(kept[i - 1], rows[i]) ELSE kept[i - 1]
    IN  kept[Len(rows)]

\* How many rows have key k.
CountOf(rows, k) == SumFunction([i \in DOMAIN rows |-> IF rows[i].key = k THEN rows[i].n ELSE 0])

\* group_of and the count accumulator: one row per key, in order of arrival.
Grouped(rows) ==
    LET First(i) == \A j \in 1 .. i - 1 : rows[j].key # rows[i].key
        all == [i \in DOMAIN rows |->
                  [id |-> 0, key |-> rows[i].key,
                   n |-> IF First(i) THEN CountOf(rows, rows[i].key) ELSE 0]]
    IN  RowsIn(all, {r \in Range(all) : r.n > 0})

-----------------------------------------------------------------------------
(* The sinks.  held is the sequence of batches a sink has kept.            *)

\* Filter: no batch comes out when no row passes.
Filtered(stage, batch) == RowsIn(batch, {r \in Range(batch) : r.key \in stage.keep})

\* LimitSink::bound.
Bound(stage) == stage.offset + stage.limit

LimitPush(stage, held, batch) ==
    LET rows == Len(Concat(held))
        kept == IF stage.limit = NoLimit THEN batch
                ELSE FirstRows(batch, IF rows > Bound(stage) THEN 0 ELSE Bound(stage) - rows)
    IN  IF stage.limit = 0 \/ kept = <<>> THEN held ELSE Append(held, kept)

\* Mutant: only the new batch is sorted, not what is held with it.
TopKOfBatch(stage, held, batch) ==
    IF stage.k = 0 THEN held
    ELSE <<FirstRows(Concat(held) \o StableSort(batch), stage.k)>>

\* TopKSink::fold_in.
TopKPush(stage, held, batch) ==
    IF stage.k = 0 THEN held
    ELSE <<FirstRows(StableSort(Concat(held) \o batch), stage.k)>>

SinkPush(stage, held, batch) ==
    CASE stage.sink \in {"collect", "sort"} -> Append(held, batch)
      [] stage.sink = "limit"     -> LimitPush(stage, held, batch)
      [] stage.sink = "topk"      -> TopKPush(stage, held, batch)
      [] stage.sink = "aggregate" -> <<Grouped(Concat(held) \o batch)>>

SinkDone(stage, held) ==
    CASE stage.sink = "limit" -> /\ stage.limit # NoLimit
                                 /\ \/ stage.limit = 0
                                    \/ Len(Concat(held)) >= Bound(stage)
      [] stage.sink = "topk"  -> stage.k = 0
      [] OTHER                -> FALSE

\* What the sink's reservation is for.
Bytes(held) == Len(Concat(held))

\* The other partial's batches are pushed one after the other.
SinkMerge(stage, held, other) ==
    FoldLeft(LAMBDA h, batch : SinkPush(stage, h, batch), held, other)

SinkFinish(stage, held) ==
    LET rows == Concat(held)
    IN  CASE stage.sink = "sort"  -> Rechunk(StableSort(rows))
          [] stage.sink = "limit" -> Rechunk(SubSeq(rows, stage.offset + 1, Len(rows)))
          [] stage.sink = "topk"  -> held
          [] OTHER                -> Rechunk(rows)

-----------------------------------------------------------------------------
(* What a stage must answer over the rows of its input, which arrive in no *)
(* particular order.                                                       *)

Matching(stage, rows) == RowsIn(rows, {r \in Range(rows) : r.key \in stage.keep})
Keys(rows) == [i \in DOMAIN rows |-> rows[i].key]
\* The same rows, each as often.
SameRows(out, in) == ToBag(out) = ToBag(in)
\* Some of the rows, none more often than it is there.
SomeRows(out, in) ==
    \A r \in Range(out) : Cardinality({i \in DOMAIN out : out[i] = r})
                            <= Cardinality({i \in DOMAIN in : in[i] = r})
AtLeast0(n) == IF n < 0 THEN 0 ELSE n

StageAnswer(stage, input, out) ==
    LET in == Matching(stage, input)
        left == AtLeast0(Len(in) - stage.offset)
    IN  CASE stage.sink \in {"collect", "sort"} -> SameRows(out, in)
          [] stage.sink = "limit" ->
                /\ SomeRows(out, in)
                /\ Len(out) = IF stage.limit = NoLimit THEN left ELSE Min({stage.limit, left})
          [] stage.sink = "topk" ->
                /\ SomeRows(out, in)
                /\ Keys(out) = FirstRows(Keys(StableSort(in)), stage.k)
          [] stage.sink = "aggregate" ->
                /\ \A i \in DOMAIN out :
                      out[i] = [id |-> 0, key |-> out[i].key, n |-> CountOf(in, out[i].key)]
                /\ {r.key : r \in Range(out)} = {r.key : r \in Range(in)}
                /\ \A i, j \in DOMAIN out : out[i].key = out[j].key => i = j
=============================================================================
