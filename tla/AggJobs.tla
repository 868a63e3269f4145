------------------------------ MODULE AggJobs ------------------------------
(***************************************************************************)
(* Checks of aggregation, joins and the gathering of rows.  An aggregation  *)
(* is split over two sinks that meet their groups in their own orders; the  *)
(* second is merged into the first once state by state and once through     *)
(* the encoded states.                                                      *)
(***************************************************************************)
EXTENDS Aggregates, ExprJobs

Fl(h) == Val("FLOAT64", h)
UIntV(n) == Val("UINT64", n)
AggFn(fn, ty) == [fn |-> fn, ty |-> ty, key |-> Ty("FLOAT64"), q |-> 0, k |-> 1]
IntTy == Ty("INT64")
FlTy == Ty("FLOAT64")
FloatArgs == {Null, Fl(NaN), Fl(NegZero), Fl(0), Fl(3)}
DecArgs(ns) == {Null} \cup {Decimal(n, 1)[1] : n \in ns}
\* Functions with the arguments they are given.
AggCases ==
    {<<AggFn(fn, IntTy), {Null, IntV(1)}>> : fn \in {"CountStar", "Count"}}
      \cup {<<AggFn("Sum", IntTy), {Null, IntV(IntMax), IntV(1), IntV(-1)}>>,
            <<AggFn("Sum", Ty("UINT64")), {UIntV(0), UIntV(UIntMax), UIntV(1)}>>,
            <<AggFn("Sum", DecTy(3, 1)), DecArgs({999, -999, 1})>>,
            <<AggFn("Sum", FlTy), {Null, Fl(Inf), Fl(-Inf), Fl(3), Fl(NegZero)}>>,
            <<AggFn("Avg", IntTy), {Null, IntV(1), IntV(-4)}>>,
            <<AggFn("Avg", DecTy(3, 1)), DecArgs({5, -10})>>,
            <<AggFn("Avg", FlTy), {Null, Fl(1), Fl(-4)}>>}
      \cup {<<AggFn(fn, FlTy), FloatArgs>> : fn \in {"Min", "Max", "CountDistinct", "Histogram"}}
      \cup {<<AggFn("ArgMin", IntTy), {Null, IntV(1)}>>, <<AggFn("ArgMax", IntTy), {Null, IntV(1)}>>,
            <<AggFn("ListAgg", IntTy), {Null, IntV(1), IntV(2)}>>,
            <<AggFn("ApproxCountDistinct", IntTy), {IntV(n) : n \in 1 .. 4}>>}
      \cup {<<[AggFn("Quantile", FlTy) EXCEPT !.q = q], {Null, Fl(NaN), Fl(NegZero), Fl(3)}>> : q \in {0, 1}}
      \cup {<<[AggFn("ApproxQuantile", FlTy) EXCEPT !.q = q], {Null, Fl(NaN), Fl(-5), Fl(-2), Fl(0), Fl(3), Fl(Inf)}>> : q \in 0 .. 2}
Second(f) == IF f.fn \in {"ArgMin", "ArgMax"} THEN {Null, Fl(NegZero), Fl(0), Fl(NaN)} ELSE {Null}
\* A row: the group, the two arguments and the filter.
AggRows(case, by) ==
    LET tags == IF by THEN {<<Fl(0), Bool(TRUE)>>, <<Fl(NegZero), Bool(TRUE)>>, <<Null, Bool(TRUE)>>, <<Fl(0), Null>>}
                ELSE {<<Null, Bool(TRUE)>>, <<Null, Bool(FALSE)>>}
    IN {<<t[1], v, k, t[2]>> : t \in tags, v \in case[2], k \in Second(case[1])}
AggSplit(rows) == {<<a, b>> : a \in SeqOf(rows, IF Cardinality(rows) > 12 THEN 1 ELSE 2), b \in SeqOf(rows, 1)}

JoinKeys == {<<Ty("STRING"), Ty("STRING")>>, <<FlTy>>, <<ListType(IntTy)[1]>>}
JoinRows(types) ==
    CASE Len(types) = 2 -> {<<Str(<<1>>), Str(<<1, 1>>)>>, <<Str(<<1, 1>>), Str(<<1>>)>>, <<Str(<<1>>), Str(<<1>>)>>, <<Str(<<1>>), Null>>}
      [] types[1] = FlTy -> {<<v>> : v \in {Null, Fl(NaN), Fl(NegZero), Fl(0)}}
      [] OTHER -> {<<v>> : v \in {Null, Seqv("LIST", <<>>), Seqv("LIST", <<IntV(1)>>), Seqv("LIST", <<Null>>)}}
GatherCols ==
    UNION {{from_values(c[1], vs).b : vs \in SeqOf(c[2], 2)} :
        c \in {<<IntTy, {Null, IntV(1), IntV(2)}>>, <<Ty("BOOL"), {Null, Bool(TRUE), Bool(FALSE)}>>,
               <<Ty("STRING"), {Null, Str(<<1>>), Str(<<>>)}>>, <<ListType(IntTy)[1], {Null, Seqv("LIST", <<IntV(1)>>), Seqv("LIST", <<Null>>)}>>}}
Morsels == SeqOf({<<>>, <<1>>, <<2, 3>>}, 2)
AggInit ==
    /\ pc = "start" /\ out = <<>>
    /\ \/ \E case \in AggCases, by \in BOOLEAN : \E ab \in AggSplit(AggRows(case, by)) :
              job = [kind |-> "agg", f |-> case[1], by |-> by, a |-> ab[1], b |-> ab[2]]
       \/ \E k \in {1, 3}, a \in SeqOf({1, 2, 3, 4}, 4), b \in SeqOf({1, 2, 3}, 2) :
              job = [kind |-> "topk", f |-> [AggFn("TopK", IntTy) EXCEPT !.k = k], a |-> a, b |-> b]
       \/ \E types \in JoinKeys, left \in BOOLEAN : \E b, p \in SeqOf(JoinRows(types), 2) :
              job = [kind |-> "join", types |-> types, left |-> left, build |-> b, probe |-> p]
       \/ \E c \in GatherCols : \E ix \in SeqOf({None} \cup {Some(i) : i \in 1 .. ColumnLen(c)}, 3) :
              job = [kind |-> "gather", c |-> c, ix |-> ix]
       \/ \E inputs \in UNION {[1 .. n -> Morsels] : n \in 1 .. 2} : job = [kind |-> "union", inputs |-> inputs]

AggFields(f) == <<Field(1, FlTy), Field(2, f.ty), Field(3, f.key), Field(4, Ty("BOOL"))>>
AggCall(f) == [f |-> f, args |-> SubSeq(<<2, 3>>, 1, arity(f.fn)), filter |-> Some(4), name |-> 9]
NewSink == AggNew(AggFields(job.f), IF job.by THEN <<1>> ELSE <<>>, <<AggCall(job.f)>>).v
\* Each sink takes its rows; then the second is merged into the first, one way or the other.
AggFeed ==
    /\ job.kind = "agg" /\ pc \in {"start", "second"} /\ UNCHANGED job
    /\ \E s \in {AggPush(NewSink, IF pc = "start" THEN job.a ELSE job.b)} :
         IF IsGood(s) THEN out' = Append(out, s.v) /\ pc' = IF pc = "start" THEN "second" ELSE "merge"
         ELSE out' = s /\ pc' = "done"
AggMeet ==
    /\ Is("agg", "merge") /\ pc' = "merged" /\ UNCHANGED job
    /\ \E encoded \in BOOLEAN : out' = AggMerge(out[1], out[2], encoded)
AggAnswer ==
    /\ Is("agg", "merged") /\ pc' = "done" /\ UNCHANGED job
    /\ out' = IF IsGood(out) THEN AggFinish(out.v) ELSE out

\* One insertion per step, into one summary and then the other; then the merge.
TopkStart ==
    /\ Is("topk", "start")
    /\ out' = [a |-> NoKeys, b |-> NoKeys, n |-> 0, merged |-> NoKeys]
    /\ pc' = "insert" /\ UNCHANGED job
TopkInsert ==
    /\ Is("topk", "insert") /\ out.n < Len(job.a \o job.b)
    /\ LET v == IntV((job.a \o job.b)[out.n + 1]) IN
       IF out.n < Len(job.a)
       THEN \E e \in topk_insert(job.f, out.a, v) : out' = [out EXCEPT !.a = e, !.n = @ + 1]
       ELSE \E e \in topk_insert(job.f, out.b, v) : out' = [out EXCEPT !.b = e, !.n = @ + 1]
    /\ UNCHANGED <<job, pc>>
TopkMerge ==
    /\ Is("topk", "insert") /\ out.n = Len(job.a \o job.b)
    /\ \/ out' = [out EXCEPT !.merged = topk_merge(job.f, out.a, out.b)]
       \/ out' = [out EXCEPT !.merged = topk_merge_encoded(job.f, out.a, topk_encode(job.f, out.b)).v]
    /\ pc' = "done" /\ UNCHANGED job

Named(from, types) == [i \in DOMAIN types |-> Field(from + i, types[i])]
BuildFields == Named(10, job.types)
ProbeFields == Named(0, job.types)
JoinCols == [i \in DOMAIN job.types |-> i]
JoinBuild ==
    /\ Is("join", "start") /\ pc' = "probe" /\ UNCHANGED job
    /\ out' = into_table(BuildFields, JoinCols, [i \in DOMAIN job.build |-> Batch(BuildFields, <<job.build[i]>>)]).v
JoinProbe ==
    /\ Is("join", "probe") /\ pc' = "done" /\ UNCHANGED job
    /\ out' = ProbePush(out, ProbeNew(out, ProbeFields, JoinCols).v, Batch(ProbeFields, job.probe), JoinCols, job.left)
GatherTake ==
    /\ Is("gather", "start") /\ pc' = "taken" /\ UNCHANGED job
    /\ out' = BatchNew(<<Field(1, job.c.ty)>>, <<take_opt(job.c, job.ix)>>).v
GatherChunks ==
    /\ Is("gather", "taken") /\ pc' = "done" /\ UNCHANGED job
    /\ out' = [col |-> out.columns[1],
               chunks |-> rechunk(out.fields, <<out, slice_batch(out, 0, Min({1, BatchRows(out)}))>>)]
\* Each input names its column differently; the projection adds the column to itself.
UnionInput(i) ==
    [fields |-> <<Field(i, IntTy)>>,
     morsels |-> [m \in DOMAIN job.inputs[i] |->
        [b \in DOMAIN job.inputs[i][m] |-> Batch(<<Field(i, IntTy)>>, <<<<IntV(job.inputs[i][m][b])>>>>)]]]
Doubled == <<[name |-> 5, e |-> EArith("Add", ECol(1), ECol(1))], [name |-> 6, e |-> ECol(1)]>>
UnionMorsels(inputs) ==
    FlattenSeq([m \in 1 .. Len(FlattenSeq(job.inputs)) |-> union_read(inputs, UnionNew(inputs).v, m - 1)])
UnionRead ==
    /\ Is("union", "start") /\ pc' = "read" /\ UNCHANGED job
    /\ out' = UnionMorsels([i \in DOMAIN job.inputs |-> UnionInput(i)])
UnionProject ==
    /\ Is("union", "read") /\ pc' = "done" /\ UNCHANGED job
    /\ \E fields \in {ProjectNew(Doubled, <<Field(1, IntTy)>>).v} :
         out' = Every([b \in DOMAIN out |-> ProjectPush(Doubled, fields, out[b])])
AggNext == \/ AggFeed \/ AggMeet \/ AggAnswer \/ TopkStart \/ TopkInsert \/ TopkMerge
           \/ JoinBuild \/ JoinProbe \/ GatherTake \/ GatherChunks \/ UnionRead \/ UnionProject
------------------------------------------------------------------------------
\* The rows of one group that pass the filter, and the aggregate by its definition.
SameValue(a, b) == IF is_null(a) \/ is_null(b) THEN is_null(a) /\ is_null(b) ELSE Same(a, b)
InGroup(rows, g) == SelectSeq(rows, LAMBDA r : r[4] = Bool(TRUE) /\ (~job.by \/ SameValue(r[1], g)))
Live(rows) == SelectSeq(rows, LAMBDA r : ~is_null(r[2]))
Total(rows) == FoldLeft(LAMBDA n, r : n + r[2].v, 0, rows)
FloatTotal(rows) == FoldLeft(LAMBDA n, r : FloatOp("Add", n, r[2].v), 0, rows)
InSumRange(ty, n) ==
    CASE ty.k = "INT64" -> FitsInt(n) [] ty.k = "UINT64" -> FitsUInt(n)
      [] ty.k = "DECIMAL" -> InI128(n) [] OTHER -> TRUE
\* The sums the two sinks pass through.
SumOverflows(f, a, b) ==
    \/ \E s \in {Live(a), Live(b)} : \E n \in 1 .. Len(s) : ~InSumRange(f.ty, Total(SubSeq(s, 1, n)))
    \/ ~InSumRange(f.ty, Total(Live(a \o b)))
    \/ f.ty.k = "DECIMAL" /\ Abs(Total(Live(a \o b))) >= pow10(MaxDigits)
ClassesOf(vals) == {{i \in DOMAIN vals : SameValue(vals[i], vals[j])} : j \in DOMAIN vals}
Column2(rows) == [i \in DOMAIN rows |-> rows[i][2]]
Sorted(rows) == SortSeq(Column2(rows), LAMBDA a, b : Less(a, b))
SignedBucket(h) == CASE Half(h) = 0 -> 0 [] h > 0 -> MidBucket + key_for(h) [] OTHER -> -(MidBucket + key_for(-h))
AggIs(f, rows, v) ==
    LET live == Live(rows)
        keyed == SelectSeq(rows, LAMBDA r : ~is_null(r[3]))
        best == {i \in DOMAIN keyed : \A j \in DOMAIN keyed : ~Beats(IsMax(f), keyed[j][3], keyed[i][3])}
        hashes == {stable_hash(live[i][2]) : i \in DOMAIN live}
        numbers == SelectSeq(live, LAMBDA r : r[2].v # NaN)
    IN CASE f.fn = "CountStar" -> v = IntV(Len(rows))
         [] f.fn = "Count" -> v = IntV(Len(live))
         [] f.fn = "CountDistinct" -> v = IntV(Cardinality(ClassesOf(Column2(live))))
         [] f.fn = "ListAgg" -> v = IF rows = <<>> THEN Null ELSE Seqv("LIST", Column2(rows))
         [] f.fn = "Histogram" ->
              IF rows = <<>> THEN v = Null
              ELSE [i \in DOMAIN v.x |-> v.x[i][2]] =
                   LET sorted == SortSeq(Column2(rows), LAMBDA a, b : NullsLast([v |-> a], [v |-> b])) IN
                   [i \in 1 .. Cardinality(ClassesOf(sorted)) |->
                        Cardinality(SetToSortSeq(ClassesOf(sorted), LAMBDA x, y : Min(x) < Min(y))[i])]
         [] f.fn \in {"ArgMin", "ArgMax"} -> v = IF best = {} THEN Null ELSE keyed[Min(best)][2]
         [] f.fn = "ApproxCountDistinct" ->
              IF Cardinality(hashes) < SparseLimit THEN v = IntV(Cardinality(hashes))
              ELSE \A i \in 0 .. 2^IndexBits - 1 :
                     v.x[i + 1] = Max({0} \cup {insert_dense(HllEmpty.regs, h)[i] : h \in hashes})
         [] f.fn = "ApproxQuantile" ->
              v = IF numbers = <<>> THEN Null ELSE Fl(SignedBucket(Sorted(numbers)[Rank(f.q, Len(numbers)) + 1].v))
         [] live = <<>> -> v = Null
         [] f.fn = "Sum" -> IF f.ty = FlTy THEN v = Fl(FloatTotal(live)) ELSE v.v = Total(live) /\ v.k = f.ty.k
         [] f.fn = "Avg" -> v = Fl(RoundF(IF f.ty = FlTy THEN Total(live) ELSE 2 * Total(live), Len(live) * pow10(f.ty.s)))
         [] f.fn \in {"Min", "Max"} -> \A i \in DOMAIN live : ~Beats(IsMax(f), live[i][2], v) /\ v.k = f.ty.k
         [] f.fn = "Quantile" -> Same(v, Sorted(live)[Rank(f.q, Len(live)) + 1])
\* The groups: one per distinct key, or one in all.
Groups == IF job.by THEN {r[1] : r \in ToSet(job.a \o job.b)} ELSE {Null}
RowRight(row) ==
    /\ AggIs(job.f, InGroup(job.a \o job.b, IF job.by THEN row[1] ELSE Null), row[Len(row)])
    /\ \/ job.f.fn \in {"Histogram", "ApproxCountDistinct"}
       \/ fits(row[Len(row)], output_type(job.f))
(* HashAggregateSink and the accumulators: whatever rows each of two sinks saw and       *)
(* however it numbered its groups, merging the second into the first, state by state or  *)
(* through encode_state and merge_encoded, gives one row per group with the value of the *)
(* aggregate over all its rows; a sum fails exactly when a sum on the way is out of      *)
(* range.                                                                                *)
AggRight ==
    Done("agg") =>
        IF job.f.fn = "Sum" /\ \E g \in Groups : SumOverflows(job.f, InGroup(job.a, g), InGroup(job.b, g))
        THEN out.err = "Overflow"
        ELSE /\ IsGood(out)
             /\ \A g \in Groups : Cardinality({r \in DOMAIN out.v : ~job.by \/ SameValue(out.v[r][1], g)}) = 1
             /\ Len(out.v) = Cardinality({{h \in Groups : SameValue(g, h)} : g \in Groups})
             /\ \A r \in DOMAIN out.v : RowRight(out.v[r])
Spoiled(units) == {<<StateVersion + 1>> \o Tail(units)} \cup {SubSeq(units, 1, n) : n \in 0 .. Len(units) - 1}
OnlyWhole(units) == \A s \in Spoiled(units) : ~IsGood(merge_encoded(job.f, Zero(job.f), s))
(* merge_encoded: a state cut short, or of another version, is refused; no prefix of one *)
(* state is another state.                                                               *)
AggStateSafe ==
    Is("agg", "merge") =>
        \A g \in DOMAIN out[1].accs[1] : OnlyWhole(encode_state(job.f, out[1].accs[1][g]))
Times1(s, n) == Cardinality({i \in DOMAIN s : s[i] = n})
SumCounts(entries) == FoldLeft(LAMBDA n, x : n + entries[x].count, 0, SetToSeq(DOMAIN entries))
SpaceSaving(entries, s) ==
    /\ SumCounts(entries) = Len(s)
    /\ \A x \in DOMAIN entries : LET e == entries[x] IN Times1(s, e.v.v) \in e.count - e.error .. e.count
    /\ \A n \in ToSet(s) : GroupKey(<<IntV(n)>>) \notin DOMAIN entries =>
            \A x \in DOMAIN entries : Times1(s, n) <= entries[x].count
(* Summary::insert and merge: whichever of the least entries is replaced, a count never   *)
(* falls below the truth and exceeds it by at most its error, a value that was lost is no *)
(* more frequent than any that was kept, and after a merge count - error is still no more *)
(* than the truth.                                                                        *)
TopKBound ==
    job.kind = "topk" /\ pc # "start" =>
        /\ SpaceSaving(out.a, SubSeq(job.a, 1, Min({out.n, Len(job.a)})))
        /\ SpaceSaving(out.b, SubSeq(job.b, 1, Max({0, out.n - Len(job.a)})))
        /\ \A x \in DOMAIN out.merged : LET e == out.merged[x] IN e.count - e.error <= Times1(job.a \o job.b, e.v.v)
        /\ \A s \in {out.a, out.b, out.merged} : Cardinality(DOMAIN s) <= capacity(job.f)
(* "Exact whenever the group's distinct count <= c": with no more distinct values than    *)
(* the summary holds, top_k is the k most frequent values, the smaller first among equals.*)
TopKExact ==
    Done("topk") /\ Cardinality(ToSet(job.a \o job.b)) <= capacity(job.f) =>
        LET s == job.a \o job.b
            order == SetToSortSeq(ToSet(s), LAMBDA m, n : Times1(s, m) > Times1(s, n) \/ (Times1(s, m) = Times1(s, n) /\ m < n))
        IN topk_finish(job.f, out.merged) =
             IF s = <<>> THEN Null ELSE Seqv("LIST", [i \in 1 .. Min({job.f.k, Len(order)}) |-> IntV(order[i])])
(* JoinBuildSink and HashJoinProbe: the join by row keys gives, batch by batch, the pairs *)
(* a nested loop with SQL equality gives: NULL, NaN and lists with a NULL match nothing,  *)
(* 0.0 matches -0.0, no two different keys run together; a LEFT join keeps each row.      *)
JoinRight ==
    Done("join") =>
        LET matches(p) == SelectSeq(job.build, LAMBDA b : \A i \in DOMAIN b : sql_eq(p[i], b[i]) = Some(TRUE))
            nulls == [i \in DOMAIN job.types |-> Null]
            rows(p) == IF matches(p) = <<>> THEN (IF job.left THEN <<p \o nulls>> ELSE <<>>)
                       ELSE [i \in DOMAIN matches(p) |-> p \o matches(p)[i]]
            got == FlattenSeq([b \in DOMAIN out |-> [r \in 1 .. BatchRows(out[b]) |->
                        [c \in DOMAIN out[b].columns |-> get(out[b].columns[c], r)]]])
        IN /\ got = FlattenSeq([p \in DOMAIN job.probe |-> rows(job.probe[p])])
           /\ \A b \in DOMAIN out : BatchRows(out[b]) \in 1 .. BatchLimit
(* take_opt and rechunk: the rows asked for, in order, with NULL for None, the null count *)
(* of the validity that was built row by row, and chunks that are full but for the last.  *)
GatherRight ==
    Done("gather") =>
        LET want == [i \in DOMAIN job.ix |-> IF job.ix[i] = None THEN Null ELSE get(job.c, job.ix[i][1])]
            chunks == out.chunks.v
            sizes == [i \in DOMAIN chunks |-> BatchRows(chunks[i])]
        IN /\ Rows(out.col) = want
           /\ out.col.nulls = Cardinality({i \in DOMAIN want : is_null(want[i])})
           /\ IsGood(out.chunks)
           /\ FlattenSeq([i \in DOMAIN chunks |-> Rows(chunks[i].columns[1])]) = want \o SubSeq(want, 1, Min({1, Len(want)}))
           /\ \A i \in DOMAIN sizes : sizes[i] <= BatchLimit /\ (i < Len(sizes) => sizes[i] = BatchLimit)
(* UnionSource and Project: the morsels of a union are those of its inputs one after      *)
(* another, each read once and under the first input's names.                             *)
UnionRight ==
    Done("union") =>
        LET want == FlattenSeq([i \in DOMAIN job.inputs |-> FlattenSeq(job.inputs[i])]) IN
        /\ IsGood(out)
        /\ [b \in DOMAIN out.v |-> <<get(out.v[b].columns[1], 1), get(out.v[b].columns[2], 1)>>]
             = [b \in DOMAIN want |-> <<IntV(2 * want[b]), IntV(want[b])>>]
(* The aggregates as a whole (exec/agg): however the rows are cut into morsels, merged    *)
(* and carried as state, the answer is that of one pass, and states are bounded.         *)
AggregatesRight == AggRight /\ AggStateSafe /\ TopKBound /\ TopKExact
(* The operators that bring columns together (exec/join, kernels/select.rs, union).      *)
OperatorsRight == JoinRight /\ GatherRight /\ UnionRight
=============================================================================
