---------------------------- MODULE Aggregates -----------------------------
(***************************************************************************)
(* exec/agg, exec/join and exec/kernels: row keys, the aggregate functions  *)
(* with their mergeable states, hash aggregation, the hash join and the     *)
(* kernels that gather rows.                                                *)
(*                                                                          *)
(* A function f is [fn, ty, key, q, k]: its name, the types of its          *)
(* arguments, a quantile in halves and the k of top_k.  A state belongs to  *)
(* one group of one accumulator and starts as Zero(f); an encoded state is  *)
(* a sequence of units.  An accumulator whose update fails is dropped with  *)
(* its query, so a failed call leaves no state behind.                      *)
(***************************************************************************)
EXTENDS Prune

CONSTANTS
    SparseLimit,          \* SPARSE_LIMIT of the HyperLogLog (64)
    HashBits, IndexBits,  \* bits of a hash (64) and of a register number (14)
    TopMin, TopFactor,    \* a top_k summary holds max(TopMin, TopFactor * k) entries (64, 8)
    BatchLimit            \* BATCH_ROWS

ASSUME AggregatesAssumption ==
    /\ {SparseLimit, TopMin, TopFactor, BatchLimit} \subseteq Nat \ {0}
    /\ HashBits = 6 /\ IndexBits \in 1 .. HashBits - 1   \* HashOf has 64 values

StateVersion == 1
------------------------------------------------------------------------------
(* Row keys (kernels/rowkey.rs): equal exactly when the values are grouped   *)
(* together.  With skip, a NULL and a NaN have no key.                       *)
encode_bytes_bare(b) == b
encode_bytes(b) == <<Len(b)>> \o b
KeyScalar(v, skip) ==
    CASE is_null(v) -> IF skip THEN None ELSE Some(<<0>>)
      [] v.k = "FLOAT64" -> IF v.v = NaN /\ skip THEN None ELSE Some(<<1, IF v.v = NegZero THEN 0 ELSE v.v>>)
      [] v.k \in VarWidth -> Some(<<1>> \o encode_bytes(v.x))
      [] OTHER -> Some(<<1, v.v>>)
KeyAll(keys) == IF \E i \in DOMAIN keys : keys[i] = None THEN None ELSE Some(FlattenSeq([i \in DOMAIN keys |-> keys[i][1]]))
KeyValue(v, skip) ==
    IF v.k # "LIST" THEN KeyScalar(v, skip)
    ELSE LET items == KeyAll([i \in DOMAIN v.x |-> KeyScalar(v.x[i], skip)]) IN
         IF items = None THEN None ELSE Some(<<1, Len(v.x)>> \o items[1])
encode_row_key(vals, skip) == KeyAll([i \in DOMAIN vals |-> KeyValue(vals[i], skip)])
GroupKey(vals) == encode_row_key(vals, FALSE)[1]
stable_hash(v) == HashOf(GroupKey(<<v>>), 0)
------------------------------------------------------------------------------
(* Reading an encoded state.                                                 *)
check_version(units) == Check(ReadUnit(units), Head(units) = StateVersion)
\* The next field of what was read so far, and an optional body behind a flag.
ThenUnit(acc) == IF acc.ok THEN PutField(acc, ReadUnit(acc.rest)) ELSE Fail
IfSet(flag, none, some) == IF ~flag.ok THEN Fail ELSE IF flag.v = 0 THEN Ok(none, flag.rest) ELSE some
------------------------------------------------------------------------------
(* count, sum and avg (agg/basic.rs).                                        *)
count_add(f, n, args) == IF f.fn = "CountStar" \/ ~is_null(args[1]) THEN n + 1 ELSE n

\* The sum of INT64 and UINT64 must stay in range after every addition.
add_int(ty, st, v) ==
    LET sum == st.sum + v
        in_range == CASE ty.k = "INT64" -> FitsInt(sum) [] ty.k = "UINT64" -> FitsUInt(sum) [] OTHER -> TRUE
    IN IF InI128(sum) /\ in_range THEN Good([has |-> TRUE, sum |-> sum]) ELSE Bad("Overflow")
SumMore(ty, st, v) ==
    IF ty.k = "FLOAT64" THEN Good([has |-> TRUE, sum |-> FloatOp("Add", st.sum, v)]) ELSE add_int(ty, st, v)
sum_add(f, st, args) == IF is_null(args[1]) THEN Good(st) ELSE SumMore(f.ty, st, args[1].v)
sum_merge(f, a, b) == IF b.has THEN SumMore(f.ty, a, b.sum) ELSE Good(a)
sum_type(ty) == IF ty.k = "DECIMAL" THEN DecimalType(MaxDigits, ty.s)[1] ELSE ty
sum_finish(f, st) ==
    IF ~st.has THEN Good(Null)
    ELSE IF f.ty.k # "DECIMAL" THEN Good(Val(f.ty.k, st.sum))
    ELSE IF Decimal(st.sum, f.ty.s) = None THEN Bad("Overflow") ELSE Good(Decimal(st.sum, f.ty.s)[1])
sum_encode(st) == IF st.has THEN <<1, st.sum>> ELSE <<0>>
sum_decode(rest) ==
    LET has == ReadUnit(rest)  sum == ReadUnit(has.rest) IN
    IfSet(has, [has |-> FALSE, sum |-> 0], As(sum, [has |-> TRUE, sum |-> sum.v]))

\* The integer sum of avg is an i128 that is not checked.
AvgSum(ty, a, b) == IF ty.k = "FLOAT64" THEN FloatOp("Add", a, b) ELSE a + b
avg_add(f, st, args) ==
    IF is_null(args[1]) THEN st ELSE [n |-> st.n + 1, sum |-> AvgSum(f.ty, st.sum, args[1].v)]
avg_merge(f, a, b) == IF b.n = 0 THEN a ELSE [n |-> a.n + b.n, sum |-> AvgSum(f.ty, a.sum, b.sum)]
avg_finish(f, st) ==
    LET scaled == IF f.ty.k = "FLOAT64" THEN st.sum
                  ELSE IF f.ty.k = "DECIMAL" THEN FloatOp("Div", IntToFloat(st.sum), IntToFloat(pow10(f.ty.s)))
                  ELSE IntToFloat(st.sum)
    IN IF st.n = 0 THEN Null ELSE Val("FLOAT64", FloatOp("Div", scaled, IntToFloat(st.n)))
avg_encode(st) == (IF st.n > 0 THEN <<1, st.sum>> ELSE <<0>>) \o <<st.n>>
avg_decode(rest) ==
    LET s == sum_decode(rest)  n == ReadUnit(s.rest) IN
    IF s.ok /\ n.ok THEN Ok([n |-> n.v, sum |-> s.v.sum], n.rest) ELSE Fail
------------------------------------------------------------------------------
(* min, max, arg_min and arg_max: the first of equals is kept.               *)
Beats(is_max, a, b) == total_cmp(a, b) = Some(IF is_max THEN 1 ELSE -1)
IsMax(f) == f.fn \in {"Max", "ArgMax"}
minmax_consider(f, st, v) == IF st = None \/ Beats(IsMax(f), v, st[1]) THEN Some(v) ELSE st
minmax_add(f, st, args) == IF is_null(args[1]) THEN st ELSE minmax_consider(f, st, args[1])
minmax_merge(f, a, b) == IF b = None THEN a ELSE minmax_consider(f, a, b[1])

arg_consider(f, st, e) == IF st = None \/ Beats(IsMax(f), e.key, st[1].key) THEN Some(e) ELSE st
\* The value may be NULL, the key not.
Opt(v) == IF is_null(v) THEN None ELSE Some(v)
OrNull(o) == IF o = None THEN Null ELSE o[1]
arg_add(f, st, args) ==
    IF is_null(args[2]) THEN st ELSE arg_consider(f, st, [key |-> args[2], value |-> Opt(args[1])])
arg_merge(f, a, b) == IF b = None THEN a ELSE arg_consider(f, a, b[1])
arg_encode(f, st) ==
    IF st = None THEN <<0>> ELSE <<1>> \o encode_value(st[1].key, f.key) \o encode_opt(st[1].value, f.ty)
ArgFields(f, key) == IF key.ok THEN PutField(Ok(<<key.v>>, key.rest), decode_opt(key.rest, f.ty)) ELSE Fail
ArgEntry(kv) == As(kv, Some([key |-> kv.v[1], value |-> kv.v[2]]))
arg_decode(f, rest) ==
    IfSet(ReadUnit(rest), None, ArgEntry(ArgFields(f, decode_value(Tail(rest), f.key))))
------------------------------------------------------------------------------
(* list_agg, quantile, count(distinct) and histogram (agg/collect.rs).       *)
list_add(f, st, args) == Append(st, Opt(args[1]))
list_finish(st) == IF st = <<>> THEN Null ELSE Seqv("LIST", [i \in DOMAIN st |-> OrNull(st[i])])

quantile_add(f, st, args) == IF is_null(args[1]) THEN st ELSE Append(st, args[1])
\* floor(q * (n - 1)) of the sorted values; q is in halves.
Rank(q, n) == (q * (n - 1)) \div 2
quantile_finish(f, st) ==
    IF st = <<>> THEN Null ELSE SortSeq(st, LAMBDA a, b : Less(a, b))[Rank(f.q, Len(st)) + 1]

distinct_add(f, st, args) == IF is_null(args[1]) THEN st ELSE st \cup {GroupKey(<<args[1]>>)}

\* A histogram maps a key to its first value and a count; NULL counts as a value.
Bump(map, key, v, c) ==
    IF key \in DOMAIN map THEN [map EXCEPT ![key].c = @ + c]
    ELSE [x \in DOMAIN map \cup {key} |-> IF x = key THEN [v |-> v, c |-> c] ELSE map[x]]
NoKeys == [x \in {} |-> [v |-> Null, c |-> 0]]
histogram_add(f, st, args) == Bump(st, GroupKey(<<args[1]>>), args[1], 1)
InKeyOrder(map) == SetToSortSeq(DOMAIN map, LAMBDA a, b : LexCmp(a, b, Cmp) = -1)
histogram_merge(a, b) ==
    FoldLeft(LAMBDA m, key : Bump(m, key, b[key].v, b[key].c), a, InKeyOrder(b))
NullsLast(a, b) == ~is_null(a.v) /\ (is_null(b.v) \/ Less(a.v, b.v))
histogram_finish(st) ==
    LET entries == SortSeq([i \in DOMAIN InKeyOrder(st) |-> st[InKeyOrder(st)[i]]], NullsLast) IN
    IF DOMAIN st = {} THEN Null
    ELSE Seqv("STRING", [i \in DOMAIN entries |-> <<to_text(entries[i].v), entries[i].c>>])
histogram_encode(f, st) ==
    Counted([i \in DOMAIN InKeyOrder(st) |->
        LET e == st[InKeyOrder(st)[i]] IN encode_opt(Opt(e.v), f.ty) \o <<e.c>>])
\* Entries of a value, read by one of the decoders, and of numbers behind it.
BumpEntry(map, e) == Bump(map, GroupKey(<<OrNull(e[1])>>), OrNull(e[1]), e[2])
BumpAll(es) == As(es, FoldLeft(BumpEntry, NoKeys, es.v))
First(r) == IF r.ok THEN Ok(<<r.v>>, r.rest) ELSE Fail
histogram_decode(f, rest) ==
    BumpAll(ReadCounted(rest, 1, LAMBDA r : ThenUnit(First(decode_opt(r, f.ty)))))
------------------------------------------------------------------------------
(* HyperLogLog (sketch/hll.rs): the hashes themselves below SparseLimit, and *)
(* registers from there on.  The registers stand for the estimate they give. *)
LeadingZeros(n, bits) == bits - (CHOOSE w \in 0 .. bits : n < 2^w /\ (w = 0 \/ n >= 2^(w - 1)))
insert_dense(regs, h) ==
    LET idx == h \div 2^(HashBits - IndexBits)
        lz == LeadingZeros((h * 2^IndexBits) % 2^HashBits, HashBits)
        rank == Min({lz + 1, HashBits - IndexBits + 1})
    IN IF regs[idx] < rank THEN [regs EXCEPT ![idx] = rank] ELSE regs
HllEmpty == [dense |-> FALSE, hashes |-> {}, regs |-> [i \in 0 .. 2^IndexBits - 1 |-> 0]]
promote(st) ==
    IF st.dense THEN st
    ELSE [dense |-> TRUE, hashes |-> {}, regs |-> FoldLeft(insert_dense, st.regs, SetToSortSeq(st.hashes, <))]
hll_insert(st, h) ==
    LET more == [st EXCEPT !.hashes = @ \cup {h}] IN
    IF st.dense THEN [st EXCEPT !.regs = insert_dense(@, h)]
    ELSE IF Cardinality(more.hashes) >= SparseLimit THEN promote(more) ELSE more
hll_add(f, st, args) == IF is_null(args[1]) THEN st ELSE hll_insert(st, stable_hash(args[1]))
hll_merge(a, b) ==
    IF ~b.dense THEN FoldLeft(hll_insert, a, SetToSortSeq(b.hashes, <))
    ELSE [promote(a) EXCEPT !.regs = [i \in DOMAIN @ |-> Max({@[i], b.regs[i]})]]
estimate(st) == IF st.dense THEN Seqv("INT64", [i \in 1 .. 2^IndexBits |-> st.regs[i - 1]])
                ELSE Val("INT64", Cardinality(st.hashes))
hll_encode(st) ==
    IF st.dense THEN <<0>> \o [i \in 1 .. 2^IndexBits |-> st.regs[i - 1]]
    ELSE <<1, Cardinality(st.hashes)>> \o SetToSortSeq(st.hashes, <)
hll_decode(rest) ==
    LET tag == ReadUnit(rest)
        regs == take(tag.rest, 2^IndexBits)
        hs == ReadCounted(tag.rest, 1, ReadUnit)
    IN IF ~tag.ok THEN Fail
       ELSE IF tag.v = 0 /\ regs.ok
       THEN Ok([dense |-> TRUE, hashes |-> {}, regs |-> [i \in 0 .. 2^IndexBits - 1 |-> regs.v[i + 1]]], regs.rest)
       ELSE IF tag.v = 1 /\ hs.ok THEN Ok([HllEmpty EXCEPT !.hashes = ToSet(hs.v)], hs.rest) ELSE Fail
------------------------------------------------------------------------------
(* DDSketch (sketch/ddsketch.rs): counts per bucket ]gamma^(k-1), gamma^k],  *)
(* here with gamma = 2.  The signed bucket stands for the value it answers;  *)
(* bucket k of the positive numbers is MidBucket + k.                        *)
MidBucket == IntBits + 12
key_for(h) == IF h = Inf THEN MidBucket - 1 ELSE BitLength(h - 1) - 1
row_as_f64(v) ==
    CASE is_null(v) \/ v = Val("FLOAT64", NaN) -> None
      [] v.k = "FLOAT64" -> Some(v.v)
      [] v.k = "DECIMAL" -> Some(FloatOp("Div", IntToFloat(v.v), IntToFloat(pow10(v.s))))
      [] OTHER -> Some(IntToFloat(v.v))
Tally(bag, k, c) == IF k \in DOMAIN bag THEN [bag EXCEPT ![k] = @ + c] ELSE [x \in DOMAIN bag \cup {k} |-> IF x = k THEN c ELSE bag[x]]
NoBuckets == [x \in {} |-> 0]
DdEmpty == [zero |-> 0, neg |-> NoBuckets, pos |-> NoBuckets]
dd_insert(st, h) ==
    CASE Half(h) = 0 -> [st EXCEPT !.zero = @ + 1]
      [] h > 0 -> [st EXCEPT !.pos = Tally(@, key_for(h), 1)]
      [] OTHER -> [st EXCEPT !.neg = Tally(@, key_for(-h), 1)]
dd_add(f, st, args) == IF row_as_f64(args[1]) = None THEN st ELSE dd_insert(st, row_as_f64(args[1])[1])
Tallies(a, b) == FoldLeft(LAMBDA m, k : Tally(m, k, b[k]), a, SetToSeq(DOMAIN b))
dd_merge(a, b) == [zero |-> a.zero + b.zero, neg |-> Tallies(a.neg, b.neg), pos |-> Tallies(a.pos, b.pos)]
\* Negative buckets from the largest key down, zero, then positive ones upwards.
dd_walk(st) ==
    [i \in 1 .. Cardinality(DOMAIN st.neg) |->
        LET k == SetToSortSeq(DOMAIN st.neg, >)[i] IN <<-(MidBucket + k), st.neg[k]>>]
    \o <<<<0, st.zero>>>>
    \o [i \in 1 .. Cardinality(DOMAIN st.pos) |->
        LET k == SetToSortSeq(DOMAIN st.pos, <)[i] IN <<MidBucket + k, st.pos[k]>>]
BucketAt(f, walk) ==
    LET cum[i \in 0 .. Len(walk)] == IF i = 0 THEN 0 ELSE cum[i - 1] + walk[i][2]
        n == cum[Len(walk)]
        past == {i \in DOMAIN walk : 2 * cum[i] > f.q * (n - 1)}
    IN IF n = 0 THEN Null ELSE Val("FLOAT64", walk[Min(past)][1])
dd_quantile(f, st) == BucketAt(f, dd_walk(st))
BagEncode(bag) == Counted([i \in 1 .. Cardinality(DOMAIN bag) |->
        LET k == SetToSortSeq(DOMAIN bag, <)[i] IN <<k, bag[k]>>])
dd_encode(st) == <<st.zero>> \o BagEncode(st.neg) \o BagEncode(st.pos)
TallyAll(es) == As(es, FoldLeft(LAMBDA m, e : Tally(m, e[1], e[2]), NoBuckets, es.v))
BagDecode(rest) == TallyAll(ReadCounted(rest, 2, LAMBDA r : ThenUnit(ThenUnit(Ok(<<>>, r)))))
DdOf(d) == As(d, [zero |-> d.v[1], neg |-> d.v[2], pos |-> d.v[3]])
dd_decode(rest) ==
    DdOf(Then(Then(ThenUnit(Ok(<<>>, rest)), BagDecode), BagDecode))
------------------------------------------------------------------------------
(* The Space-Saving summary of top_k (sketch/topk.rs).  Which of several     *)
(* entries with the least count is replaced depends on the hash map, so an   *)
(* insertion has a set of outcomes.                                          *)
capacity(f) == Max({TopFactor * f.k, TopMin})
Put1(entries, key, e) == [x \in DOMAIN entries \cup {key} |-> IF x = key THEN e ELSE entries[x]]
topk_replace(entries, key, v, min) ==
    Put1([x \in DOMAIN entries \ {min} |-> entries[x]], key,
         [v |-> v, count |-> entries[min].count + 1, error |-> entries[min].count])
topk_insert(f, entries, v) ==
    LET key == GroupKey(<<v>>)
        least == {x \in DOMAIN entries : \A y \in DOMAIN entries : entries[x].count <= entries[y].count}
    IN IF is_null(v) THEN {entries}
       ELSE IF key \in DOMAIN entries THEN {[entries EXCEPT ![key].count = @ + 1]}
       ELSE IF Cardinality(DOMAIN entries) < capacity(f)
       THEN {Put1(entries, key, [v |-> v, count |-> 1, error |-> 0])}
       ELSE {topk_replace(entries, key, v, min) : min \in least}
ByCount(entries, a, b) ==
    \/ entries[a].count > entries[b].count
    \/ entries[a].count = entries[b].count /\ LexCmp(a, b, Cmp) = -1
trim(f, entries) ==
    LET order == SetToSortSeq(DOMAIN entries, LAMBDA a, b : ByCount(entries, a, b)) IN
    [x \in {order[i] : i \in 1 .. Min({Len(order), capacity(f)})} |-> entries[x]]
topk_merge(f, a, b) ==
    trim(f, [x \in DOMAIN a \cup DOMAIN b |->
        IF x \notin DOMAIN b THEN a[x] ELSE IF x \notin DOMAIN a THEN b[x]
        ELSE [a[x] EXCEPT !.count = @ + b[x].count, !.error = @ + b[x].error]])
topk_finish(f, entries) ==
    LET order == SetToSortSeq(DOMAIN entries, LAMBDA a, b :
            \/ entries[a].count > entries[b].count
            \/ entries[a].count = entries[b].count /\ Less(entries[a].v, entries[b].v))
    IN IF order = <<>> THEN Null
       ELSE Seqv("LIST", [i \in 1 .. Min({f.k, Len(order)}) |-> entries[order[i]].v])
topk_encode(f, entries) ==
    LET order == SetToSortSeq(DOMAIN entries, LAMBDA a, b : ByCount(entries, a, b)) IN
    <<StateVersion, f.k>> \o Counted([i \in DOMAIN order |->
        encode_value(entries[order[i]].v, f.ty) \o <<entries[order[i]].count, entries[order[i]].error>>])
TopEntry(e) == [v |-> e[1], count |-> e[2], error |-> e[3]]
TopEntries(es, keys) == [x \in ToSet(keys) |-> TopEntry(es[CHOOSE i \in DOMAIN keys : keys[i] = x])]
TopDecoded(es) == TopEntries(es, [i \in DOMAIN es |-> GroupKey(<<es[i][1]>>)])
TopMerged(f, a, es) == IF es.ok THEN Good(topk_merge(f, a, TopDecoded(es.v))) ELSE Bad("Invalid")
topk_merge_encoded(f, a, units) ==
    IF ~check_version(units).ok \/ SubSeq(units, 2, 2) # <<f.k>> THEN Bad("Invalid")
    ELSE TopMerged(f, a, ReadCounted(SubSeq(units, 3, Len(units)), 2,
                                     LAMBDA r : ThenUnit(ThenUnit(First(decode_value(r, f.ty))))))
------------------------------------------------------------------------------
(* The accumulators behind one interface (agg/mod.rs).                       *)
Counts == {"CountStar", "Count"}
arity(fn) == CASE fn = "CountStar" -> 0 [] fn \in {"ArgMin", "ArgMax"} -> 2 [] OTHER -> 1
Supports(f) ==
    CASE f.fn \in Counts \cup {"ApproxCountDistinct"} -> TRUE
      [] f.fn \in {"Sum", "Avg", "ApproxQuantile"} -> is_numeric(f.ty)
      [] f.fn = "Quantile" -> is_numeric(f.ty) \/ f.ty.k \in {"TIMESTAMP", "DATE"}
      [] f.fn \in {"ArgMin", "ArgMax"} -> f.ty.k # "LIST" /\ f.key.k # "LIST"
      [] OTHER -> f.ty.k # "LIST"
accumulator(f, types) ==
    IF Len(types) # arity(f.fn) THEN Bad("Plan")
    ELSE IF f.fn \in {"Quantile", "ApproxQuantile"} /\ f.q \notin 0 .. 2 THEN Bad("Invalid")
    ELSE IF ~Supports(f) THEN Bad("Plan")
    ELSE IF f.fn = "TopK" /\ f.k = 0 THEN Bad("Invalid") ELSE Good(f)
output_type(f) ==
    CASE f.fn \in Counts \cup {"CountDistinct", "ApproxCountDistinct"} -> Ty("INT64")
      [] f.fn = "Sum" -> sum_type(f.ty)
      [] f.fn \in {"Avg", "ApproxQuantile"} -> Ty("FLOAT64")
      [] f.fn = "Histogram" -> Ty("STRING")
      [] f.fn \in {"ListAgg", "TopK"} -> ListType(f.ty)[1]
      [] OTHER -> f.ty
Zero(f) ==
    CASE f.fn \in Counts -> 0
      [] f.fn = "Sum" -> [has |-> FALSE, sum |-> 0]
      [] f.fn = "Avg" -> [n |-> 0, sum |-> 0]
      [] f.fn = "CountDistinct" -> {}
      [] f.fn = "Histogram" -> NoKeys
      [] f.fn = "ApproxCountDistinct" -> HllEmpty
      [] f.fn = "ApproxQuantile" -> DdEmpty
      [] OTHER -> <<>>
update_one(f, st, args) ==
    CASE f.fn \in Counts -> Good(count_add(f, st, args))
      [] f.fn = "Sum" -> sum_add(f, st, args)
      [] f.fn = "Avg" -> Good(avg_add(f, st, args))
      [] f.fn \in {"Min", "Max"} -> Good(minmax_add(f, st, args))
      [] f.fn \in {"ArgMin", "ArgMax"} -> Good(arg_add(f, st, args))
      [] f.fn = "ListAgg" -> Good(list_add(f, st, args))
      [] f.fn = "Quantile" -> Good(quantile_add(f, st, args))
      [] f.fn = "CountDistinct" -> Good(distinct_add(f, st, args))
      [] f.fn = "Histogram" -> Good(histogram_add(f, st, args))
      [] f.fn = "ApproxCountDistinct" -> Good(hll_add(f, st, args))
      [] f.fn = "ApproxQuantile" -> Good(dd_add(f, st, args))
merge_one(f, a, b) ==
    CASE f.fn \in Counts -> Good(a + b)
      [] f.fn = "Sum" -> sum_merge(f, a, b)
      [] f.fn = "Avg" -> Good(avg_merge(f, a, b))
      [] f.fn \in {"Min", "Max"} -> Good(minmax_merge(f, a, b))
      [] f.fn \in {"ArgMin", "ArgMax"} -> Good(arg_merge(f, a, b))
      [] f.fn \in {"ListAgg", "Quantile"} -> Good(a \o b)
      [] f.fn = "CountDistinct" -> Good(a \cup b)
      [] f.fn = "Histogram" -> Good(histogram_merge(a, b))
      [] f.fn = "ApproxCountDistinct" -> Good(hll_merge(a, b))
      [] f.fn = "ApproxQuantile" -> Good(dd_merge(a, b))
finish_one(f, st) ==
    CASE f.fn \in Counts -> Good(Val("INT64", st))
      [] f.fn = "Sum" -> sum_finish(f, st)
      [] f.fn = "Avg" -> Good(avg_finish(f, st))
      [] f.fn \in {"Min", "Max"} -> Good(OrNull(st))
      [] f.fn \in {"ArgMin", "ArgMax"} -> Good(IF st = None THEN Null ELSE OrNull(st[1].value))
      [] f.fn = "ListAgg" -> Good(list_finish(st))
      [] f.fn = "Quantile" -> Good(quantile_finish(f, st))
      [] f.fn = "CountDistinct" -> Good(Val("INT64", Cardinality(st)))
      [] f.fn = "Histogram" -> Good(histogram_finish(st))
      [] f.fn = "ApproxCountDistinct" -> Good(estimate(st))
      [] f.fn = "ApproxQuantile" -> Good(dd_quantile(f, st))
distinct_encode(keys) == Counted([i \in DOMAIN keys |-> bytes(keys[i])])
distinct_decode(keys) == As(keys, ToSet(keys.v))
encode_state(f, st) ==
    <<StateVersion>> \o
    (CASE f.fn \in Counts -> <<st>>
       [] f.fn = "Sum" -> sum_encode(st)
       [] f.fn = "Avg" -> avg_encode(st)
       [] f.fn \in {"Min", "Max"} -> encode_opt(st, f.ty)
       [] f.fn \in {"ArgMin", "ArgMax"} -> arg_encode(f, st)
       [] f.fn = "ListAgg" -> Counted([i \in DOMAIN st |-> encode_opt(st[i], f.ty)])
       [] f.fn = "Quantile" -> Counted([i \in DOMAIN st |-> encode_value(st[i], f.ty)])
       [] f.fn = "CountDistinct" -> distinct_encode(SetToSortSeq(st, LAMBDA a, b : LexCmp(a, b, Cmp) = -1))
       [] f.fn = "Histogram" -> histogram_encode(f, st)
       [] f.fn = "ApproxCountDistinct" -> hll_encode(st)
       [] f.fn = "ApproxQuantile" -> dd_encode(st))
DecodeBody(f, rest) ==
    CASE f.fn \in Counts -> ReadUnit(rest)
      [] f.fn = "Sum" -> sum_decode(rest)
      [] f.fn = "Avg" -> avg_decode(rest)
      [] f.fn \in {"Min", "Max"} -> decode_opt(rest, f.ty)
      [] f.fn \in {"ArgMin", "ArgMax"} -> arg_decode(f, rest)
      [] f.fn = "ListAgg" -> ReadCounted(rest, 1, LAMBDA r : decode_opt(r, f.ty))
      [] f.fn = "Quantile" -> ReadCounted(rest, 1, LAMBDA r : decode_value(r, f.ty))
      [] f.fn = "CountDistinct" -> distinct_decode(ReadCounted(rest, 1, ReadBytes))
      [] f.fn = "Histogram" -> histogram_decode(f, rest)
      [] f.fn = "ApproxCountDistinct" -> hll_decode(rest)
      [] f.fn = "ApproxQuantile" -> dd_decode(rest)
MergeDecoded(f, st, d) == IF d.ok THEN merge_one(f, st, d.v) ELSE Bad("Invalid")
merge_encoded(f, st, units) ==
    IF check_version(units).ok THEN MergeDecoded(f, st, DecodeBody(f, Tail(units))) ELSE Bad("Invalid")
------------------------------------------------------------------------------
(* Hash aggregation (agg/hash.rs).  A call is [f, args, filter, name]; group *)
(* g of the sink has the key ids[g], the values keys[g] and, per call, the   *)
(* state accs[call][g].                                                      *)
Duplicates(names) == \E i, j \in DOMAIN names : i # j /\ names[i] = names[j]
AggNew(fields, by, calls) ==
    LET wide(cols) == \E i \in DOMAIN cols : cols[i] > Len(fields)
        check(call) ==
            IF wide(call.args) \/ wide(call.filter) THEN Bad("Plan")
            ELSE IF call.filter # None /\ fields[call.filter[1]].ty.k # "BOOL" THEN Bad("Plan")
            ELSE accumulator(call.f, [i \in DOMAIN call.args |-> fields[call.args[i]].ty])
        accs == Every([c \in DOMAIN calls |-> check(calls[c])])
        names == [i \in DOMAIN by |-> fields[by[i]].name] \o [c \in DOMAIN calls |-> calls[c].name]
    IN IF wide(by) THEN Bad("Plan")
       ELSE IF ~IsGood(accs) THEN accs
       ELSE IF Duplicates(names) THEN Bad("Plan")
       ELSE Good([by |-> by, calls |-> calls,
                  types |-> [i \in DOMAIN by |-> fields[by[i]].ty],
                  ids |-> IF by = <<>> THEN <<<<>>>> ELSE <<>>,
                  keys |-> IF by = <<>> THEN <<<<>>>> ELSE <<>>,
                  accs |-> [c \in DOMAIN calls |-> IF by = <<>> THEN <<Zero(calls[c].f)>> ELSE <<>>]])
GroupAt(sink, vals, key) ==
    IF key \in ToSet(sink.ids) THEN sink ELSE [sink EXCEPT !.ids = Append(@, key), !.keys = Append(@, vals)]
group_of(sink, vals) == GroupAt(sink, vals, GroupKey(vals))
IdOf(sink, vals) == CHOOSE g \in DOMAIN sink.ids : sink.ids[g] = GroupKey(vals)
\* The states of a call, grown to the number of groups.
Grown(f, states, total) == [g \in 1 .. total |-> IF g <= Len(states) THEN states[g] ELSE Zero(f)]
SetState(states, g, st) == IF IsGood(st) THEN Good([states EXCEPT ![g] = st.v]) ELSE st
\* The rows that pass the filter, one by one; the first failure ends the call.
update(f, states, groups, args, keep) ==
    FoldLeft(LAMBDA acc, r :
                IF ~IsGood(acc) \/ ~keep[r] THEN acc
                ELSE SetState(acc.v, groups[r], update_one(f, acc.v[groups[r]], args[r])),
             Good(states), [r \in DOMAIN groups |-> r])
Cells(rows, r, cols) == [i \in DOMAIN cols |-> rows[r][cols[i]]]
Passes(rows, call) == [r \in DOMAIN rows |-> call.filter = None \/ rows[r][call.filter[1]] = Val("BOOL", 1)]
WithStates(sink, done) == IF IsGood(done) THEN Good([sink EXCEPT !.accs = done.v]) ELSE done
UpdateCall(sink, rows, groups, call, states) ==
    update(call.f, Grown(call.f, states, Len(sink.ids)), groups, [r \in DOMAIN rows |-> Cells(rows, r, call.args)], Passes(rows, call))
PushCalls(sink, rows, groups) ==
    WithStates(sink, Every([c \in DOMAIN sink.calls |-> UpdateCall(sink, rows, groups, sink.calls[c], sink.accs[c])]))
PushGroups(sink, rows) == PushCalls(sink, rows, [r \in DOMAIN rows |-> IdOf(sink, Cells(rows, r, sink.by))])
\* rows is the batch, as a sequence of rows.
AggPush(sink, rows) ==
    PushGroups(FoldLeft(group_of, sink, [r \in DOMAIN rows |-> Cells(rows, r, sink.by)]), rows)
\* The groups of other, renumbered by their keys; their states come as they are, or encoded.
merge_mapping_identity(sink, other) == [g \in DOMAIN other.ids |-> g]
merge_mapping(sink, other) == [g \in DOMAIN other.ids |-> IdOf(sink, other.keys[g])]
MergeState(f, st, theirs, encoded) ==
    IF encoded THEN merge_encoded(f, st, encode_state(f, theirs)) ELSE merge_one(f, st, theirs)
merge_states(f, states, theirs, mapping, encoded) ==
    FoldLeft(LAMBDA acc, g :
                IF ~IsGood(acc) \/ g > Len(theirs) THEN acc
                ELSE SetState(acc.v, mapping[g], MergeState(f, acc.v[mapping[g]], theirs[g], encoded)),
             Good(states), [g \in DOMAIN mapping |-> g])
MergeCalls(sink, other, mapping, encoded) ==
    WithStates(sink, Every([c \in DOMAIN sink.calls |->
        merge_states(sink.calls[c].f, Grown(sink.calls[c].f, sink.accs[c], Len(sink.ids)), other.accs[c], mapping, encoded)]))
MergeGroups(sink, other, encoded) == MergeCalls(sink, other, merge_mapping(sink, other), encoded)
AggMerge(sink, other, encoded) == MergeGroups(FoldLeft(group_of, sink, other.keys), other, encoded)
\* One row per group: its key, then the result of each call.
FinishCall(f, states) == Every([g \in DOMAIN states |-> finish_one(f, states[g])])
ResultRows(sink, cells) ==
    IF ~IsGood(cells) THEN cells
    ELSE Good([g \in DOMAIN sink.ids |-> sink.keys[g] \o [c \in DOMAIN sink.calls |-> cells.v[c][g]]])
AggFinish(sink) ==
    ResultRows(sink, Every([c \in DOMAIN sink.calls |->
        FinishCall(sink.calls[c].f, Grown(sink.calls[c].f, sink.accs[c], Len(sink.ids)))]))
------------------------------------------------------------------------------
(* Gathering rows (kernels/select.rs).  An index is an Option; None takes a  *)
(* NULL.  The buffers behind a NULL are the type's default.                  *)
validity_push(b, valid) ==
    IF b.bits # None THEN [bits |-> Some(BitPush(b.bits[1], valid)), len |-> b.len + 1]
    ELSE IF valid THEN [b EXCEPT !.len = @ + 1]
    ELSE [bits |-> Some(BitPush(new_valid(b.len), FALSE)), len |-> b.len + 1]
ValidityOf(valid) == FoldLeft(validity_push, [bits |-> None, len |-> 0], valid).bits
LiveIndex(c, ix) == ix # None /\ ~IsNullAt(c, ix[1])
scalar_take(c, indices) == [i \in DOMAIN indices |-> IF LiveIndex(c, indices[i]) THEN c.data[indices[i][1]] ELSE 0]
take_varwidth(c, indices) ==
    LET part(i) == IF LiveIndex(c, indices[i]) THEN Range0(c, indices[i][1]) ELSE <<>>
        off[i \in 0 .. Len(indices)] == IF i = 0 THEN 0 ELSE off[i - 1] + Len(part(i))
    IN [off |-> [i \in 1 .. Len(indices) + 1 |-> off[i - 1]], data |-> FlattenSeq([i \in DOMAIN indices |-> part(i)])]
take_list_generic(c, indices) ==
    from_values(c.ty, [i \in DOMAIN indices |-> IF indices[i] = None THEN Null ELSE get(c, indices[i][1])]).b
TakeData(c, indices) ==
    IF c.ty.k \in VarWidth THEN take_varwidth(c, indices) ELSE [off |-> <<>>, data |-> scalar_take(c, indices)]
TakenColumn(ty, d, valid) == from_parts(ty, [k |-> ty.k, off |-> d.off, data |-> d.data, child |-> None], valid)[1]
build_by_index(c, indices) ==
    IF c.ty.k = "LIST" THEN take_list_generic(c, indices)
    ELSE TakenColumn(c.ty, TakeData(c, indices), ValidityOf([i \in DOMAIN indices |-> LiveIndex(c, indices[i])]))
take_rows(c, indices) == build_by_index(c, [i \in DOMAIN indices |-> Some(indices[i])])
take_opt(c, indices) == build_by_index(c, indices)
\* Batch::new: one column per field, of its type, all equally long, under distinct names.
BatchNew(fields, columns) ==
    IF \/ Len(fields) # Len(columns)
       \/ \E i \in DOMAIN columns : columns[i].ty # fields[i].ty \/ ColumnLen(columns[i]) # ColumnLen(columns[1])
       \/ Duplicates([i \in DOMAIN fields |-> fields[i].name])
    THEN Bad("Batch") ELSE Good([fields |-> fields, columns |-> columns])
slice_batch(b, start, len) == BatchNew(b.fields, [i \in DOMAIN b.columns |-> slice(b.columns[i], start, len)]).v
BatchOf(fields, cols) ==
    IF \E i \in DOMAIN cols : cols[i] = None THEN Bad("TooLarge") ELSE BatchNew(fields, [i \in DOMAIN cols |-> cols[i][1]])
concat_batches(fields, batches) ==
    BatchOf(fields, [i \in DOMAIN fields |-> concat(fields[i].ty, [b \in DOMAIN batches |-> batches[b].columns[i]])])
Chunks(n) == [i \in 1 .. (n + BatchLimit - 1) \div BatchLimit |-> <<(i - 1) * BatchLimit, Min({BatchLimit, n - (i - 1) * BatchLimit})>>]
CutAt(batch, cuts) == [i \in DOMAIN cuts |-> slice_batch(batch, cuts[i][1], cuts[i][2])]
CutWhole(whole) == IF IsGood(whole) THEN Good(CutAt(whole.v, Chunks(BatchRows(whole.v)))) ELSE whole
rechunk(fields, batches) ==
    IF \A b \in DOMAIN batches : BatchRows(batches[b]) = 0 THEN Good(<<>>) ELSE CutWhole(concat_batches(fields, batches))
------------------------------------------------------------------------------
(* The hash join (join/build.rs, join/probe.rs).                             *)
KeyCells(b, r, cols) == [i \in DOMAIN cols |-> get(b.columns[cols[i]], r)]
\* Rows without a key are not in the table; a key maps to its rows in order.
KeyMap(ks) == [k \in {ks[r][1] : r \in {r \in DOMAIN ks : ks[r] # None}} |->
                SelectSeq([r \in DOMAIN ks |-> r], LAMBDA r : ks[r] = Some(k))]
RowKeys(b, keys) == [r \in 1 .. BatchRows(b) |-> encode_row_key(KeyCells(b, r, keys), TRUE)]
TableOf(whole, keys) ==
    IF IsGood(whole) THEN Good([batch |-> whole.v, keys |-> keys, map |-> KeyMap(RowKeys(whole.v, keys))]) ELSE whole
into_table(fields, keys, batches) == TableOf(concat_batches(fields, batches), keys)
ProbeNew(table, fields, keys) ==
    IF \/ Len(keys) # Len(table.keys)
       \/ \E i \in DOMAIN keys : fields[keys[i]].ty # table.batch.fields[table.keys[i]].ty
       \/ Duplicates([i \in DOMAIN (fields \o table.batch.fields) |-> (fields \o table.batch.fields)[i].name])
    THEN Bad("Plan") ELSE Good(fields \o table.batch.fields)
\* What one probe row joins with: pairs of its number and an Option of a build row.
hits(table, left, r, key) ==
    IF key # None /\ key[1] \in DOMAIN table.map
    THEN [i \in DOMAIN table.map[key[1]] |-> <<r, Some(table.map[key[1]][i])>>]
    ELSE IF left THEN <<<<r, None>>>> ELSE <<>>
emit(table, fields, b, pairs) ==
    BatchNew(fields,
        [i \in DOMAIN b.columns |-> take_rows(b.columns[i], [p \in DOMAIN pairs |-> pairs[p][1]])]
        \o [i \in DOMAIN table.batch.columns |-> take_opt(table.batch.columns[i], [p \in DOMAIN pairs |-> pairs[p][2]])]).v
Pairs(table, left, ks) == FlattenSeq([r \in DOMAIN ks |-> hits(table, left, r, ks[r])])
EmitCuts(table, fields, b, pairs, cuts) ==
    [i \in DOMAIN cuts |-> emit(table, fields, b, SubSeq(pairs, cuts[i][1] + 1, cuts[i][1] + cuts[i][2]))]
EmitAll(table, fields, b, pairs) == EmitCuts(table, fields, b, pairs, Chunks(Len(pairs)))
ProbePush(table, fields, b, keys, left) ==
    EmitAll(table, fields, b, Pairs(table, left, RowKeys(b, keys)))
------------------------------------------------------------------------------
(* UNION ALL and projection (ops/union_all.rs, ops/project.rs).              *)
UnionNew(inputs) ==
    IF inputs = <<>> THEN Bad("Plan")
    ELSE IF \E i \in DOMAIN inputs : [c \in DOMAIN inputs[i].fields |-> inputs[i].fields[c].ty]
                                      # [c \in DOMAIN inputs[1].fields |-> inputs[1].fields[c].ty] THEN Bad("Plan")
    ELSE Good(inputs[1].fields)
RECURSIVE locate(_, _, _)
locate(inputs, i, morsel) ==
    IF morsel < Len(inputs[i].morsels) THEN <<i, morsel>> ELSE locate(inputs, i + 1, morsel - Len(inputs[i].morsels))
\* A morsel of the union is one of an input, under the first input's names.
Renamed(fields, batches) == [b \in DOMAIN batches |-> BatchNew(fields, batches[b].columns).v]
MorselAt(inputs, at) == inputs[at[1]].morsels[at[2] + 1]
union_read(inputs, fields, morsel) == Renamed(fields, MorselAt(inputs, locate(inputs, 1, morsel)))
Projected(exprs, types) ==
    IF IsGood(types) THEN Good([i \in DOMAIN exprs |-> Field(exprs[i].name, types.v[i])]) ELSE types
ProjectNew(exprs, fields) ==
    IF Duplicates([i \in DOMAIN exprs |-> exprs[i].name]) THEN Bad("Plan")
    ELSE Projected(exprs, Every([i \in DOMAIN exprs |-> data_type(exprs[i].e, fields)]))
ProjectedBatch(fields, cols) == IF IsGood(cols) THEN BatchNew(fields, cols.v) ELSE cols
ProjectPush(exprs, fields, b) ==
    ProjectedBatch(fields, Every([i \in DOMAIN exprs |->
        IF exprs[i].e.op = "column" THEN Good(b.columns[exprs[i].e.c]) ELSE eval(exprs[i].e, b)]))
=============================================================================
