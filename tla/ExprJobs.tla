------------------------------ MODULE ExprJobs ------------------------------
(***************************************************************************)
(* Checks of expressions and of the scan: predicates under three-valued     *)
(* logic, arithmetic at the ends of its types, LIKE, SUBSTR and the time    *)
(* functions against reference definitions, the typing of every operator,   *)
(* and the pruning of a written segment against the rows it holds.          *)
(***************************************************************************)
EXTENDS Prune, TypeJobs, SegmentJobs

Bool(b) == Val("BOOL", IF b THEN 1 ELSE 0)
\* A batch of one row.
OneRow(types, vals) ==
    [fields |-> [i \in DOMAIN types |-> SchemaField(i, types[i])], rows |-> 1,
     columns |-> [i \in DOMAIN types |-> from_values(types[i], <<vals[i]>>).b]]
And(a, b) == Node("and", <<a, b>>)
Or(a, b) == Node("or", <<a, b>>)
Not(a) == Node("not", <<a>>)
CmpOps == {"Eq", "Ne", "Lt", "Le", "Gt", "Ge"}
X == ECol(1)
Y == ECol(2)
\* Predicates that are monotone in what is known: no IS NULL and no CASE.
LogicAtoms(ty) ==
    {ECmp(op, X, Y) : op \in CmpOps} \cup {ECmp(op, ELit(IntV(1), ty), X) : op \in {"Lt", "Ge"}}
      \cup {EBetween(X, ELit(IntV(0), ty), Y, n) : n \in BOOLEAN}
      \cup {EIn(X, list, n) : list \in {<<>>, <<IntV(1)>>, <<IntV(0), Null>>}, n \in BOOLEAN}
LogicPreds ==
    LET atoms == LogicAtoms(Ty("INT64")) IN
    atoms \cup {Not(a) : a \in atoms} \cup {And(a, b) : a, b \in atoms} \cup {Or(a, Not(b)) : a, b \in atoms}
LogicVals == {Null, IntV(0), IntV(1), IntV(2)}
ArithOps == {"Add", "Sub", "Mul", "Div", "Mod"}
ArithPairs ==
    UNION {{<<v, w>> : v, w \in {x \in Numbers : x.k = k}} : k \in {"INT64", "UINT64", "DECIMAL"}}
LikeStrings == SeqOf({2, 4}, 4)
LikePatterns == SeqOf({-1, -2, 2, -3}, 4)
SubStrings == {<<>>, <<1, 9, 2>>, <<1, 2, 9, 9, 3>>}
TimePoints == {IntMin, IntMin + 1, -DayNs - 1, -1, 0, 1, 5, DayNs, IntMax} \cup {d * DayNs - 1 : d \in -31 .. 31}
ScanTypes == {Ty("INT64"), Ty("FLOAT64"), DecTy(2, 1), Ty("STRING")}
ScanVals(ty) ==
    CASE ty.k = "INT64" -> {Null, IntV(1), IntV(4)}
      [] ty.k = "FLOAT64" -> {Val("FLOAT64", NaN), Val("FLOAT64", NegZero), Val("FLOAT64", 3)}
      [] ty.k = "DECIMAL" -> {Null, Decimal(10, 1)[1], Decimal(-2, 1)[1]}
      [] ty.k = "STRING" -> {Null, Str(<<1>>), Str(<<2, 9, 9>>)}
ScanLits(ty) ==
    {Null} \cup ScanVals(ty) \cup
    CASE ty.k = "INT64" -> {IntV(2)}
      [] ty.k = "FLOAT64" -> {Val("FLOAT64", 0)}
      [] ty.k = "DECIMAL" -> {Decimal(1, 0)[1], Decimal(105, 2)[1]}
      [] ty.k = "STRING" -> {Str(<<2, 9>>), Str(<<2, 9, 9, 1>>), Str(<<>>)}
\* X is in the file, Y was added later.
ScanPreds(ty) ==
    LET lit(v) == ELit(v, IF v.k = "DECIMAL" THEN TypeOf(v) ELSE ty)
        lits == {lit(v) : v \in ScanLits(ty)}
        items == {v \in ScanLits(ty) : fits(v, ty)}
        cmps == {ECmp(op, X, l) : op \in CmpOps, l \in lits}
    IN cmps \cup {ECmp(op, l, X) : op \in CmpOps, l \in lits} \cup {ECmp("Eq", Y, l) : l \in lits}
         \cup {EBetween(X, l, h, n) : l, h \in lits, n \in BOOLEAN}
         \cup {EIn(X, <<v, w>>, n) : v \in items, w \in items \ ScanVals(ty), n \in BOOLEAN} \cup {EIn(X, <<>>, FALSE), EIn(Y, <<Null>>, FALSE)}
         \cup {Node(op, <<c>>) : op \in {"is_null", "is_not_null"}, c \in {X, Y}}
         \cup {Or(ECmp(op, X, l), Node("is_null", <<Y>>)) : op \in {"Lt", "Gt"}, l \in lits}
         \cup {Or(ECmp("Eq", X, l), And(ECmp("Gt", X, l), ECmp("Lt", X, l))) : l \in lits}
ScanSchema(ty) == <<SchemaField(1, ty), SchemaField(2, ty)>>
\* Deletions that name the stored column, the later column, both, or nothing at all.
ScanTombs(ty) ==
    LET v == CHOOSE v \in ScanVals(ty) : ~is_null(v)
        p(c, op) == [c |-> c, op |-> op, v |-> v]
    IN {<<>>, <<<<p(1, "Eq")>>>>, <<<<p(2, "Ne")>>, <<p(1, "Lt"), p(1, "Lt")>>>>, <<<<>>>>}
TypedArgs == <<Ty("INT64"), Ty("UINT64"), DecTy(2, 1), Ty("STRING"), Ty("TIMESTAMP"), Ty("BOOL")>>
TypedRow == <<IntV(IntMax), Val("UINT64", 0), Decimal(99, 1)[1], Str(<<2, 9>>), Val("TIMESTAMP", -1), Null>>
Leaves == {ECol(i) : i \in 1 .. 7} \cup {ELit(Decimal(125, 2)[1], DecTy(3, 2)), ELit(Val("FLOAT64", NaN), Ty("INT64"))}
TypedExprs ==
    LET pairs == {<<a, b>> : a, b \in Leaves}
        args == pairs \cup {<<a>> : a \in Leaves} \cup {<<a, ECol(1), b>> : a, b \in Leaves}
        deep == {EArith(op, p[1], ECol(3)) : op \in ArithOps, p \in pairs} \cup {Node("neg", <<a>>) : a \in Leaves}
    IN deep \cup {ECmp("Lt", p[1], p[2]) : p \in pairs} \cup {EArith(op, p[1], p[2]) : op \in ArithOps, p \in pairs}
         \cup {ECmp("Ne", d, ECol(3)) : d \in deep}
         \* the texts of TypeJobs are the strings that CAST parses
         \cup {ECast(a, ty) : a \in Leaves \ {ECol(4)}, ty \in {Ty("INT64"), Ty("STRING"), Ty("BOOL"), DecTy(1, 0)}}
         \cup {EFunc(f, a) : f \in {"lower", "length", "substr", "concat", "coalesce_text"}, a \in args}
         \cup {[EFunc("extract", <<a>>) EXCEPT !.unit = "dow"] : a \in Leaves}
         \cup {[EFunc("time_bucket", <<a>>) EXCEPT !.m = m] : a \in Leaves, m \in {0, 3}}
         \cup {[EFunc("date_trunc", <<a>>) EXCEPT !.unit = "day"] : a \in Leaves}
         \cup {ECase(<<ECmp("Eq", ECol(1), a), a>>, <<b>>) : a, b \in Leaves} \cup {ECase(<<ECol(6), a>>, <<>>) : a \in Leaves}
         \cup {Node("and", <<a, ECol(6)>>) : a \in Leaves} \cup {Node("or", <<>>)} \cup {Not(a) : a \in Leaves}
         \cup {ELike(a, pat, FALSE, TRUE) : a \in Leaves, pat \in {<<-1>>, <<-3>>}}
         \cup {EIn(a, <<Null, IntV(1)>>, FALSE) : a \in {ECol(1), ECol(4), ECol(7)}} \cup {EBetween(a, b, a, FALSE) : a, b \in Leaves}
ExprInit ==
    /\ pc = "start" /\ out = <<>>
    /\ \/ \E e \in LogicPreds, a, b \in LogicVals : job = [kind |-> "logic", e |-> e, row |-> <<a, b>>]
       \/ \E p \in ArithPairs, op \in ArithOps : job = [kind |-> "arith", op |-> op, a |-> p[1], b |-> p[2]]
       \/ \E s \in LikeStrings, p \in LikePatterns, ci \in BOOLEAN : job = [kind |-> "like", s |-> s, p |-> p, ci |-> ci]
       \/ \E s \in SubStrings, at \in {IntMin} \cup -2 .. 4, len \in {None} \cup {Some(n) : n \in {-1, 0, 1, 3, IntMax}} :
            job = [kind |-> "substr", s |-> s, at |-> at, len |-> len]
       \/ \E t \in TimePoints, unit \in TruncUnits : job = [kind |-> "trunc", t |-> t, unit |-> unit]
       \/ \E t \in TimePoints, w \in {1, 7, DayNs}, o \in {0, 5, -1, IntMax} : job = [kind |-> "bucket", t |-> t, w |-> w, o |-> o]
       \/ \E d \in Days : job = [kind |-> "week", d |-> d]
       \/ \E e \in TypedExprs : job = [kind |-> "typed", e |-> e]
       \/ \E ty \in ScanTypes : \E vals \in [1 .. 3 -> ScanVals(ty)], ix \in {<<>>, <<<<1, 1>>>>, <<<<1, 2>>>>} :
            /\ from_values(ty, vals).err = ""
            /\ job = [kind |-> "scan", ty |-> ty, vals |-> vals, ix |-> ix]
ArithNode(op, a, b) == EArith(op, ELit(a, TypeOf(a)), ELit(b, TypeOf(b)))
\* The expression of the job over its row.
JobExpr == IF job.kind = "arith" THEN ArithNode(job.op, job.a, job.b) ELSE job.e
JobTypes == CASE job.kind = "logic" -> <<Ty("INT64"), Ty("INT64")>> [] job.kind = "arith" -> <<>> [] job.kind = "typed" -> TypedArgs
JobRow == CASE job.kind = "logic" -> job.row [] job.kind = "arith" -> <<>> [] job.kind = "typed" -> TypedRow
ExprEval ==
    /\ job.kind \in {"logic", "arith", "typed"}
    /\ Run(job.kind, eval(JobExpr, OneRow(JobTypes, JobRow)))
ExprLike == Run("like", like(from_values(Ty("STRING"), <<Str(job.s)>>).b, job.p, job.ci))
ExprSubstr == Run("substr", substr_one(Chars(job.s), job.at, job.len))
ExprTrunc == Run("trunc", trunc_ns(job.t, job.unit))
ExprBucket == Run("bucket", time_bucket(job.t, job.w, job.o))
ExprWeek == Run("week", iso_week(job.d, civil_from_days(job.d)[1]))
\* Two row groups, of two rows and of one; the file has the first column only.
ScanFields(ty) == <<Field(1, ty)>>
ExprWriter ==
    /\ Is("scan", "start") /\ pc' = "first" /\ UNCHANGED job
    /\ out' = WriterNew(ScanFields(job.ty), Opts(2, <<>>, job.ix)).v
ExprPush ==
    /\ job.kind = "scan" /\ pc \in {"first", "second"} /\ UNCHANGED job
    /\ pc' = IF pc = "first" THEN "second" ELSE "pushed"
    /\ out' = WriterPush(out, Batch(ScanFields(job.ty), IF pc = "first" THEN <<<<job.vals[1]>>, <<job.vals[2]>>>> ELSE <<<<job.vals[3]>>>>)).v
ExprWrite ==
    /\ Is("scan", "pushed") /\ pc' = "written" /\ UNCHANGED job
    /\ \E w \in {finish(out).v} : out' = [ids |-> <<1>>, rows |-> 3, columns |-> w.columns, file |-> w.file]
ExprScan ==
    /\ Is("scan", "written") /\ pc' = "done"
    /\ \E pred \in ScanPreds(job.ty), tombs \in ScanTombs(job.ty) :
         /\ Len(tombs) = 0 \/ pred.op = "is_not_null"
         /\ job' = [kind |-> "scan", ty |-> job.ty, vals |-> job.vals, ix |-> job.ix, pred |-> pred, tombs |-> tombs]
         /\ out' = IF SegmentMayMatch(pred, out, ScanSchema(job.ty))
                   THEN scan_segment(out, ScanSchema(job.ty), Some(pred), tombs) ELSE Good(<<>>)
ExprNext == \/ ExprEval \/ ExprLike \/ ExprSubstr \/ ExprTrunc \/ ExprBucket \/ ExprWeek
            \/ ExprWriter \/ ExprPush \/ ExprWrite \/ ExprScan
------------------------------------------------------------------------------
Known(vals) == \A i \in DOMAIN vals : ~is_null(vals[i])
Completions(vals) == {w \in [DOMAIN vals -> LogicVals \ {Null}] : \A i \in DOMAIN vals : ~is_null(vals[i]) => w[i] = vals[i]}
Answer(r) == get(r.v, 1)
RECURSIVE Holds(_, _)
Holds(e, vals) ==
    LET val(a) == IF a.op = "column" THEN vals[a.c].v ELSE a.v.v
        x == val(e.args[1])
    IN CASE e.op = "and" -> \A i \in DOMAIN e.args : Holds(e.args[i], vals)
         [] e.op = "or" -> \E i \in DOMAIN e.args : Holds(e.args[i], vals)
         [] e.op = "not" -> ~Holds(e.args[1], vals)
         [] e.op = "between" -> e.negated # (val(e.args[2]) <= x /\ x <= val(e.args[3]))
         [] e.op = "in" -> e.negated # (\E i \in DOMAIN e.list : e.list[i] = IntV(x))
         [] e.op = "cmp" -> LET y == val(e.args[2]) IN
              CASE e.name = "Eq" -> x = y [] e.name = "Ne" -> x # y [] e.name = "Lt" -> x < y
                [] e.name = "Le" -> x <= y [] e.name = "Gt" -> x > y [] e.name = "Ge" -> x >= y
HasNullItem(e) == \E a \in {e} \cup ToSet(e.args) \cup UNION {ToSet(b.args) : b \in ToSet(e.args)} : Null \in ToSet(a.list)
(* kernels/boolean.rs and eval.rs: with every value known a predicate means what two-    *)
(* valued logic says; with NULLs it is TRUE or FALSE only when every way of filling them *)
(* in gives that answer, so that WHERE never keeps a row on a guess.                     *)
ThreeValued ==
    Done("logic") =>
        /\ IsGood(out)
        /\ Known(job.row) /\ ~HasNullItem(job.e) => Answer(out) = Bool(Holds(job.e, job.row))
        /\ ~is_null(Answer(out)) => \A w \in Completions(job.row) : Answer(eval(job.e, OneRow(JobTypes, w))) = Answer(out)
ArithAs(ty, n, lv, rv, v) ==
    LET zero == job.op \in {"Div", "Mod"} /\ job.b.v = 0 IN
    CASE ~IsGood(ty) -> out.err = "Plan" /\ job.a.s + job.b.s > MaxDigits
      [] IsGood(ty) /\ zero -> IsGood(out) => is_null(v)
      [] IsGood(ty) /\ ~zero /\ job.a.k # "DECIMAL" ->
           IF IsGood(out) THEN v = Val(job.a.k, n) /\ fits(v, Ty(job.a.k))
           ELSE /\ out.err = "Overflow"
                /\ IF job.a.k = "INT64" THEN ~FitsInt(n) \/ (job.op = "Mod" /\ job.b.v = -1) ELSE ~FitsUInt(n)
      [] IsGood(ty) /\ ~zero /\ job.a.k = "DECIMAL" /\ job.op = "Div" -> IsGood(out) /\ v.k = "FLOAT64"
      [] IsGood(ty) /\ ~zero /\ job.a.k = "DECIMAL" /\ job.op # "Div" ->
           IF IsGood(out) THEN v.v = n /\ v.s = ty.v.s /\ Abs(n) < pow10(ty.v.p)
           ELSE /\ out.err = "Overflow"
                /\ Abs(n) >= pow10(ty.v.p) \/ ~InI128(lv) \/ ~InI128(rv)
AtScale(v, s) == v.v * pow10(s - v.s)
ArithOf(ty, lv, rv) ==
    ArithAs(ty, IF job.a.k = "DECIMAL" /\ job.op = "Mul" THEN job.a.v * job.b.v ELSE IntOp(job.op, lv, rv), lv, rv, Answer(out))
ArithScaled(s) == ArithOf(data_type(JobExpr, <<>>), AtScale(job.a, s), AtScale(job.b, s))
(* arith.rs: integer and decimal results are exact in the declared result type, a        *)
(* division by zero is NULL, and everything else is an Overflow and never a wrapped or   *)
(* out-of-range value; an integer that fits is never refused.                            *)
ArithExact == Done("arith") => ArithScaled(IF job.a.k = "DECIMAL" THEN Max({job.a.s, job.b.s}) ELSE 0)
\* What a compiled pattern means, by its first token.
RECURSIVE Matches(_, _, _)
Matches(s, p, ci) ==
    IF p = <<>> THEN s = <<>>
    ELSE CASE Head(p)[1] = "any" -> \E n \in 0 .. Len(s) : Matches(SubSeq(s, n + 1, Len(s)), Tail(p), ci)
           [] Head(p)[1] = "one" -> s # <<>> /\ Matches(Tail(s), Tail(p), ci)
           [] Head(p)[1] = "char" ->
                s # <<>> /\ (Head(s) = Head(p)[2] \/ (ci /\ ToLower(Head(s)) = ToLower(Head(p)[2]))) /\ Matches(Tail(s), Tail(p), ci)
(* like.rs: the two-pointer matcher with one point to fall back to finds a match exactly *)
(* when some split of the string matches the pattern; a trailing escape is refused.      *)
LikeRight ==
    Done("like") =>
        LET toks == like_compile(job.p) IN
        IF ~IsGood(toks) THEN ~IsGood(out) ELSE out.v = <<Some(Matches(job.s, toks.v, job.ci))>>
(* string.rs substr_one: the characters whose positions lie in the window of len from    *)
(* start; what the window covers before the string counts, and no character is cut.      *)
SubstrRight ==
    Done("substr") =>
        LET chars == Chars(job.s)
            in(i) == i >= job.at /\ (job.len = None \/ i < job.at + job.len[1])
        IN IF job.len # None /\ job.len[1] < 0 THEN ~IsGood(out)
           ELSE out = Good(FlattenSeq(SelectSeq([i \in DOMAIN chars |-> IF in(i) THEN chars[i] ELSE <<>>], LAMBDA c : c # <<>>)))
Boundary(t, unit) ==
    LET ymd == civil_from_days(t \div DayNs) IN
    CASE unit = "week" -> t % DayNs = 0 /\ ((t \div DayNs) - 4) % 7 = 0
      [] unit = "month" -> t % DayNs = 0 /\ ymd[3] = 1
      [] unit = "quarter" -> t % DayNs = 0 /\ ymd[3] = 1 /\ ymd[2] \in {1, 4, 7, 10}
      [] unit = "year" -> t % DayNs = 0 /\ ymd[3] = 1 /\ ymd[2] = 1
      [] OTHER -> t % UnitWidth(unit) = 0
(* time.rs trunc_ns: the last boundary of the unit at or before the instant, before and  *)
(* after 1970, as long as that boundary is a timestamp.                                  *)
TruncRight ==
    Done("trunc") =>
        LET before == {b \in Max({job.t - 40 * DayNs, IntMin}) .. job.t : Boundary(b, job.unit)} IN
        before # {} => out = Max(before)
(* time.rs time_bucket: the instant lies in its bucket and buckets start a whole number  *)
(* of widths from the origin, as long as no intermediate leaves i64.                     *)
BucketRight ==
    Done("bucket") /\ FitsInt(job.t - job.o) /\ FitsInt(((job.t - job.o) \div job.w) * job.w + job.o) /\ FitsInt(((job.t - job.o) \div job.w) * job.w)
      => out <= job.t /\ job.t < out + job.w /\ (out - job.o) % job.w = 0
(* time.rs iso_week: the week's number is that of its Thursday, counted in the year the  *)
(* Thursday lies in, at every turn of the year.                                          *)
WeekRight ==
    Done("week") =>
        LET thursday == job.d - ((job.d - 4) % 7) + 3
            year == civil_from_days(thursday)[1]
        IN out = (thursday - days_from_civil(year, 1, 1)) \div 7 + 1
EvalAgrees(ty) ==
    IF ~IsGood(ty) THEN out.err = "Plan"
    ELSE IF IsGood(out) THEN out.v.ty = ty.v /\ ColumnLen(out.v) = 1
    ELSE out.err \in {"Overflow", "Cast", "Invalid", "TooLarge"}
(* expr/mod.rs:117, "`eval` must agree with every rule here": an expression that types   *)
(* evaluates to a column of exactly that type and length, or fails on a value; one that  *)
(* does not type fails before anything is evaluated.                                     *)
EvalAgreesWithType ==
    Done("typed") => EvalAgrees(data_type(job.e, [i \in DOMAIN TypedArgs |-> SchemaField(i, TypedArgs[i])]))
\* What the query must see: rows that are not deleted and satisfy the predicate.
Full == [fields |-> ScanSchema(job.ty), rows |-> 3,
         columns |-> <<from_values(job.ty, job.vals).b, NullColumn(job.ty, 3)>>]
Satisfying(b, keep) == SelectSeq([i \in 1 .. b.rows |-> i], LAMBDA i : keep[i])
Satisfied(b, at) == [k \in DOMAIN at |-> get(b.columns[1], at[k])]
\* The stored values of the rows that pass the filter, batch by batch.
Filtered(batches) ==
    [k \in DOMAIN batches |-> Satisfied(batches[k], Satisfying(batches[k], truthy(eval(job.pred, batches[k]).v)))]
LiveRow(vals, t) ==
    \A k \in DOMAIN t : \E p \in DOMAIN t[k] : t[k][p].c = 2 \/ is_null(vals)
        \/ ~apply_cmp(t[k][p].op, vals, t[k][p].v)
SameRows(full, got) == FlattenSeq(got) = SelectSeq(full, LAMBDA v : LiveRow(v, job.tombs))
ReadMatches(kept) == SameRows(Head(kept), Tail(kept))
ScanSeesAll == IsGood(out) /\ ReadMatches(Filtered(<<Full>> \o out.v))
(* prune.rs and scan.rs over a file the writer made: segments and row groups are skipped *)
(* by zone maps with cut bounds, NaN, NULL and added columns, and by skip indexes, and   *)
(* still every live row that satisfies the predicate is read, once and in order.         *)
ScanKeepsMatches ==
    Done("scan") /\ ~(job.ix = <<<<1, 1>>>> /\ job.ty.k \in {"FLOAT64", "DECIMAL"}) => ScanSeesAll
(* index/mod.rs:84, "False only when no row can equal `v`": the same for a BLOOM index   *)
(* on a column whose equal values can have different bytes.                              *)
BloomKeepsEqual == Done("scan") => ScanSeesAll
(* The functions over text and time (expr/like.rs, string.rs, time.rs, types/calendar)   *)
(* against what they are meant to find.                                                  *)
FunctionsRight == LikeRight /\ SubstrRight /\ TruncRight /\ BucketRight /\ WeekRight /\ CalendarRight
(* Expressions as a whole (exec/expr, exec/kernels): three-valued logic, exact arithmetic, *)
(* a result of the type that was planned, and the functions over text and time.          *)
ExpressionsRight == ThreeValued /\ ArithExact /\ EvalAgreesWithType /\ FunctionsRight
=============================================================================
