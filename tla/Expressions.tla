---------------------------- MODULE Expressions ----------------------------
(***************************************************************************)
(* exec/expr and exec/kernels: the expression tree, its typing, and its     *)
(* evaluation over a batch, column by column, under SQL's three-valued      *)
(* logic.                                                                   *)
(*                                                                          *)
(* A batch is [fields, columns, rows].  An outcome is [err, v]: err = "" or *)
(* the kind of ExecError.  i64 arithmetic that the code does not check      *)
(* wraps, as it does in the release profile.  A string is a sequence of     *)
(* bytes; a byte from 8 on continues the character before it.               *)
(***************************************************************************)
EXTENDS SegmentFile

Node(op, args) ==
    [op |-> op, name |-> "", c |-> 0, v |-> Null, ty |-> Ty("BOOL"), args |-> args, list |-> <<>>,
     negated |-> FALSE, ci |-> FALSE, unit |-> "", m |-> 0, n |-> 0]
ECol(i) == [Node("column", <<>>) EXCEPT !.c = i]
ELit(v, ty) == [Node("literal", <<>>) EXCEPT !.v = v, !.ty = ty]
ECmp(name, l, r) == [Node("cmp", <<l, r>>) EXCEPT !.name = name]
EIn(e, list, negated) == [Node("in", <<e>>) EXCEPT !.list = list, !.negated = negated]
EBetween(e, low, high, negated) == [Node("between", <<e, low, high>>) EXCEPT !.negated = negated]
ELike(e, pattern, ci, negated) ==
    [Node("like", <<e>>) EXCEPT !.list = pattern, !.ci = ci, !.negated = negated]
EArith(name, l, r) == [Node("arith", <<l, r>>) EXCEPT !.name = name]
ECast(e, ty) == [Node("cast", <<e>>) EXCEPT !.ty = ty]
\* args alternates conditions and results; negated says that an ELSE follows them.
ECase(args, otherwise) == [Node("case", args \o otherwise) EXCEPT !.negated = otherwise # <<>>]
EFunc(name, args) == [Node("func", args) EXCEPT !.name = name]

flip(op) ==
    CASE op = "Lt" -> "Gt" [] op = "Le" -> "Ge" [] op = "Gt" -> "Lt" [] op = "Ge" -> "Le" [] OTHER -> op
\* A list of outcomes: the first error, or all the values.
Every(rs) ==
    LET failed == {i \in DOMAIN rs : ~IsGood(rs[i])} IN
    IF failed # {} THEN Bad(rs[Min(failed)].err) ELSE Good([i \in DOMAIN rs |-> rs[i].v])
------------------------------------------------------------------------------
(* Typing.                                                                   *)
same_kind(a, b) ==
    CASE a.k = "DECIMAL" /\ b.k = "DECIMAL" -> TRUE
      [] a.k = "LIST" /\ b.k = "LIST" -> a.e = b.e
      [] OTHER -> a = b
add_sub_precision(scale, a, b) == Min({Max({a.p - a.s, b.p - b.s}) + scale + 1, MaxDigits})
decimal_arith_type(op, a, b) ==
    CASE op \in {"Add", "Sub", "Mod"} ->
           LET scale == Max({a.s, b.s}) IN Good(DecimalType(add_sub_precision(scale, a, b), scale)[1])
      [] op = "Mul" -> IF a.s + b.s > MaxDigits THEN Bad("Plan")
                       ELSE Good(DecimalType(Min({a.p + b.p, MaxDigits}), a.s + b.s)[1])
      [] op = "Div" -> Good(Ty("FLOAT64"))
arith_type(op, lt, rt) ==
    IF ~is_numeric(lt) \/ ~is_numeric(rt) THEN Bad("Plan")
    ELSE IF lt.k = "DECIMAL" /\ rt.k = "DECIMAL" THEN decimal_arith_type(op, lt, rt)
    ELSE IF lt = rt THEN Good(lt) ELSE Bad("Plan")
func_type(e, args) ==
    LET kinds == [i \in DOMAIN args |-> args[i].k]
        sig(want, ty) == IF kinds = want THEN Good(Ty(ty)) ELSE Bad("Plan")
    IN CASE e.name \in {"lower", "upper"} -> sig(<<"STRING">>, "STRING")
         [] e.name = "length" -> sig(<<"STRING">>, "INT64")
         [] e.name = "substr" -> IF kinds \in {<<"STRING", "INT64">>, <<"STRING", "INT64", "INT64">>}
                                 THEN Good(Ty("STRING")) ELSE Bad("Plan")
         [] e.name = "concat" -> sig(<<"STRING", "STRING">>, "STRING")
         [] e.name = "date_trunc" -> sig(<<"TIMESTAMP">>, "TIMESTAMP")
         [] e.name = "time_bucket" -> IF e.m <= 0 THEN Bad("Plan") ELSE sig(<<"TIMESTAMP">>, "TIMESTAMP")
         [] e.name = "extract" -> IF kinds \in {<<"TIMESTAMP">>, <<"DATE">>} THEN Good(Ty("INT64")) ELSE Bad("Plan")
         [] e.name = "coalesce_text" -> IF Len(kinds) = 2 /\ kinds[2] = "STRING" THEN Good(Ty("STRING")) ELSE Bad("Plan")

RECURSIVE data_type(_, _)
data_type(e, fields) ==
    LET ts == Every([i \in DOMAIN e.args |-> data_type(e.args[i], fields)])
        t == ts.v
        bool(i) == t[i] = Ty("BOOL")
        n == Len(e.args)
        pairs == IF e.negated THEN (n - 1) \div 2 ELSE n \div 2
    IN CASE e.op = "column" -> IF e.c \in DOMAIN fields THEN Good(fields[e.c].ty) ELSE Bad("Plan")
         [] e.op = "literal" -> IF ~is_null(e.v) /\ ~fits(e.v, e.ty) THEN Bad("Plan") ELSE Good(e.ty)
         [] ~IsGood(ts) -> ts
         [] IsGood(ts) /\ e.op = "cmp" -> IF same_kind(t[1], t[2]) THEN Good(Ty("BOOL")) ELSE Bad("Plan")
         [] IsGood(ts) /\ e.op \in {"and", "or"} ->
              IF n = 0 \/ \E i \in 1 .. n : ~bool(i) THEN Bad("Plan") ELSE Good(Ty("BOOL"))
         [] IsGood(ts) /\ e.op = "not" -> IF bool(1) THEN Good(Ty("BOOL")) ELSE Bad("Plan")
         [] IsGood(ts) /\ e.op \in {"is_null", "is_not_null"} -> Good(Ty("BOOL"))
         [] IsGood(ts) /\ e.op = "in" ->
              IF \E i \in DOMAIN e.list : ~is_null(e.list[i]) /\ ~fits(e.list[i], t[1]) THEN Bad("Plan")
              ELSE Good(Ty("BOOL"))
         [] IsGood(ts) /\ e.op = "between" ->
              IF same_kind(t[1], t[2]) /\ same_kind(t[1], t[3]) THEN Good(Ty("BOOL")) ELSE Bad("Plan")
         [] IsGood(ts) /\ e.op = "like" -> IF t[1].k = "STRING" THEN Good(Ty("BOOL")) ELSE Bad("Plan")
         [] IsGood(ts) /\ e.op = "arith" -> arith_type(e.name, t[1], t[2])
         [] IsGood(ts) /\ e.op = "neg" ->
              IF t[1].k \in {"INT64", "FLOAT64", "DECIMAL"} THEN Good(t[1]) ELSE Bad("Plan")
         [] IsGood(ts) /\ e.op = "case" ->
              IF \/ pairs = 0
                 \/ \E i \in 1 .. pairs : ~bool(2 * i - 1) \/ t[2 * i] # t[2]
                 \/ e.negated /\ t[n] # t[2]
              THEN Bad("Plan") ELSE Good(t[2])
         [] IsGood(ts) /\ e.op = "cast" -> IF castable(t[1], e.ty) THEN Good(e.ty) ELSE Bad("Plan")
         [] IsGood(ts) /\ e.op = "func" -> func_type(e, t)
RECURSIVE conjuncts(_)
conjuncts(e) == IF e.op = "and" THEN FlattenSeq([i \in DOMAIN e.args |-> conjuncts(e.args[i])]) ELSE <<e>>
------------------------------------------------------------------------------
(* Boolean and comparison kernels.  A row's outcome is None or Some(b); the  *)
(* kernels compute the outcomes of all rows, and BoolCol is their column.    *)
BoolCol(outcomes) ==
    from_values(Ty("BOOL"), [i \in DOMAIN outcomes |->
        IF outcomes[i] = None THEN Null ELSE Val("BOOL", IF outcomes[i][1] THEN 1 ELSE 0)]).b
row_bool(c, i) == IF IsNullAt(c, i) THEN None ELSE Some(c.data[i] = 1)
kleene_and(a, b) ==
    IF Some(FALSE) \in {a, b} THEN Some(FALSE) ELSE IF {a, b} = {Some(TRUE)} THEN Some(TRUE) ELSE None
kleene_or_false(a, b) == Some(Some(TRUE) \in {a, b})
kleene_or(a, b) ==
    IF Some(TRUE) \in {a, b} THEN Some(TRUE) ELSE IF {a, b} = {Some(FALSE)} THEN Some(FALSE) ELSE None
RowsIn(c) == 1 .. ColumnLen(c)
row_bools(c) == [i \in RowsIn(c) |-> row_bool(c, i)]
and_(a, b) == [i \in DOMAIN a |-> kleene_and(a[i], b[i])]
or_(a, b) == [i \in DOMAIN a |-> kleene_or(a[i], b[i])]
not_(a) == [i \in DOMAIN a |-> IF a[i] = None THEN None ELSE Some(~a[i][1])]
truthy(c) == [i \in RowsIn(c) |-> row_bool(c, i) = Some(TRUE)]
\* Eq and Ne are SQL equality, the others the total order.
OrderHolds(op, ord) == CASE op = "Lt" -> ord < 0 [] op = "Le" -> ord <= 0 [] op = "Gt" -> ord > 0 [] op = "Ge" -> ord >= 0
apply_cmp(op, a, b) ==
    IF op \in {"Eq", "Ne"} THEN sql_eq(a, b)[1] <=> op = "Eq" ELSE OrderHolds(op, total_cmp(a, b)[1])
matches_kind(ty, v) ==
    /\ v.k = ty.k
    /\ ty.k = "LIST" => \A i \in DOMAIN v.x : is_null(v.x[i]) \/ v.x[i].k = ty.e[1].k
compare_scalar(c, op, v) ==
    IF is_null(v) THEN Good([i \in RowsIn(c) |-> None])
    ELSE IF ~matches_kind(c.ty, v) THEN Bad("Plan")
    ELSE Good([i \in RowsIn(c) |-> IF IsNullAt(c, i) THEN None ELSE Some(apply_cmp(op, get(c, i), v))])
compare(l, op, r) ==
    IF ColumnLen(l) # ColumnLen(r) \/ ~same_kind(l.ty, r.ty) THEN Bad("Plan")
    ELSE Good([i \in RowsIn(l) |-> IF IsNullAt(l, i) \/ IsNullAt(r, i) THEN None
                                   ELSE Some(apply_cmp(op, get(l, i), get(r, i)))])
------------------------------------------------------------------------------
(* Arithmetic.  Division and remainder by zero are NULL for integers and     *)
(* decimals; every other result outside the type is an Overflow.  Floats     *)
(* follow IEEE 754 with the sign of a zero result left out.                  *)
Checked(ok, v) == IF ok THEN Good(v) ELSE Bad("Overflow")
IntOp(op, a, b) ==
    CASE op = "Add" -> a + b [] op = "Sub" -> a - b [] op = "Mul" -> a * b
      [] op = "Div" -> TruncDiv(a, Abs(b)) * Signum(b)
      [] op = "Mod" -> TruncRem(a, Abs(b))
apply_int64(op, a, b) ==
    IF op \in {"Div", "Mod"} /\ b = 0 THEN Good(Null)
    ELSE Checked(FitsInt(IntOp(op, a, b)) /\ ~(op = "Mod" /\ a = IntMin /\ b = -1), Val("INT64", IntOp(op, a, b)))
apply_uint64(op, a, b) ==
    IF op \in {"Div", "Mod"} /\ b = 0 THEN Good(Null)
    ELSE Checked(FitsUInt(IntOp(op, a, b)), Val("UINT64", IntOp(op, a, b)))
FloatSign(h) == IF h = Inf THEN 1 ELSE IF h = -Inf THEN -1 ELSE Signum(Half(h))
FloatNeg(h) == CASE h = NaN -> NaN [] h = 0 -> NegZero [] h = NegZero -> 0 [] OTHER -> -h
FloatOp(op, a, b) ==
    LET x == Half(a)  y == Half(b)
        finite == IsFinite(a) /\ IsFinite(b)
    IN CASE NaN \in {a, b} -> NaN
         [] op = "Add" -> IF finite THEN RoundF(x + y, 1) ELSE IF ~IsFinite(a) /\ ~IsFinite(b) /\ a # b THEN NaN
                          ELSE IF IsFinite(a) THEN b ELSE a
         [] op = "Sub" -> IF finite THEN RoundF(x - y, 1) ELSE IF a = b THEN NaN
                          ELSE IF IsFinite(a) THEN -b ELSE a
         [] op = "Mul" -> IF finite THEN RoundF(x * y, 2) ELSE IF FloatSign(a) * FloatSign(b) = 0 THEN NaN
                          ELSE FloatSign(a) * FloatSign(b) * Inf
         [] op = "Div" -> IF finite /\ y # 0 THEN RoundF(2 * x * Signum(y), Abs(y))
                          ELSE IF finite THEN (IF x = 0 THEN NaN ELSE Signum(x) * Inf)
                          ELSE IF IsFinite(b) THEN (IF FloatSign(b) < 0 THEN -a ELSE a)
                          ELSE IF IsFinite(a) THEN 0 ELSE NaN
         [] op = "Mod" -> IF ~IsFinite(a) \/ y = 0 THEN NaN ELSE IF ~IsFinite(b) THEN a ELSE TruncRem(x, Abs(y))
check_decimal_range(n, p) == Abs(n) < pow10(p)
DecimalValue(n, ty) == [k |-> "DECIMAL", v |-> n, s |-> ty.s, x |-> <<>>]
\* Out-of-range intermediates (i128) are Overflow too.
decimal_op(op, a, b, out) ==
    LET lv == IF op = "Mul" THEN a.v ELSE a.v * pow10(out.s - a.s)
        rv == IF op = "Mul" THEN b.v ELSE b.v * pow10(out.s - b.s)
        n == IntOp(op, lv, rv)
    IN IF ~InI128(lv) \/ ~InI128(rv) THEN Bad("Overflow")
       ELSE IF op = "Mod" /\ rv = 0 THEN Good(Null)
       ELSE Checked(InI128(n) /\ check_decimal_range(n, out.p), DecimalValue(n, out))
\* (a / 10^sa) / (b / 10^sb) in floats; NULL when b is zero.
decimal_div(a, b) ==
    IF b.v = 0 THEN Good(Null)
    ELSE Good(Val("FLOAT64", FloatOp("Div", RoundF(2 * a.v, pow10(a.s)), RoundF(2 * b.v, pow10(b.s)))))
arith_value(op, a, b, out) ==
    CASE a.k = "INT64" -> apply_int64(op, a.v, b.v)
      [] a.k = "UINT64" -> apply_uint64(op, a.v, b.v)
      [] a.k = "FLOAT64" -> Good(Val("FLOAT64", FloatOp(op, a.v, b.v)))
      [] a.k = "DECIMAL" -> IF op = "Div" THEN decimal_div(a, b) ELSE decimal_op(op, a, b, out)
\* The first row that fails fails the column.
Built(r) == IF r.err # "" THEN Bad(r.err) ELSE Good(r.b)
ColumnOf(ty, vals) == IF IsGood(vals) THEN Built(from_values(ty, vals.v)) ELSE vals
neg_value(v) ==
    CASE v.k = "INT64" -> Checked(v.v # IntMin, Val("INT64", -v.v))
      [] v.k = "FLOAT64" -> Good(Val("FLOAT64", FloatNeg(v.v)))
      [] v.k = "DECIMAL" -> Good([v EXCEPT !.v = -v.v])
------------------------------------------------------------------------------
(* Strings and LIKE.  A pattern is a sequence of characters with the codes   *)
(* -1 for %, -2 for _ and -3 for the escape.                                 *)
Chars(b) ==
    LET starts == SetToSortSeq({i \in DOMAIN b : b[i] < 8}, <) IN
    [i \in DOMAIN starts |-> SubSeq(b, starts[i], IF i < Len(starts) THEN starts[i + 1] - 1 ELSE Len(b))]
CharCodes(b) == [i \in DOMAIN Chars(b) |-> FoldLeft(LAMBDA n, u : n * 16 + u, 0, Chars(b)[i])]
ToLower(b) == IF b \in 4 .. 5 THEN b - 2 ELSE b
ToUpper(b) == IF b \in 2 .. 3 THEN b + 2 ELSE b
like_compile(pattern) ==
    LET step(r, c) ==
            IF r.esc THEN [toks |-> Append(r.toks, <<"char", c>>), esc |-> FALSE]
            ELSE IF c = -3 THEN [r EXCEPT !.esc = TRUE]
            ELSE [r EXCEPT !.toks = Append(@, IF c = -1 THEN <<"any", 0>> ELSE IF c = -2 THEN <<"one", 0>> ELSE <<"char", c>>)]
        all == FoldLeft(step, [toks |-> <<>>, esc |-> FALSE], pattern)
    IN IF all.esc THEN Bad("Invalid") ELSE Good(all.toks)
char_eq(a, b, ci) == IF ci THEN ToLower(a) = ToLower(b) ELSE a = b
\* The two-pointer matcher: si, pi, the last % seen (0: none) and where it matches from.
\* After a mismatch: one more character for the last %.
retry(st) == [si |-> st.from + 1, pi |-> st.star + 1, star |-> st.star, from |-> st.from + 1]
RECURSIVE like_run(_, _, _, _)
like_run(s, p, ci, st) ==
    LET tok == IF st.pi <= Len(p) THEN p[st.pi] ELSE <<"end", 0>>
        hit == tok[1] = "one" \/ (tok[1] = "char" /\ char_eq(tok[2], s[st.si], ci))
    IN IF st.si > Len(s) THEN \A i \in st.pi .. Len(p) : p[i][1] = "any"
       ELSE IF hit THEN like_run(s, p, ci, [st EXCEPT !.si = @ + 1, !.pi = @ + 1])
       ELSE IF tok[1] = "any" THEN like_run(s, p, ci, [si |-> st.si, pi |-> st.pi + 1, star |-> st.pi, from |-> st.si])
       ELSE IF st.star # 0
       THEN like_run(s, p, ci, retry(st))
       ELSE FALSE
like_match(s, p, ci) == like_run(s, p, ci, [si |-> 1, pi |-> 1, star |-> 0, from |-> 0])
LikeRows(c, toks, ci) ==
    IF ~IsGood(toks) THEN toks
    ELSE Good([i \in RowsIn(c) |-> IF IsNullAt(c, i) THEN None ELSE Some(like_match(CharCodes(get(c, i).x), toks.v, ci))])
like(c, pattern, ci) == IF c.ty.k # "STRING" THEN Bad("Plan") ELSE LikeRows(c, like_compile(pattern), ci)
\* Positions from start, len of them; what lies outside the string counts and is dropped.
substr_one(chars, start, len) ==
    LET lo == Max({start, 1})
        hi == IF len = None THEN Len(chars) + 1 ELSE Min({start + len[1], Len(chars) + 1})
    IN IF len # None /\ len[1] < 0 THEN Bad("Invalid")
       ELSE Good(IF hi <= lo THEN <<>> ELSE FlattenSeq(SubSeq(chars, lo, hi - 1)))
AsStr(r) == IF IsGood(r) THEN Good(Seqv("STRING", r.v)) ELSE r
substr(a) == AsStr(substr_one(Chars(a[1].x), a[2].v, IF Len(a) = 3 THEN Some(a[3].v) ELSE None))
------------------------------------------------------------------------------
(* Times.                                                                    *)
WrapInt(n) == ((n - IntMin) % 2^(IntBits + 1)) + IntMin
weekday_mon0(days) == (days + 3) % 7
UnitWidth(unit) ==
    CASE unit = "microsecond" -> FracBase [] unit = "millisecond" -> FracBase^2 [] unit = "second" -> SecNs
      [] unit = "minute" -> MinuteSeconds * SecNs [] unit = "hour" -> HourMinutes * MinuteSeconds * SecNs
      [] unit = "day" -> DayNs
trunc_ns(ns, unit) ==
    LET days == ns \div DayNs
        ymd == civil_from_days(days)
        month == CASE unit = "month" -> ymd[2] [] unit = "quarter" -> ((ymd[2] - 1) \div 3) * 3 + 1 [] OTHER -> 1
    IN CASE unit = "week" -> WrapInt((days - weekday_mon0(days)) * DayNs)
         [] unit \in {"month", "quarter", "year"} -> WrapInt(days_from_civil(ymd[1], month, 1) * DayNs)
         [] OTHER -> WrapInt((ns \div UnitWidth(unit)) * UnitWidth(unit))
time_bucket(ns, width, origin) ==
    LET since == WrapInt(ns - origin) IN WrapInt(origin + WrapInt((since \div width) * width))
day_of_year(days, year) == days - days_from_civil(year, 1, 1) + 1
iso_week(days, year) ==
    LET p(y) == (y + y \div 4 - y \div 100 + y \div 400) % 7
        weeks(y) == IF p(y) = 4 \/ p(y - 1) = 3 THEN 53 ELSE 52
        week == (day_of_year(days, year) - (weekday_mon0(days) + 1) + 10) \div 7
    IN IF week < 1 THEN weeks(year - 1) ELSE IF week > weeks(year) THEN 1 ELSE week
extract_ns(ns, part) ==
    LET days == ns \div DayNs
        of_day == ns % DayNs
        ymd == civil_from_days(days)
        sec == (of_day \div SecNs) % MinuteSeconds
    IN CASE part = "year" -> ymd[1]
         [] part = "quarter" -> (ymd[2] - 1) \div 3 + 1
         [] part = "month" -> ymd[2]
         [] part = "week" -> iso_week(days, ymd[1])
         [] part = "day" -> ymd[3]
         [] part = "dow" -> (weekday_mon0(days) + 1) % 7
         [] part = "doy" -> day_of_year(days, ymd[1])
         [] part = "hour" -> of_day \div (HourMinutes * MinuteSeconds * SecNs)
         [] part = "minute" -> (of_day \div (MinuteSeconds * SecNs)) % HourMinutes
         [] part = "second" -> sec
         [] part = "millisecond" -> sec * FracBase + (of_day % SecNs) \div FracBase^2
         [] part = "microsecond" -> sec * FracBase^2 + (of_day % SecNs) \div FracBase
         [] part = "epoch" -> ns \div SecNs
\* A DATE is multiplied by the length of a day without a check.
extract(v, part) == Val("INT64", extract_ns(IF v.k = "DATE" THEN WrapInt(v.v * DayNs) ELSE v.v, part))
TruncUnits == {"microsecond", "millisecond", "second", "minute", "hour", "day", "week", "month", "quarter", "year"}
------------------------------------------------------------------------------
(* Evaluation.                                                               *)
coalesce_companion(primary, companion) ==
    [i \in RowsIn(primary) |->
        IF IsNullAt(primary, i) THEN get(companion, i) ELSE Seqv("STRING", to_text(get(primary, i)))]
func_value(e, a) ==
    CASE e.name = "lower" -> Good(Seqv("STRING", [i \in DOMAIN a[1].x |-> ToLower(a[1].x[i])]))
      [] e.name = "upper" -> Good(Seqv("STRING", [i \in DOMAIN a[1].x |-> ToUpper(a[1].x[i])]))
      [] e.name = "length" -> Good(Val("INT64", Len(Chars(a[1].x))))
      [] e.name = "concat" -> Good(Seqv("STRING", a[1].x \o a[2].x))
      [] e.name = "substr" -> substr(a)
      [] e.name = "date_trunc" -> Good(Val("TIMESTAMP", trunc_ns(a[1].v, e.unit)))
      [] e.name = "time_bucket" -> Good(Val("TIMESTAMP", time_bucket(a[1].v, e.m, e.n)))
      [] e.name = "extract" -> Good(extract(a[1], e.unit))
\* arith, neg and eval_func, row by row: a row is NULL when an argument is.
RowValue(e, ty, a) ==
    CASE e.op = "arith" -> arith_value(e.name, a[1], a[2], ty)
      [] e.op = "neg" -> neg_value(a[1])
      [] e.op = "func" -> func_value(e, a)
map_rows(e, ty, cols) ==
    Every([i \in RowsIn(cols[1]) |-> IF \E c \in DOMAIN cols : IsNullAt(cols[c], i) THEN Good(Null)
                                     ELSE RowValue(e, ty, [c \in DOMAIN cols |-> get(cols[c], i)])])
\* The rows after a cast: the first value that does not fit fails the column.
CastRows(r) == IF r = None THEN Bad("Cast") ELSE IF r = Panic THEN Bad("Panic") ELSE Good(r[1])
eval_cast(c, to) == CastRows(cast(Rows(c), c.ty, to))
ValueRows(e, ty, cols) ==
    CASE e.op = "arith" /\ (cols[1].ty.k # cols[2].ty.k \/ ~is_numeric(cols[1].ty)) -> Bad("Plan")
      [] e.op = "cast" -> eval_cast(cols[1], ty)
      [] e.op = "func" /\ e.name = "coalesce_text" -> Good(coalesce_companion(cols[1], cols[2]))
      [] OTHER -> map_rows(e, ty, cols)
Negate(r, negated) == IF IsGood(r) /\ negated THEN Good(not_(r.v)) ELSE r
BoolRows(e, cols) ==
    CASE e.op = "and" -> Good(FoldLeft(and_, row_bools(Head(cols)), [i \in 1 .. Len(cols) - 1 |-> row_bools(cols[i + 1])]))
      [] e.op = "or" -> Good(FoldLeft(or_, row_bools(Head(cols)), [i \in 1 .. Len(cols) - 1 |-> row_bools(cols[i + 1])]))
      [] e.op = "not" -> Good(not_(row_bools(cols[1])))
      [] e.op \in {"is_null", "is_not_null"} ->
            Good([i \in RowsIn(cols[1]) |-> Some(IsNullAt(cols[1], i) <=> e.op = "is_null")])
      [] e.op = "like" -> Negate(like(cols[1], e.list, e.ci), e.negated)
\* eval_cmp: a literal side is compared as a scalar, without a column.
CompareSides(op, l, r, lc, rc) ==
    CASE l.op = "literal" -> IF IsGood(rc) THEN compare_scalar(rc.v, flip(op), l.v) ELSE rc
      [] l.op # "literal" /\ ~IsGood(lc) -> lc
      [] l.op # "literal" /\ IsGood(lc) /\ r.op = "literal" -> compare_scalar(lc.v, op, r.v)
      [] OTHER -> IF IsGood(rc) THEN compare(lc.v, op, rc.v) ELSE rc
BothHold(ge, le) == IF ~IsGood(ge) THEN ge ELSE IF ~IsGood(le) THEN le ELSE Good(and_(ge.v, le.v))
AnyEqual(eqs, none) ==
    IF ~IsGood(eqs) THEN eqs ELSE Good(FoldLeft(or_, none, eqs.v))
InList(e, col) ==
    IF ~IsGood(col) THEN col
    ELSE AnyEqual(Every([i \in DOMAIN e.list |-> compare_scalar(col.v, "Eq", e.list[i])]), [i \in RowsIn(col.v) |-> Some(FALSE)])
\* Every condition and result is evaluated; each row takes its first true branch.
CasePick(e, pairs, cols, i, hits) ==
    IF hits # {} THEN get(cols[2 * Min(hits)], i)
    ELSE IF e.negated THEN get(cols[Len(e.args)], i) ELSE Null
CaseRows(e, rows, cols) ==
    LET pairs == IF e.negated THEN (Len(e.args) - 1) \div 2 ELSE Len(e.args) \div 2
    IN [i \in 1 .. rows |-> CasePick(e, pairs, cols, i, {j \in 1 .. pairs : row_bool(cols[2 * j - 1], i) = Some(TRUE)})]

RECURSIVE eval(_, _)
eval_cmp(op, l, r, batch) == CompareSides(op, l, r, eval(l, batch), eval(r, batch))
eval_between(e, batch) ==
    Negate(BothHold(eval_cmp("Ge", e.args[1], e.args[2], batch), eval_cmp("Le", e.args[1], e.args[3], batch)), e.negated)
eval_in_list(e, batch) == Negate(InList(e, eval(e.args[1], batch)), e.negated)
AsBools(r) == IF IsGood(r) THEN Good(BoolCol(r.v)) ELSE r
BoolOps == {"and", "or", "not", "is_null", "is_not_null", "like"}
\* The operators whose arguments are all evaluated first.
OnColumns(e, ty, rows, cols) ==
    IF ~IsGood(cols) THEN cols
    ELSE IF e.op \in BoolOps THEN AsBools(BoolRows(e, cols.v))
    ELSE ColumnOf(ty, IF e.op = "case" THEN Good(CaseRows(e, rows, cols.v)) ELSE ValueRows(e, ty, cols.v))
EvalTyped(e, ty, batch) ==
    CASE ~IsGood(ty) -> ty
      [] IsGood(ty) /\ e.op = "column" -> Good(batch.columns[e.c])
      [] IsGood(ty) /\ e.op = "literal" -> Built(from_values(ty.v, [i \in 1 .. batch.rows |-> e.v]))
      [] IsGood(ty) /\ e.op = "cmp" -> AsBools(eval_cmp(e.name, e.args[1], e.args[2], batch))
      [] IsGood(ty) /\ e.op = "in" -> AsBools(eval_in_list(e, batch))
      [] IsGood(ty) /\ e.op = "between" -> AsBools(eval_between(e, batch))
      [] OTHER -> OnColumns(e, ty.v, batch.rows, Every([i \in DOMAIN e.args |-> eval(e.args[i], batch)]))
eval(e, batch) == EvalTyped(e, data_type(e, batch.fields), batch)
=============================================================================
