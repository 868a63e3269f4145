------------------------------ MODULE TypeJobs ------------------------------
(***************************************************************************)
(* Checks of the value system, of columns and of the column encodings: a    *)
(* value is coerced, cast, formatted, parsed and compared; a column is      *)
(* built value by value, sliced and joined; a column is encoded and decoded *)
(* again, from the chunk as written and from one that was damaged.          *)
(***************************************************************************)
EXTENDS Encodings, Jobs

CONSTANTS MaxRows   \* rows of a column that is built or encoded

DecTy(p, s) == DecimalType(p, s)[1]
ListTy(ty) == ListType(ty)[1]
Ints == {IntMin, -17, -1, 0, 1, 10, 15, 16, 17, IntMax}
UInts == {0, 1, 17, IntMax, IntMax + 1, UIntMax}
FloatHs == {NaN, Inf, -Inf, NegZero} \cup
    {RoundF(h, 1) : h \in {0, 1, -1, 3, 5, -5, -20, 21, 31, -33, 34,
                           2 * IntMin, 2 * IntMax + 2, 2 * UIntMax + 2, 199, -200}}
Decimals == {Decimal(u, s)[1] : u \in {0, 1, 5, -5, 15, -15, 100, -100, 949, 950, -950, 999}, s \in 0 .. MaxDigits}
Numbers == {Val("INT64", n) : n \in Ints} \cup {Val("UINT64", n) : n \in UInts}
             \cup {Val("FLOAT64", h) : h \in FloatHs} \cup Decimals
Times == {Val("DATE", n) : n \in {-DateMax - 1, -2, -1, 0, 1, DateMax}} \cup
         {Val("TIMESTAMP", n) : n \in {IntMin, -DayNs - 1, -DayNs, -1, 0, 1, 2, 4, 8, 63, DayNs - 1, DayNs, IntMax}}
Others == {Val("BOOL", 0), Val("BOOL", 1), Val("UUID", 0), Val("UUID", 3)}
            \cup {Val("IP", n) : n \in 0 .. 3} \cup {Seqv("BYTES", <<>>), Seqv("BYTES", <<3>>)}
Lists == {Seqv("LIST", xs) : xs \in SeqOf({Null, Val("INT64", 1), Val("INT64", 2)}, 2)}
Scalars == Numbers \cup Times \cup Others
NumericTypes == {Ty("INT64"), Ty("UINT64"), Ty("FLOAT64")} \cup {DecTy(p, s) : p \in 1 .. MaxDigits, s \in 0 .. 1}
                 \cup {DecTy(MaxDigits, MaxDigits)}
TypeOf(v) == IF v.k = "DECIMAL" THEN DecTy(MaxDigits, v.s) ELSE Ty(v.k)
\* Fractions of every length, past the one that a u8 counts as none.
NumTexts == {Text("num", neg, n, fr) : neg \in BOOLEAN, n \in {0, 1, 99, 128}, fr \in SeqOf({0, 5}, LenWrap + 1)}
\* The days around 1970, around year 0, around 1900 and around 2000.
Days == (-140 .. 140) \cup ((-719468 - 800) .. (-719468 + 800)) \cup (-25600 .. -25300) \cup (10900 .. 11100)
StringVals == {Seqv("STRING", <<>>), Seqv("STRING", <<7>>), Seqv("STRING", <<8, 9>>)}
PushVals(ty) ==
    {Null} \cup
    CASE ty.k = "INT64" -> {Val("INT64", 3), Val("INT64", -2), Val("UINT64", UIntMax)}
      [] ty.k = "STRING" -> StringVals
      [] ty.k = "LIST" -> {Seqv("LIST", xs) : xs \in SeqOf(StringVals \cup {Null}, 2)}
EncodeVals ==
    [INT64 |-> {0, 1, IntMax, IntMin, -1}, UINT64 |-> {0, 1, UIntMax}, DATE |-> {0, DateMax},
     BOOL |-> {0, 1}, FLOAT64 |-> {0, NegZero, NaN, -20, 24}]
Columnsof(ty, Vals) == {from_values(ty, vs).b : vs \in SeqOf(Vals \cup {Null}, MaxRows)}
\* Short columns of every kind, and two long enough to be sampled.
EncodeCols ==
    (UNION {Columnsof(Ty(k), {Val(k, n) : n \in EncodeVals[k]}) : k \in DOMAIN EncodeVals})
      \cup Columnsof(Ty("STRING"), {Seqv("STRING", <<7>>), Seqv("STRING", <<8, 9>>)})
      \cup Columnsof(ListTy(Ty("STRING")), {Seqv("LIST", xs) : xs \in SeqOf({Null, Seqv("STRING", <<7>>)}, 2)})
      \cup {from_values(Ty("INT64"), [i \in 1 .. MaxDecodeRows |-> Val("INT64", m * i)]).b : m \in {0, 1, 7}}
      \cup {from_values(Ty("STRING"), [i \in 1 .. MaxDecodeRows |-> Seqv("STRING", IF i = 2 THEN <<8>> ELSE <<>>)]).b}

TypeInit ==
    /\ pc = "start" /\ out = <<>>
    /\ \/ \E v \in Numbers, ty \in NumericTypes : job = [kind |-> "convert", v |-> v, ty |-> ty]
       \/ \E v \in Times, ty \in {Ty("DATE"), Ty("TIMESTAMP")} : job = [kind |-> "convert", v |-> v, ty |-> ty]
       \/ \E v \in Scalars : job = [kind |-> "text", v |-> v]
       \/ \E t \in NumTexts, ty \in NumericTypes : job = [kind |-> "parse", t |-> t, ty |-> ty]
       \/ \E v \in Scalars \cup Lists : job = [kind |-> "order", v |-> v]
       \/ \E z \in Days : job = [kind |-> "date", z |-> z]
       \/ \E ty \in {Ty("INT64"), Ty("STRING"), ListTy(Ty("STRING"))} :
            job = [kind |-> "build", ty |-> ty, accepted |-> <<>>, torn |-> FALSE]
       \/ \E c \in EncodeCols, id \in 0 .. 7 :
            \* 7: no encoding is pinned, choose picks one
            /\ IF id = 7 THEN c.ty.k # "LIST" ELSE applies_to(id, c.ty)
            /\ job = [kind |-> "encode", c |-> c, id |-> id]
TypeConvert ==
    Run("convert", [coerced |-> coerce(job.v, job.ty), cast |-> cast(<<job.v>>, TypeOf(job.v), job.ty)])
TypeText ==
    Run("text", cast(cast(<<job.v>>, TypeOf(job.v), Ty("STRING"))[1], Ty("STRING"), TypeOf(job.v)))
TypeParse == Run("parse", from_text(job.t, job.ty))
TypeOrder == Run("order", {w \in IF job.v.k = "LIST" THEN Lists ELSE Scalars : w.k = job.v.k})
TypeDate == Run("date", civil_from_days(job.z))
ColPush ==
    /\ job.kind = "build" /\ Len(job.accepted) < MaxRows
    /\ \E v \in PushVals(job.ty) :
         LET r == push(IF pc = "start" THEN EmptyColumn(job.ty) ELSE out, v) IN
         /\ out' = r.b
         /\ job' = [job EXCEPT !.accepted = IF r.err = "" THEN Append(@, coerce(v, job.ty)[1]) ELSE @,
                               !.torn = @ \/ (r.err = "TooLarge" /\ job.ty.k = "LIST")]
    /\ pc' = "done"
EncEncode ==
    LET id == IF job.id = 7 THEN choose(job.c) ELSE job.id IN
    Run("encode", [id |-> id, chunk |-> encode_with(job.c, id)])
\* One unit of the chunk is lost or changed.
EncDamage ==
    /\ Is("encode", "done") /\ job.id # 7
    /\ \E i \in DOMAIN out.chunk :
         \/ out' = [out EXCEPT !.chunk = SubSeq(@, 1, i - 1) \o SubSeq(@, i + 1, Len(@))]
         \/ \E n \in {0, 1, 2, UIntMax} : out' = [out EXCEPT !.chunk[i] = n]
    /\ pc' = "damaged"
    /\ UNCHANGED job
TypeNext == TypeConvert \/ TypeText \/ TypeParse \/ TypeOrder \/ TypeDate \/ ColPush \/ EncEncode \/ EncDamage
------------------------------------------------------------------------------
\* The number a value stands for, times 2 * 10^MaxDigits.
Exact(v) ==
    CASE v.k = "FLOAT64" -> Half(v.v) * pow10(MaxDigits)
      [] v.k = "DECIMAL" -> 2 * v.v * pow10(MaxDigits - v.s)
      [] v.k = "DATE" -> v.v * DayNs
      [] v.k = "TIMESTAMP" -> v.v
      [] OTHER -> 2 * v.v * pow10(MaxDigits)
(* types/fit.rs: what a write accepts, it stores without loss: the coerced value has the *)
(* column's type and stands for the same number, at every boundary of every pair of      *)
(* types, and coercing it again changes nothing.                                         *)
CoerceLossless ==
    Done("convert") /\ out.coerced # None =>
        LET w == out.coerced[1] IN
        /\ w.k = job.ty.k
        /\ IF w.k = "FLOAT64" /\ ~IsFinite(w.v) THEN w = job.v ELSE Exact(w) = Exact(job.v)
        /\ coerce(w, job.ty) = Some(w)
(* cast_value and coerce are two conversions written apart: where a write takes a value, *)
(* CAST gives the value the write would store.                                           *)
CastAgrees ==
    Done("convert") /\ out.coerced # None /\ castable(TypeOf(job.v), job.ty) => out.cast = Some(<<out.coerced[1]>>)
(* cast.rs:257, "cast_value always produces a value that fits `to`": the builder takes   *)
(* every value a cast produces.                                                          *)
CastNeverPanics == Done("convert") => out.cast # Panic
(* to_text and from_text: the canonical text of every value is parsed back to the same   *)
(* value, whatever its sign, scale, fraction or place before 1970.                       *)
TextRoundTrip == Done("text") => out = Some(<<job.v>>)
(* parse_decimal: a text is a DECIMAL only when it is exactly one, and a fraction with   *)
(* more digits than the scale is refused, as parse.rs:47 says, so that no digit is       *)
(* dropped.  This is so up to LenWrap - 1 digits: parse.rs:75 and :79 count them in a    *)
(* u8, and a longer fraction is read, or refused, as if it had Len % LenWrap places, so  *)
(* that its digits stand that many powers of ten too high.                               *)
DecimalTextExact ==
    Done("parse") /\ job.ty.k = "DECIMAL" =>
        LET digits == Len(job.t.fr)
            places == IF digits < LenWrap THEN digits ELSE digits % LenWrap
        IN  /\ places > job.ty.s => out = None
            /\ out # None =>
                 Exact(out[1]) = (IF job.t.neg THEN -2 ELSE 2) *
                     (job.t.n * pow10(MaxDigits) + DigitsValue(job.t.fr) * pow10(MaxDigits - places))
(* types/order.rs: total_cmp is a total order that agrees with the numbers, with NaN     *)
(* last, and sql_eq agrees with it except on NaN and on lists with NULL elements.        *)
OrderTotal ==
    Done("order") => \A b \in out :
        LET a == job.v IN
        /\ total_cmp(a, b)[1] = -total_cmp(b, a)[1]
        /\ \A c \in out : total_cmp(a, b)[1] <= 0 /\ total_cmp(b, c)[1] <= 0 => total_cmp(a, c)[1] <= 0
        /\ a.k \notin {"LIST", "BYTES"} /\ (a.k # "FLOAT64" \/ (IsFinite(a.v) /\ IsFinite(b.v)))
             => total_cmp(a, b)[1] = Cmp(Exact(a), Exact(b))
        /\ sql_eq(a, b) = Some(TRUE) => total_cmp(a, b) = Some(0)
        /\ total_cmp(a, b) = Some(0) => sql_eq(a, b) = Some(TRUE) \/ a.v = NaN \/ a.k = "LIST"
NextDay(d) ==
    IF d[3] < days_in_month(d[1], d[2]) THEN <<d[1], d[2], d[3] + 1>>
    ELSE IF d[2] < 12 THEN <<d[1], d[2] + 1, 1>> ELSE <<d[1] + 1, 1, 1>>
(* civil_from_days and days_from_civil are inverse, and the day after a day is the next  *)
(* date of the Gregorian calendar, across leap years, centuries and year 0.              *)
CalendarRight ==
    Done("date") => /\ civil_from_days(job.z + 1) = NextDay(out)
                    /\ days_from_civil(out[1], out[2], out[3]) = job.z
(* ColumnBuilder: after any sequence of pushes, refused ones and offsets at their limit  *)
(* included, the column reads back exactly the accepted values, and its parts pass       *)
(* from_parts.                                                                           *)
ColumnReads ==
    Done("build") /\ ~job.torn =>
        /\ Rows(out) = job.accepted
        /\ out.nulls = Cardinality({i \in DOMAIN job.accepted : is_null(job.accepted[i])})
        /\ from_parts(job.ty, values(out), out.validity) = Some(out)
(* Column::slice and concat: cutting a column in three anywhere and joining the parts    *)
(* gives the column back, rebased offsets and bitmaps included.                          *)
SlicesJoin ==
    Done("build") /\ ~job.torn =>
        LET n == ColumnLen(out) IN
        \A i \in 0 .. n : \A j \in i .. n :
          LET whole == concat(job.ty, <<slice(out, 0, i), slice(out, i, j - i), slice(out, j, n - j)>>)
          IN whole # None /\ Rows(whole[1]) = Rows(out) /\ whole[1].nulls = out.nulls
(* encoding/mod.rs and the six encodings: every column decodes from its chunk as it was, *)
(* nulls and extreme deltas included, with the encoding pinned or chosen by size.        *)
EncodeRoundTrip ==
    Done("encode") => decode_column(job.c.ty, ColumnLen(job.c), out.id, out.chunk) = Some(job.c)
(* decode_column on a chunk with one unit lost or changed: it is refused, or gives a     *)
(* column of the asked type and length whose every row can be read.                      *)
DecodeSafe ==
    Is("encode", "damaged") =>
        LET c == decode_column(job.c.ty, ColumnLen(job.c), out.id, out.chunk) IN
        c # None => /\ ColumnLen(c[1]) = ColumnLen(job.c)
                    /\ \A i \in 1 .. ColumnLen(job.c) : get(c[1], i).k \in {"NULL", job.c.ty.k}
(* The types as a whole: what is stored, cast, printed, parsed and ordered is the value   *)
(* that was meant (types/, exec/expr/cast.rs).                                           *)
TypesExact == CoerceLossless /\ CastAgrees /\ TextRoundTrip /\ DecimalTextExact /\ OrderTotal
(* Columns and their encodings as a whole (exec/column.rs, exec/bitmap.rs, encode/): a   *)
(* column gives back what was pushed, through slices, joins and a chunk, and a damaged   *)
(* chunk never gives a column that cannot be read.                                       *)
ColumnsExact == ColumnReads /\ SlicesJoin /\ EncodeRoundTrip /\ DecodeSafe
=============================================================================
