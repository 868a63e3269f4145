------------------------------- MODULE Types -------------------------------
(***************************************************************************)
(* The value system of src/types and the casts of exec/expr/cast.rs: data   *)
(* types, values, the lossless coercion a write applies, the total order,   *)
(* SQL equality, canonical text and its parser, and CAST.                   *)
(*                                                                          *)
(* Every value is a record with a kind k, a number v, a scale s and a       *)
(* sequence x (bytes, list items or a text), so that values of all kinds    *)
(* can be compared.  An Option is a sequence of at most one element.  The   *)
(* widths of the code (i64, i128, f64, 38 digits, the length of a day) are  *)
(* constants; a float is counted in halves and has a mantissa of            *)
(* MantissaBits bits, so that a large integer is not exactly a float.       *)
(***************************************************************************)
EXTENDS Integers, Sequences, FiniteSets

CONSTANTS
    IntBits,       \* an INT64 is in -2^IntBits .. 2^IntBits - 1 (63)
    I128Max,       \* the largest i128
    MaxDigits,     \* DecimalType::MAX_PRECISION (38)
    MantissaBits,  \* integers up to 2^MantissaBits are exactly floats (53)
    DateMax,       \* a DATE is in -DateMax - 1 .. DateMax (i32)
    DayHours, HourMinutes, MinuteSeconds,  \* 24, 60, 60
    FracBase,      \* one group of fraction digits (1000): milli, micro, nano
    LenWrap        \* a length cast to u8 is taken modulo this (256)

ASSUME TypesAssumption ==
    /\ {IntBits, MaxDigits, MantissaBits, DateMax, LenWrap} \subseteq Nat \ {0}
    /\ {DayHours, HourMinutes, MinuteSeconds, FracBase} \subseteq Nat \ {0}
    /\ I128Max \in 10^MaxDigits .. 10^(MaxDigits + 1) - 1

IntMin == -(2^IntBits)
IntMax == 2^IntBits - 1
UIntMax == 2^(IntBits + 1) - 1
SecNs == FracBase^3
DayNs == DayHours * HourMinutes * MinuteSeconds * SecNs

Abs(n) == IF n < 0 THEN -n ELSE n
Signum(n) == IF n < 0 THEN -1 ELSE IF n = 0 THEN 0 ELSE 1
\* Rust's / and % truncate towards zero; \div and % are div_euclid and rem_euclid.
TruncDiv(a, b) == Signum(a) * (Abs(a) \div b)
TruncRem(a, b) == a - b * TruncDiv(a, b)
None == <<>>
Some(v) == <<v>>
pow10(e) == 10^e

------------------------------------------------------------------------------
(* Types and values.                                                         *)
Ty(k) == [k |-> k, p |-> 0, s |-> 0, e |-> <<>>]
DecimalType(p, s) ==
    IF p = 0 \/ p > MaxDigits \/ s > p THEN None
    ELSE Some([k |-> "DECIMAL", p |-> p, s |-> s, e |-> <<>>])
ListType(elem) ==
    IF elem.k = "LIST" THEN None ELSE Some([k |-> "LIST", p |-> 0, s |-> 0, e |-> <<elem>>])

Val(k, n) == [k |-> k, v |-> n, s |-> 0, x |-> <<>>]
Null == Val("NULL", 0)
is_null(v) == v.k = "NULL"
Seqv(k, xs) == [k |-> k, v |-> 0, s |-> 0, x |-> xs]
Decimal(unscaled, scale) ==
    IF scale > MaxDigits \/ Abs(unscaled) >= pow10(MaxDigits) THEN None
    ELSE Some([k |-> "DECIMAL", v |-> unscaled, s |-> scale, x |-> <<>>])

\* Floats, in halves.  The special values lie outside the finite range.
NaN == 2^(IntBits + 7) + 3
Inf == 2^(IntBits + 7) + 2
NegZero == 2^(IntBits + 7) + 1
IsFinite(h) == Abs(h) < 2^(IntBits + 7) \/ h = NegZero
Half(h) == IF h = NegZero THEN 0 ELSE h
\* f64 arithmetic: the float nearest to num / den halves, ties to an even mantissa.
Exponent(n, den) ==
    CHOOSE e \in 0 .. 31 : /\ n \div (den * 2^e) < 2^MantissaBits
                           /\ e = 0 \/ n \div (den * 2^(e - 1)) >= 2^MantissaBits
ToEven(m, twice, unit) == IF twice > unit \/ (twice = unit /\ m % 2 = 1) THEN m + 1 ELSE m
Saturated(h) == IF IsFinite(h) THEN h ELSE Inf
RoundF(num, den) ==
    LET at(n, e) == Saturated(ToEven(n \div (den * 2^e), 2 * (n % (den * 2^e)), den * 2^e) * 2^e)
    IN Signum(num) * at(Abs(num), Exponent(Abs(num), den))
IntToFloat(n) == RoundF(2 * n, 1)
RoundHalf(h) == TruncDiv(Half(h) + Signum(Half(h)), 2)

\* Ip::from: a V4 address is stored mapped into the upper half of the V6 range.
IpFrom(a) == IF a[1] = "V4" THEN 2 + (a[2] % 2) ELSE a[2]
ToIpAddr(n) == IF n >= 2 THEN <<"V4", n - 2>> ELSE <<"V6", n>>
------------------------------------------------------------------------------
(* Fit: the lossless coercion of a write (types/fit.rs).                     *)
FitsInt(n) == n \in IntMin .. IntMax
FitsUInt(n) == n \in 0 .. UIntMax
FitsDate(n) == n \in -DateMax - 1 .. DateMax
InI128(n) == n \in -I128Max - 1 .. I128Max
When(p, v) == IF p THEN Some(v) ELSE None
AsInt(n) == When(FitsInt(n), Val("INT64", n))
AsUInt(n) == When(FitsUInt(n), Val("UINT64", n))
DecimalIn(n, dt) ==
    IF ~InI128(n) \/ Abs(n) >= pow10(dt.p) THEN None ELSE Decimal(n, dt.s)

rescale_truncating(d, dt) ==
    IF dt.s >= d.s THEN DecimalIn(d.v * pow10(dt.s - d.s), dt)
    ELSE DecimalIn(d.v \div pow10(d.s - dt.s), dt)
rescale(d, dt) ==
    IF dt.s >= d.s THEN DecimalIn(d.v * pow10(dt.s - d.s), dt)
    ELSE LET drop == pow10(d.s - dt.s) IN
         IF d.v % drop # 0 THEN None ELSE DecimalIn(d.v \div drop, dt)
int_to_decimal(n, dt) == DecimalIn(n * pow10(dt.s), dt)
FloatWhole(h) == IsFinite(h) /\ Half(h) % 2 = 0
float_to_int(h) == IF FloatWhole(h) THEN AsInt(Half(h) \div 2) ELSE None
float_to_uint(h) == IF FloatWhole(h) THEN AsUInt(Half(h) \div 2) ELSE None
decimal_to_int(d) == IF d.v % pow10(d.s) # 0 THEN None ELSE AsInt(d.v \div pow10(d.s))
decimal_to_uint(d) == IF d.v % pow10(d.s) # 0 THEN None ELSE AsUInt(d.v \div pow10(d.s))
date_to_timestamp(days) == When(FitsInt(days * DayNs), Val("TIMESTAMP", days * DayNs))

CoerceScalar(v, ty) ==
    LET pair == <<v.k, ty.k>> IN
    CASE v.k = "DECIMAL" /\ ty.k = "DECIMAL" -> rescale(v, ty)
      [] v.k = ty.k -> Some(v)
      [] pair = <<"INT64", "UINT64">> -> AsUInt(v.v)
      [] pair = <<"UINT64", "INT64">> -> AsInt(v.v)
      [] v.k \in {"INT64", "UINT64"} /\ ty.k = "FLOAT64" ->
            When(Abs(v.v) <= 2^MantissaBits, Val("FLOAT64", IntToFloat(v.v)))
      [] v.k \in {"INT64", "UINT64"} /\ ty.k = "DECIMAL" -> int_to_decimal(v.v, ty)
      [] pair = <<"FLOAT64", "INT64">> -> float_to_int(v.v)
      [] pair = <<"FLOAT64", "UINT64">> -> float_to_uint(v.v)
      [] pair = <<"DECIMAL", "INT64">> -> decimal_to_int(v)
      [] pair = <<"DECIMAL", "UINT64">> -> decimal_to_uint(v)
      [] pair = <<"DATE", "TIMESTAMP">> -> date_to_timestamp(v.v)
      [] OTHER -> None
AllOrNone(items) ==
    IF \E i \in DOMAIN items : items[i] = None THEN None
    ELSE Some(Seqv("LIST", [i \in DOMAIN items |-> items[i][1]]))
coerce(v, ty) ==
    IF is_null(v) THEN Some(Null)
    ELSE IF v.k = "LIST" /\ ty.k = "LIST"
    THEN AllOrNone([i \in DOMAIN v.x |-> IF is_null(v.x[i]) THEN Some(Null) ELSE CoerceScalar(v.x[i], ty.e[1])])
    ELSE CoerceScalar(v, ty)
fits(v, ty) == coerce(v, ty) # None
------------------------------------------------------------------------------
(* The total order and SQL equality (types/order.rs).  An Ordering is        *)
(* -1, 0 or 1.                                                               *)
Cmp(a, b) == IF a < b THEN -1 ELSE IF a = b THEN 0 ELSE 1
\* The first difference decides; a proper prefix sorts first.
FirstDiffers(cmps, otherwise) ==
    LET diff == {i \in DOMAIN cmps : cmps[i] # 0} IN
    IF diff = {} THEN otherwise ELSE cmps[CHOOSE i \in diff : \A j \in diff : i <= j]
LexCmp(a, b, C(_, _)) == FirstDiffers([i \in DOMAIN a \cap DOMAIN b |-> C(a[i], b[i])], Cmp(Len(a), Len(b)))
\* NaN equals NaN and sorts greatest; -0.0 equals 0.0.
float_total_cmp(a, b) ==
    IF a = NaN \/ b = NaN THEN Cmp(IF a = NaN THEN 1 ELSE 0, IF b = NaN THEN 1 ELSE 0)
    ELSE Cmp(Half(a), Half(b))
split(d) == <<d.v \div pow10(d.s), d.v % pow10(d.s)>>
\* Integer parts first, then the fractions brought to MaxDigits digits.
decimal_cmp(a, b) ==
    LET ia == split(a)  ib == split(b) IN
    IF ia[1] # ib[1] THEN Cmp(ia[1], ib[1])
    ELSE Cmp(ia[2] * pow10(MaxDigits - a.s), ib[2] * pow10(MaxDigits - b.s))
ScalarCmp(a, b) ==
    CASE a.k # b.k \/ is_null(a) -> None
      [] a.k = "FLOAT64" -> Some(float_total_cmp(a.v, b.v))
      [] a.k = "DECIMAL" -> Some(decimal_cmp(a, b))
      [] a.k \in {"STRING", "BYTES"} -> Some(LexCmp(a.x, b.x, Cmp))
      [] OTHER -> Some(Cmp(a.v, b.v))
\* A NULL element sorts after every other one and equals another NULL.
list_elem_cmp(a, b) ==
    IF is_null(a) \/ is_null(b) THEN Cmp(IF is_null(a) THEN 1 ELSE 0, IF is_null(b) THEN 1 ELSE 0)
    ELSE ScalarCmp(a, b)[1]
list_cmp(a, b) == Some(LexCmp(a, b, list_elem_cmp))
total_cmp(a, b) == IF a.k = "LIST" /\ b.k = "LIST" THEN list_cmp(a.x, b.x) ELSE ScalarCmp(a, b)

ScalarEq(a, b) ==
    IF is_null(a) \/ is_null(b) \/ a.k # b.k THEN None
    ELSE IF a.k = "FLOAT64" THEN Some(a.v # NaN /\ b.v # NaN /\ Half(a.v) = Half(b.v))
    ELSE Some(ScalarCmp(a, b)[1] = 0)
\* Kleene's AND over the elements: a mismatch decides, a NULL leaves it unknown.
KleeneAnd(eqs) == IF Some(FALSE) \in eqs THEN Some(FALSE) ELSE IF None \in eqs THEN None ELSE Some(TRUE)
list_sql_eq(a, b) ==
    IF Len(a) # Len(b) THEN Some(FALSE) ELSE KleeneAnd({ScalarEq(a[i], b[i]) : i \in DOMAIN a})
sql_eq(a, b) == IF a.k = "LIST" /\ b.k = "LIST" THEN list_sql_eq(a.x, b.x) ELSE ScalarEq(a, b)
------------------------------------------------------------------------------
(* Canonical text (types/text.rs) and its parser (types/parse.rs).  A text   *)
(* is a record: its form, a sign, a number n and a sequence fr (the digits   *)
(* of a fraction, the fields of a date or a time, bytes, or list items).     *)
(* A text that no production of the parser accepts has the form "junk".      *)
Text(form, neg, n, fr) == [form |-> form, neg |-> neg, n |-> n, fr |-> fr]
Digits(n, width) == [i \in 1 .. width |-> (n \div pow10(width - i)) % 10]
DigitsValue(ds) ==
    LET f[i \in 0 .. Len(ds)] == IF i = 0 THEN 0 ELSE 10 * f[i - 1] + ds[i] IN f[Len(ds)]

format_float(h) ==
    CASE h = NaN -> Text("word", FALSE, 2, <<>>)
      [] ~IsFinite(h) -> Text("word", h < 0, 3, <<>>)
      [] OTHER -> Text("num", h < 0 \/ h = NegZero, Abs(Half(h)) \div 2,
                       IF Half(h) % 2 = 1 THEN <<5>> ELSE <<>>)
format_decimal(unscaled, scale) ==
    LET magnitude == Abs(unscaled) IN
    Text("num", unscaled < 0, magnitude \div pow10(scale), Digits(magnitude % pow10(scale), scale))

civil_from_days(days) ==
    LET ymd(y, doy, mp) ==
            <<IF mp >= 10 THEN y + 1 ELSE y, IF mp < 10 THEN mp + 3 ELSE mp - 9, doy - (153 * mp + 2) \div 5 + 1>>
        of_year(y, doy) == ymd(y, doy, (5 * doy + 2) \div 153)
        of_era(era, doe, yoe) == of_year(yoe + era * 400, doe - (365 * yoe + yoe \div 4 - yoe \div 100))
        in_era(era, doe) == of_era(era, doe, (doe - doe \div 1460 + doe \div 36524 - doe \div 146096) \div 365)
        at(z, era) == in_era(era, z - era * 146097)
        from(z) == at(z, TruncDiv(IF z >= 0 THEN z ELSE z - 146096, 146097))
    IN from(days + 719468)
format_date(days) == Text("date", FALSE, 0, civil_from_days(days))

\* The shortest exact fraction: nothing, milli-, micro- or nanoseconds.
format_fraction(ns) ==
    CASE ns = 0 -> <<0, 0>>
      [] ns % FracBase^2 = 0 -> <<1, ns \div FracBase^2>>
      [] ns % FracBase = 0 -> <<2, ns \div FracBase>>
      [] OTHER -> <<3, ns>>
format_timestamp(ns) ==
    LET of_day == ns % DayNs
        secs == of_day \div SecNs
    IN Text("ts", FALSE, 0,
            civil_from_days(ns \div DayNs)
              \o <<secs \div (HourMinutes * MinuteSeconds),
                   (secs \div MinuteSeconds) % HourMinutes, secs % MinuteSeconds>>
              \o format_fraction(of_day % SecNs))
ScalarText(v) ==
    CASE v.k = "BOOL" -> Text("word", FALSE, v.v, <<>>)
      [] v.k \in {"INT64", "UINT64"} -> Text("num", v.v < 0, Abs(v.v), <<>>)
      [] v.k = "FLOAT64" -> format_float(v.v)
      [] v.k = "DECIMAL" -> format_decimal(v.v, v.s)
      [] v.k = "STRING" -> v.x[1]
      [] v.k = "BYTES" -> Text("hex", FALSE, 0, v.x)
      [] v.k = "TIMESTAMP" -> format_timestamp(v.v)
      [] v.k = "DATE" -> format_date(v.v)
      [] v.k = "UUID" -> Text("uuid", FALSE, v.v, <<>>)
      [] v.k = "IP" -> Text("ip", ToIpAddr(v.v)[1] = "V4", ToIpAddr(v.v)[2], <<>>)
to_text(v) ==
    IF is_null(v) THEN None
    ELSE IF v.k = "LIST"
    THEN Some(Text("list", FALSE, 0, [i \in DOMAIN v.x |->
                IF is_null(v.x[i]) THEN Text("null", FALSE, 0, <<>>) ELSE ScalarText(v.x[i])]))
    ELSE Some(ScalarText(v))

parse_bool(t) ==
    IF t.form \in {"word", "num"} /\ t.n \in {0, 1} /\ ~t.neg /\ t.fr = <<>>
    THEN Some(Val("BOOL", t.n)) ELSE None
\* The length of the fraction is compared after a cast to u8.
parse_decimal(t, dt) ==
    LET len == Len(t.fr) % LenWrap
        unscaled == t.n * pow10(dt.s) + DigitsValue(t.fr) * pow10(dt.s - len)
    IN IF t.form # "num" \/ len > dt.s THEN None
       ELSE IF ~InI128(t.n * pow10(dt.s)) \/ ~InI128(unscaled) THEN None
       ELSE DecimalIn(IF t.neg THEN -unscaled ELSE unscaled, dt)
SignedFloat(h, neg) == IF ~neg THEN h ELSE IF h = 0 THEN NegZero ELSE -h
parse_float(t) ==
    CASE t.form = "word" /\ t.n = 2 -> Some(Val("FLOAT64", NaN))
      [] t.form = "word" /\ t.n = 3 -> Some(Val("FLOAT64", IF t.neg THEN -Inf ELSE Inf))
      [] t.form = "num" ->
            Some(Val("FLOAT64", SignedFloat(RoundF(2 * (t.n * pow10(Len(t.fr)) + DigitsValue(t.fr)), pow10(Len(t.fr))), t.neg)))
      [] OTHER -> None

days_in_month(year, month) ==
    IF month = 2
    THEN IF year % 4 = 0 /\ (year % 100 # 0 \/ year % 400 = 0) THEN 29 ELSE 28
    ELSE IF month \in {4, 6, 9, 11} THEN 30 ELSE 31
days_from_civil(y, m, d) ==
    LET yy == IF m <= 2 THEN y - 1 ELSE y
        era == TruncDiv(IF yy >= 0 THEN yy ELSE yy - 399, 400)
        yoe == yy - era * 400
        mp == IF m > 2 THEN m - 3 ELSE m + 9
        doe == yoe * 365 + yoe \div 4 - yoe \div 100 + (153 * mp + 2) \div 5 + d - 1
    IN era * 146097 + doe - 719468
DateWithin(days) == When(FitsDate(days), days)
parse_date(f) ==
    IF f[2] \notin 1 .. 12 \/ f[3] = 0 \/ f[3] > days_in_month(f[1], f[2]) THEN None
    ELSE DateWithin(days_from_civil(f[1], f[2], f[3]))
\* A date alone is its midnight; each multiplication and addition is checked.
TimestampOn(t, days) ==
    LET tod == ((t.fr[4] * HourMinutes + t.fr[5]) * MinuteSeconds + t.fr[6]) * SecNs
                 + t.fr[8] * FracBase^(3 - t.fr[7])
        ok == /\ t.fr[4] < DayHours /\ t.fr[5] < HourMinutes /\ t.fr[6] < MinuteSeconds
              /\ t.fr[8] < FracBase^(t.fr[7])
    IN IF t.form \notin {"date", "ts"} \/ days = None \/ ~FitsInt(days[1] * DayNs) THEN None
       ELSE IF t.form = "date" THEN Some(days[1] * DayNs)
       ELSE When(ok /\ FitsInt(days[1] * DayNs + tod), days[1] * DayNs + tod)
parse_timestamp(t) == TimestampOn(t, parse_date(t.fr))
OfKind(k, n) == IF n = None THEN None ELSE Some(Val(k, n[1]))
from_text(t, ty) ==
    CASE ty.k = "STRING" -> Some(Seqv("STRING", <<t>>))
      [] ty.k = "BOOL" -> parse_bool(t)
      [] ty.k = "INT64" /\ t.form = "num" /\ t.fr = <<>> -> AsInt(IF t.neg THEN -t.n ELSE t.n)
      [] ty.k = "UINT64" /\ t.form = "num" /\ t.fr = <<>> /\ ~t.neg -> AsUInt(t.n)
      [] ty.k = "FLOAT64" -> parse_float(t)
      [] ty.k = "DECIMAL" -> parse_decimal(t, ty)
      [] ty.k = "BYTES" /\ t.form = "hex" -> Some(Seqv("BYTES", t.fr))
      [] ty.k = "TIMESTAMP" -> OfKind("TIMESTAMP", parse_timestamp(t))
      [] ty.k = "DATE" /\ t.form = "date" -> OfKind("DATE", parse_date(t.fr))
      [] ty.k = "UUID" /\ t.form = "uuid" -> Some(Val("UUID", t.n))
      [] ty.k = "IP" /\ t.form = "ip" ->
            Some(Val("IP", IpFrom(<<IF t.neg THEN "V4" ELSE "V6", t.n>>)))
      [] OTHER -> None
------------------------------------------------------------------------------
(* CAST (exec/expr/cast.rs).  A cast of a column fails with the first row    *)
(* that fails; the result of one row is an Option.                           *)
is_numeric(ty) == ty.k \in {"INT64", "UINT64", "FLOAT64", "DECIMAL"}
castable(from, to) ==
    \/ from = to
    \/ /\ from.k # "LIST" /\ to.k # "LIST"
       /\ \/ is_numeric(from) /\ is_numeric(to)
          \/ from.k = "STRING" \/ to.k = "STRING"
          \/ <<from.k, to.k>> \in ({"BOOL"} \X {"INT64", "UINT64"})
                \cup ({"INT64", "UINT64"} \X {"BOOL"})
                \cup {<<"TIMESTAMP", "DATE">>, <<"DATE", "TIMESTAMP">>,
                      <<"UUID", "BYTES">>, <<"IP", "BYTES">>}

round_half_away(unscaled, divisor) ==
    LET q == TruncDiv(unscaled, divisor)
        r == TruncRem(unscaled, divisor)
    IN IF 2 * Abs(r) >= divisor THEN q + Signum(r) ELSE q
decimal_rounded(d) == IF d.s = 0 THEN d.v ELSE round_half_away(d.v, pow10(d.s))
\* f * 10^scale and the limit are f64 operations.
DecimalBelow(rounded, limit, dt) ==
    IF -limit > 2 * rounded \/ 2 * rounded >= limit THEN None ELSE Decimal(rounded, dt.s)
ScaledToDecimal(scaled, dt) ==
    IF IsFinite(scaled) THEN DecimalBelow(RoundHalf(scaled), IntToFloat(pow10(dt.p)), dt) ELSE None
float_to_decimal(h, dt) ==
    IF IsFinite(h) THEN ScaledToDecimal(RoundF(Half(h) * IntToFloat(pow10(dt.s)), 2), dt) ELSE None
decimal_to_decimal(d, to) ==
    IF to.s >= d.s THEN DecimalIn(d.v * pow10(to.s - d.s), to)
    ELSE DecimalIn(round_half_away(d.v, pow10(d.s - to.s)), to)
cast_numeric(v, to) ==
    LET whole == v.k \in {"INT64", "UINT64"} IN
    CASE whole /\ to.k = "INT64" -> AsInt(v.v)
      [] whole /\ to.k = "UINT64" -> AsUInt(v.v)
      [] whole /\ to.k = "FLOAT64" -> Some(Val("FLOAT64", IntToFloat(v.v)))
      [] whole /\ to.k = "DECIMAL" -> int_to_decimal(v.v, to)
      [] v.k = "FLOAT64" /\ to.k \in {"INT64", "UINT64"} ->
            IF ~IsFinite(v.v) THEN None
            ELSE IF to.k = "INT64" THEN AsInt(RoundHalf(v.v)) ELSE AsUInt(RoundHalf(v.v))
      [] v.k = "FLOAT64" /\ to.k = "DECIMAL" -> float_to_decimal(v.v, to)
      [] v.k = "DECIMAL" /\ to.k = "INT64" -> AsInt(decimal_rounded(v))
      [] v.k = "DECIMAL" /\ to.k = "UINT64" -> AsUInt(decimal_rounded(v))
      [] v.k = "DECIMAL" /\ to.k = "FLOAT64" ->
            Some(Val("FLOAT64", RoundF(2 * IntToFloat(v.v), IntToFloat(pow10(v.s)))))
      [] v.k = "DECIMAL" /\ to.k = "DECIMAL" -> decimal_to_decimal(v, to)
cast_value(v, from, to) ==
    CASE to.k = "STRING" -> Some(Seqv("STRING", to_text(v)))
      [] from.k = "STRING" -> from_text(v.x[1], to)
      [] is_numeric(from) /\ is_numeric(to) -> cast_numeric(v, to)
      [] from.k = "BOOL" -> Some(Val(to.k, v.v))
      [] to.k = "BOOL" -> Some(Val("BOOL", IF v.v # 0 THEN 1 ELSE 0))
      [] from.k = "TIMESTAMP" -> When(FitsDate(v.v \div DayNs), Val("DATE", v.v \div DayNs))
      [] from.k = "DATE" -> date_to_timestamp(v.v)
      [] OTHER -> Some(Seqv("BYTES", <<v.v>>))
\* cast: the rows in order.  A row that fails fails the call; the builder must take
\* every cast value, and the code panics when it does not.
Panic == <<"panic", "panic">>
CastUnless(bad, cells) ==
    IF bad = {} THEN Some([i \in DOMAIN cells |-> cells[i][1]])
    ELSE IF cells[CHOOSE i \in bad : \A j \in bad : i <= j] = None THEN None ELSE Panic
BuildCast(cells, to) == CastUnless({i \in DOMAIN cells : cells[i] = None \/ ~fits(cells[i][1], to)}, cells)
cast(rows, from, to) ==
    IF from = to THEN Some(rows)
    ELSE IF ~castable(from, to) THEN None
    ELSE BuildCast([i \in DOMAIN rows |-> IF is_null(rows[i]) THEN Some(Null) ELSE cast_value(rows[i], from, to)], to)
=============================================================================
