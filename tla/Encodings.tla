----------------------------- MODULE Encodings -----------------------------
(***************************************************************************)
(* storage/segment/encode: how one column chunk becomes bytes and comes     *)
(* back.  A chunk is a sequence of units, one per primitive the Sink        *)
(* writes: a fixed-width integer, a varint or one raw byte is one unit, a   *)
(* length-prefixed string is its length and then its bytes.  Bit-packed     *)
(* payloads are packed bit by bit into bytes of ByteBits bits.              *)
(*                                                                          *)
(* A decoder gets the units that are left and returns whether it succeeded, *)
(* what it read and the units after it; every check of the code is kept, so *)
(* that a chunk cut short or changed can be decoded too.                    *)
(***************************************************************************)
EXTENDS Columns

CONSTANTS
    ByteBits,        \* bits of a byte of a packed payload (8)
    LeadBits,        \* bits of the XOR window's leading-zero field (6)
    SampleRows,      \* rows up to which selection looks at the whole chunk (4096)
    MaxDecodeRows,   \* MAX_DECODE_ROWS
    MaxDecodeBytes   \* MAX_DECODE_BYTES

\* The bit pattern of a float: every float of the model and NaN, infinities and -0.0.
FloatSize == IntBits + 9
to_bits(h) == h % 2^FloatSize
from_bits(u) == IF u >= 2^(FloatSize - 1) THEN u - 2^FloatSize ELSE u

ASSUME EncodingsAssumption ==
    /\ {ByteBits, LeadBits, SampleRows, MaxDecodeRows, MaxDecodeBytes} \subseteq Nat \ {0}
    /\ 2^LeadBits >= FloatSize

WordSize == IntBits + 1
Modulus == 2^WordSize
Wrap(n) == n % Modulus
Signed(u) == IF u >= 2^IntBits THEN u - Modulus ELSE u

Ok(v, rest) == [ok |-> TRUE, v |-> v, rest |-> rest]
Fail == [ok |-> FALSE, v |-> <<>>, rest |-> <<>>]
\* What was read, if it is good, and as the value it stands for.
Check(r, good) == IF ~r.ok THEN Fail ELSE IF good THEN r ELSE Fail
As(r, v) == IF r.ok THEN Ok(v, r.rest) ELSE Fail
------------------------------------------------------------------------------
(* Wire primitives.                                                          *)
zigzag(v) == IF v >= 0 THEN 2 * v ELSE -2 * v - 1
unzigzag(u) == IF u % 2 = 0 THEN u \div 2 ELSE -(u \div 2) - 1
bytes(b) == <<Len(b)>> \o b
take(rest, n) ==
    IF n > Len(rest) THEN Fail ELSE Ok(SubSeq(rest, 1, n), SubSeq(rest, n + 1, Len(rest)))
ReadUnit(rest) == IF rest = <<>> THEN Fail ELSE Ok(Head(rest), Tail(rest))
ReadBytes(rest) == IF rest = <<>> THEN Fail ELSE take(Tail(rest), Head(rest))
guard_len(rest, n, each) == n <= MaxDecodeRows /\ n * each <= Len(rest)

\* BitWriter and BitReader: fields LSB first, across byte boundaries.
BitsOf(value, width) == [i \in 1 .. width |-> Bit(value, i - 1)]
ValueOf(bits) ==
    LET f[i \in 0 .. Len(bits)] == IF i = 0 THEN 0 ELSE f[i - 1] + bits[i] * 2^(i - 1) IN f[Len(bits)]
PackedLen(nbits) == (nbits + ByteBits - 1) \div ByteBits
Pack(bits) ==
    [b \in 1 .. PackedLen(Len(bits)) |->
        ValueOf([i \in 1 .. ByteBits |-> LET p == (b - 1) * ByteBits + i IN
                    IF p <= Len(bits) THEN bits[p] ELSE 0])]
Unpack(packed) == FlattenSeq([b \in DOMAIN packed |-> BitsOf(packed[b], ByteBits)])

BitLength(n) == CHOOSE w \in 0 .. FloatSize : n < 2^w /\ (w = 0 \/ n >= 2^(w - 1))
For_width(n) == BitLength(n)
write_for(vals) ==
    LET lo == IF vals = <<>> THEN 0 ELSE Min(ToSet(vals))
        hi == IF vals = <<>> THEN 0 ELSE Max(ToSet(vals))
        width == For_width(hi - lo)
    IN <<lo, width>> \o bytes(Pack(FlattenSeq([i \in DOMAIN vals |-> BitsOf(vals[i] - lo, width)])))
read_for(rest, rows) ==
    LET lo == rest[1]
        width == rest[2]
        packed == ReadBytes(SubSeq(rest, 3, Len(rest)))
        bits == Unpack(packed.v)
    IN IF Len(rest) < 2 THEN Fail
       ELSE IF width > WordSize \/ ~guard_len(rest, rows, 0) \/ ~packed.ok THEN Fail
       ELSE IF Len(packed.v) # PackedLen(rows * width) THEN Fail
       ELSE Ok([i \in 1 .. rows |-> Wrap(lo + ValueOf(SubSeq(bits, (i - 1) * width + 1, i * width)))],
               packed.rest)
------------------------------------------------------------------------------
(* Validity.  Tag 0: no bitmap; 1: its words; 2: runs, the first of them     *)
(* valid (and possibly empty).                                               *)
RunsOf(s) ==
    FoldLeft(LAMBDA acc, x : IF acc # <<>> /\ acc[Len(acc)][1] = x
                             THEN [acc EXCEPT ![Len(acc)] = <<x, @[2] + 1>>]
                             ELSE Append(acc, <<x, 1>>), <<>>, s)
compute_runs(b) ==
    LET runs == RunsOf([i \in 1 .. b.len |-> BitAt(b, i)])
        lens == [i \in DOMAIN runs |-> runs[i][2]]
    IN IF runs = <<>> \/ ~runs[1][1] THEN <<0>> \o lens ELSE lens
encode_validity(v) ==
    IF v = None THEN <<0>>
    ELSE LET runs == compute_runs(v[1]) IN
         IF Len(v[1].words) <= Len(runs) + 1 THEN <<1>> \o v[1].words
         ELSE <<2, Len(runs)>> \o runs
decode_runs(rest, rows) ==
    LET runs == take(Tail(rest), Head(rest))
        sum[i \in 0 .. Len(runs.v)] == IF i = 0 THEN 0 ELSE sum[i - 1] + runs.v[i]
        bits == FlattenSeq([i \in DOMAIN runs.v |-> [j \in 1 .. runs.v[i] |-> i % 2 = 1]])
    IN IF rest = <<>> \/ ~runs.ok THEN Fail
       ELSE IF \E i \in DOMAIN runs.v : sum[i] > rows THEN Fail
       ELSE IF sum[Len(runs.v)] # rows THEN Fail
       ELSE Ok(Some(FoldLeft(BitPush, new_valid(0), bits)), runs.rest)
decode_validity(rest, rows) ==
    LET words == take(Tail(rest), word_count(rows))
        bm == from_words(words.v, rows)
    IN CASE rest = <<>> -> Fail
         [] rest # <<>> /\ Head(rest) = 0 -> Ok(None, Tail(rest))
         [] rest # <<>> /\ Head(rest) = 1 -> IF ~words.ok \/ bm = None THEN Fail ELSE Ok(bm, words.rest)
         [] rest # <<>> /\ Head(rest) = 2 -> decode_runs(Tail(rest), rows)
         [] OTHER -> Fail
------------------------------------------------------------------------------
(* The encodings of integers.  A signed value is first mapped to an unsigned *)
(* one of the same order by flipping its sign bit.                           *)
map_i64(v) == [i \in DOMAIN v |-> v[i] + 2^IntBits]
unmap_i64(v) == [i \in DOMAIN v |-> v[i] - 2^IntBits]

\* Runs of unsigned values are varints, of signed ones zigzagged varints.
Put(x, unsigned) == IF unsigned THEN x ELSE zigzag(x)
Take(x, unsigned) == IF unsigned THEN x ELSE unzigzag(x)
RleEncode(v, unsigned) ==
    LET runs == RunsOf(v) IN
    <<Len(runs)>> \o FlattenSeq([i \in DOMAIN runs |-> <<Put(runs[i][1], unsigned), runs[i][2]>>])
\* Every run is at least one row long and no prefix of them passes rows.
RleDecode(rest, rows, unsigned) ==
    LET runs == take(Tail(rest), 2 * Head(rest))
        sum[i \in 0 .. Head(rest)] == IF i = 0 THEN 0 ELSE sum[i - 1] + runs.v[2 * i]
    IN IF rest = <<>> THEN Fail
       ELSE IF Head(rest) > rows \/ ~guard_len(Tail(rest), Head(rest), 2) \/ ~runs.ok THEN Fail
       ELSE IF \E i \in 1 .. Head(rest) : runs.v[2 * i] = 0 \/ sum[i] > rows THEN Fail
       ELSE IF sum[Head(rest)] # rows THEN Fail
       ELSE Ok(FlattenSeq([r \in 1 .. Head(rest) |->
                    [j \in 1 .. runs.v[2 * r] |-> Take(runs.v[2 * r - 1], unsigned)]]), runs.rest)

Diffs(x) == [i \in 1 .. Len(x) - 1 |-> Signed(Wrap(x[i + 1] - x[i]))]
encode_delta_mapped(x) ==
    IF x = <<>> THEN <<>>
    ELSE <<x[1]>> \o (IF Len(x) = 1 THEN <<>> ELSE write_for([i \in DOMAIN Diffs(x) |-> zigzag(Diffs(x)[i])]))
decode_delta_mapped(rest, rows) ==
    LET deltas == read_for(Tail(rest), rows - 1)
        val[i \in 1 .. rows] == IF i = 1 THEN rest[1] ELSE Wrap(val[i - 1] + unzigzag(deltas.v[i - 1]))
    IN IF rows = 0 THEN Ok(<<>>, rest)
       ELSE IF rest = <<>> THEN Fail
       ELSE IF rows = 1 THEN Ok(<<rest[1]>>, Tail(rest))
       ELSE IF ~deltas.ok THEN Fail ELSE Ok([i \in 1 .. rows |-> val[i]], deltas.rest)
\* From two rows on the block of second differences is written, even when empty.
encode_dod_mapped(x) ==
    LET d == Diffs(x) IN
    IF x = <<>> THEN <<>>
    ELSE IF Len(x) = 1 THEN <<x[1]>>
    ELSE <<x[1], zigzag(d[1])>>
           \o write_for([i \in 1 .. Len(d) - 1 |-> zigzag(Signed(Wrap(d[i + 1] - d[i])))])
decode_dod_mapped(rest, rows) ==
    LET seconds == read_for(SubSeq(rest, 3, Len(rest)), rows - 2)
        delta[i \in 1 .. rows - 1] ==
            IF i = 1 THEN unzigzag(rest[2]) ELSE Signed(Wrap(delta[i - 1] + unzigzag(seconds.v[i - 1])))
        val[i \in 1 .. rows] == IF i = 1 THEN rest[1] ELSE Wrap(val[i - 1] + delta[i - 1])
    IN IF rows = 0 THEN Ok(<<>>, rest)
       ELSE IF rest = <<>> \/ (rows > 1 /\ Len(rest) < 2) THEN Fail
       ELSE IF rows = 1 THEN Ok(<<rest[1]>>, Tail(rest))
       ELSE IF ~seconds.ok THEN Fail ELSE Ok([i \in 1 .. rows |-> val[i]], seconds.rest)
------------------------------------------------------------------------------
(* XOR: a float is coded against its predecessor: a 0 bit when equal, the    *)
(* bits of the last window when the difference lies inside it, or a new      *)
(* window with its leading zeros and its length.                             *)
BitXor(a, b) == ValueOf([i \in 1 .. FloatSize |-> (Bit(a, i - 1) + Bit(b, i - 1)) % 2])
Leading(x) == FloatSize - BitLength(x)
Trailing(x) == CHOOSE t \in 0 .. FloatSize - 1 : Bit(x, t) = 1 /\ \A u \in 0 .. t - 1 : Bit(x, u) = 0
XorPut(acc, bits, x) ==
    LET len == FloatSize - Leading(x) - Trailing(x)
        reuse == /\ acc.lead >= 0
                 /\ Leading(x) >= acc.lead /\ Trailing(x) >= FloatSize - acc.lead - acc.len
    IN IF x = 0 THEN [acc EXCEPT !.bits = Append(@, 0)]
       ELSE IF reuse
       THEN [acc EXCEPT !.prev = bits, !.bits =
                @ \o <<1, 0>> \o BitsOf(x \div 2^(FloatSize - acc.lead - acc.len), acc.len)]
       ELSE [prev |-> bits, lead |-> Leading(x), len |-> len, bits |->
                acc.bits \o <<1, 1>> \o BitsOf(Leading(x), LeadBits) \o BitsOf(len, LeadBits + 1)
                  \o BitsOf(x \div 2^Trailing(x), len)]
XorStep(acc, bits) == XorPut(acc, bits, BitXor(bits, acc.prev))
xor_encode(v) ==
    LET w == [i \in DOMAIN v |-> to_bits(v[i])] IN
    IF v = <<>> THEN <<>>
    ELSE Pack(FoldLeft(XorStep, [prev |-> w[1], lead |-> -1, len |-> 0, bits |-> BitsOf(w[1], FloatSize)],
                       Tail(w)).bits)
XorUnstep(acc, i) ==
    LET b == acc.bits
        has(n) == Len(b) >= n
        cut(n) == SubSeq(b, n + 1, Len(b))
        put(n, x) == [acc EXCEPT !.bits = cut(n), !.out = Append(@, BitXor(x, Last(@)))]
        lead == ValueOf(SubSeq(b, 3, 2 + LeadBits))
        len == ValueOf(SubSeq(b, 3 + LeadBits, 3 + 2 * LeadBits))
        head == 3 + 2 * LeadBits
        bad == [acc EXCEPT !.ok = FALSE]
    IN CASE ~acc.ok -> acc
         [] acc.ok /\ has(1) /\ b[1] = 0 -> put(1, 0)
         [] acc.ok /\ has(2) /\ b[1] = 1 /\ b[2] = 0 ->
              IF acc.lead < 0 \/ ~has(2 + acc.len) THEN bad
              ELSE put(2 + acc.len, ValueOf(SubSeq(b, 3, 2 + acc.len)) * 2^(FloatSize - acc.lead - acc.len))
         [] acc.ok /\ has(head) /\ b[1] = 1 /\ b[2] = 1 ->
              IF len = 0 \/ lead + len > FloatSize \/ ~has(head + len) THEN bad
              ELSE [put(head + len, ValueOf(SubSeq(b, head + 1, head + len)) * 2^(FloatSize - lead - len))
                      EXCEPT !.lead = lead, !.len = len]
         [] OTHER -> bad
XorFloats(r) == IF r.ok THEN Ok([i \in DOMAIN r.out |-> from_bits(r.out[i])], <<>>) ELSE Fail
XorBits(bits, rows) ==
    LET first == [ok |-> TRUE, bits |-> SubSeq(bits, FloatSize + 1, Len(bits)), lead |-> -1, len |-> 0,
                  out |-> <<ValueOf(SubSeq(bits, 1, FloatSize))>>]
    IN IF Len(bits) < FloatSize THEN Fail ELSE XorFloats(FoldLeft(XorUnstep, first, [i \in 1 .. rows - 1 |-> i]))
xor_decode(rest, rows) ==
    CASE rows = 0 -> Ok(<<>>, rest)
      [] rows # 0 /\ ~guard_len(rest, rows, 0) -> Fail
      [] OTHER -> XorBits(Unpack(rest), rows)
------------------------------------------------------------------------------
(* DICT: the distinct values of the valid rows in the order they first       *)
(* appear, then one code per row; a null row has code 0.                     *)
dict_encode(c) ==
    LET live == SelectSeq([i \in 1 .. ColumnLen(c) |-> i], LAMBDA i : ~IsNullAt(c, i))
        entries == FoldLeft(LAMBDA acc, i : IF Contains(acc, Range0(c, i)) THEN acc
                                            ELSE Append(acc, Range0(c, i)), <<>>, live)
        code(i) == IF IsNullAt(c, i) THEN 0
                   ELSE (CHOOSE j \in DOMAIN entries : entries[j] = Range0(c, i)) - 1
    IN <<Len(entries)>> \o FlattenSeq([j \in DOMAIN entries |-> bytes(entries[j])])
         \o write_for([i \in 1 .. ColumnLen(c) |-> code(i)])
ReadEntries(rest, n) ==
    LET add(acc, e) == IF acc.ok /\ e.ok THEN Ok(Append(acc.v, e.v), e.rest) ELSE Fail
    IN FoldLeft(LAMBDA acc, i : add(acc, ReadBytes(acc.rest)), Ok(<<>>, rest), [i \in 1 .. n |-> i])
\* The rows one after another.
Spread(rows, rest) ==
    LET off[i \in 0 .. Len(rows)] == IF i = 0 THEN 0 ELSE off[i - 1] + Len(rows[i])
    IN IF off[Len(rows)] > MaxDecodeBytes \/ off[Len(rows)] > MaxOffset THEN Fail
       ELSE Ok([off |-> [i \in 1 .. Len(rows) + 1 |-> off[i - 1]], data |-> FlattenSeq(rows)], rest)
DictRows(entries, codes, rows, validity) ==
    LET valid(i) == validity = None \/ BitAt(validity[1], i) IN
    IF ~codes.ok THEN Fail
    ELSE IF \E i \in 1 .. rows : valid(i) /\ codes.v[i] >= Len(entries) THEN Fail
    ELSE Spread([i \in 1 .. rows |-> IF valid(i) THEN entries[codes.v[i] + 1] ELSE <<>>], codes.rest)
DictCodes(entries, rows, validity) ==
    IF entries.ok THEN DictRows(entries.v, read_for(entries.rest, rows), rows, validity) ELSE Fail
dict_decode(rest, rows, validity) ==
    LET nvalid == IF validity = None THEN rows ELSE count_valid(validity[1]) IN
    IF rest = <<>> THEN Fail
    ELSE IF rest[1] > rows \/ ~guard_len(Tail(rest), rest[1], 1) \/ (nvalid = 0 /\ rest[1] > 0) THEN Fail
    ELSE DictCodes(ReadEntries(Tail(rest), rest[1]), rows, validity)
------------------------------------------------------------------------------
(* A chunk: the validity and then the values in the chosen encoding.  Ids:   *)
(* 0 plain, 1 dict, 2 rle, 3 frame of reference, 4 delta, 5 delta of delta,  *)
(* 6 xor.                                                                    *)
applies_to(id, ty) ==
    CASE id = 0 -> TRUE
      [] id = 1 -> ty.k \in VarWidth
      [] id = 2 -> ty.k \in {"BOOL", "INT64", "UINT64", "TIMESTAMP", "DATE"}
      [] id \in 3 .. 5 -> ty.k \in {"INT64", "UINT64", "TIMESTAMP", "DATE"}
      [] id = 6 -> ty.k = "FLOAT64"
      [] OTHER -> FALSE
IntLike(id, v) ==
    CASE id = 3 -> write_for(v) [] id = 4 -> encode_delta_mapped(v) [] id = 5 -> encode_dod_mapped(v)
UnIntLike(id, rest, rows) ==
    CASE id = 3 -> read_for(rest, rows)
      [] id = 4 -> decode_delta_mapped(rest, rows)
      [] id = 5 -> decode_dod_mapped(rest, rows)
\* plain: signed numbers in two's complement of their width; a BOOL column is
\* written as the words of its bitmap.
PlainModulus(ty) ==
    CASE ty.k = "DATE" -> 2 * (DateMax + 1) [] ty.k = "DECIMAL" -> 2 * (I128Max + 1)
      [] ty.k = "FLOAT64" -> 2^FloatSize [] OTHER -> Modulus
PlainSigned(ty) == ty.k \in {"INT64", "FLOAT64", "TIMESTAMP", "DATE", "DECIMAL"}
FromPlain(ty, u) ==
    LET w == u % PlainModulus(ty) IN
    IF PlainSigned(ty) /\ 2 * w >= PlainModulus(ty) THEN w - PlainModulus(ty) ELSE w
BoolWords(data) == FoldLeft(BitPush, new_valid(0), [i \in DOMAIN data |-> data[i] = 1]).words
plain_encode(c) ==
    CASE c.ty.k = "BOOL" -> BoolWords(c.data)
      [] c.ty.k \in VarWidth -> c.off \o c.data
      [] OTHER -> [i \in DOMAIN c.data |-> c.data[i] % PlainModulus(c.ty)]
EncodeScalar(c, id) ==
    encode_validity(c.validity) \o
      CASE id = 0 -> plain_encode(c)
        [] id = 1 -> dict_encode(c)
        [] id = 2 -> RleEncode(c.data, c.ty.k \in {"BOOL", "UINT64"})
        [] id \in 3 .. 5 -> IntLike(id, IF c.ty.k = "UINT64" THEN c.data ELSE map_i64(c.data))
        [] id = 6 -> xor_encode(c.data)
\* Selection: the encoding that makes the sample smallest, the lower id on a tie.
build_sample(c) ==
    LET rows == ColumnLen(c)
        starts == <<0, rows \div 4, rows \div 2, (3 * rows) \div 4>>
        len(i) == Min({SampleRows \div 4, rows - starts[i]})
        windows == SelectSeq(<<1, 2, 3, 4>>, LAMBDA i : len(i) > 0)
    IN IF rows <= SampleRows THEN slice(c, 0, rows)
       ELSE concat(c.ty, [w \in DOMAIN windows |-> slice(c, starts[windows[w]], len(windows[w]))])[1]
SampleSizes(sample) == [id \in {i \in 0 .. 6 : applies_to(i, sample.ty)} |-> Len(EncodeScalar(sample, id))]
Smallest(sizes) == Min({id \in DOMAIN sizes : \A j \in DOMAIN sizes : sizes[id] <= sizes[j]})
choose(c) == Smallest(SampleSizes(build_sample(c)))
\* A LIST is written plain: its offsets, then its child as a chunk of its own.
encode_with(c, id) ==
    LET child(e) == encode_validity(c.validity) \o c.off \o <<e>> \o bytes(EncodeScalar(c.child[1], e))
    IN IF c.ty.k = "LIST" THEN child(choose(c.child[1])) ELSE EncodeScalar(c, id)

plain_decode(ty, rows, rest) ==
    LET n == IF ty.k = "BOOL" THEN word_count(rows) ELSE rows
        fixed == take(rest, n)
        off == take(rest, rows + 1)
        data == take(off.rest, off.v[rows + 1])
        bm == from_words(fixed.v, rows)
    IN CASE ty.k = "BOOL" ->
              IF ~fixed.ok \/ bm = None THEN Fail
              ELSE Ok([off |-> <<>>, data |-> [i \in 1 .. rows |-> IF BitAt(bm[1], i) THEN 1 ELSE 0]], fixed.rest)
         [] ty.k \in VarWidth ->
              IF ~off.ok THEN Fail ELSE IF ~data.ok THEN Fail
              ELSE Ok([off |-> off.v, data |-> data.v], data.rest)
         [] OTHER -> IF ~fixed.ok THEN Fail
                     ELSE Ok([off |-> <<>>, data |-> [i \in 1 .. rows |-> FromPlain(ty, fixed.v[i])]], fixed.rest)
FixedValues(ty, r) ==
    IF ~r.ok THEN Fail
    ELSE IF ty.k = "BOOL" /\ \E i \in DOMAIN r.v : r.v[i] > 1 THEN Fail
    ELSE IF ty.k = "DATE" /\ \E i \in DOMAIN r.v : ~FitsDate(r.v[i]) THEN Fail
    ELSE Ok([off |-> <<>>, data |-> r.v], r.rest)
Unmapped(r) == IF r.ok THEN Ok(unmap_i64(r.v), r.rest) ELSE Fail
decode_values(ty, rows, id, validity, rest) ==
    CASE id = 0 -> plain_decode(ty, rows, rest)
      [] id = 1 -> dict_decode(rest, rows, validity)
      [] OTHER -> FixedValues(ty,
            CASE id = 2 -> RleDecode(rest, rows, ty.k \in {"BOOL", "UINT64"})
              [] id = 6 -> xor_decode(rest, rows)
              [] id \in 3 .. 5 /\ ty.k = "UINT64" -> UnIntLike(id, rest, rows)
              [] OTHER -> Unmapped(UnIntLike(id, rest, rows)))
Parts(ty, v, child) == [k |-> ty.k, off |-> v.off, data |-> v.data, child |-> child]
\* A chunk is used up by what it holds.
WholeValues(ty, validity, vals) ==
    IF vals.ok /\ vals.rest = <<>> THEN from_parts(ty, Parts(ty, vals.v, None), validity) ELSE None
ScalarUnder(ty, rows, id, validity) ==
    IF validity.ok THEN WholeValues(ty, validity.v, decode_values(ty, rows, id, validity.v, validity.rest)) ELSE None
DecodeScalar(ty, rows, id, units) ==
    IF rows > MaxDecodeRows \/ ~applies_to(id, ty) THEN None ELSE ScalarUnder(ty, rows, id, decode_validity(units, rows))
ListAround(ty, off, validity, child) ==
    IF child = None THEN None ELSE from_parts(ty, Parts(ty, [off |-> off, data |-> <<>>], child), validity)
ChildUnder(ty, rows, validity, off, body) ==
    IF ~body.ok THEN None ELSE IF body.rest # <<>> THEN None
    ELSE ListAround(ty, off.v, validity, DecodeScalar(ty.e[1], off.v[rows + 1], Head(off.rest), body.v))
OffsetsUnder(ty, rows, validity, off) ==
    IF ~off.ok THEN None ELSE IF off.rest = <<>> THEN None
    ELSE ChildUnder(ty, rows, validity, off, ReadBytes(Tail(off.rest)))
ListUnder(ty, rows, validity) ==
    IF validity.ok THEN OffsetsUnder(ty, rows, validity.v, take(validity.rest, rows + 1)) ELSE None
decode_column(ty, rows, id, units) ==
    CASE ty.k # "LIST" -> DecodeScalar(ty, rows, id, units)
      [] ty.k = "LIST" /\ (rows > MaxDecodeRows \/ id # 0) -> None
      [] OTHER -> ListUnder(ty, rows, decode_validity(units, rows))
=============================================================================
