---------------------------- MODULE SkipIndexes ----------------------------
(***************************************************************************)
(* storage/segment/value.rs and storage/segment/index: the codec of one     *)
(* value, and the skip structures built for the columns of a row group.     *)
(* Kinds: 1 BLOOM, 2 VALUE_SET, 3 NGRAM.                                    *)
(***************************************************************************)
EXTENDS Encodings

CONSTANTS
    BloomK,        \* probes of a bloom filter (7), at most BloomKMax (16)
    BloomKMax,
    MinLog2,       \* MIN_LOG2_BITS (9)
    MaxLog2,       \* MAX_LOG2_BITS (20)
    BitsPerKey,    \* 10
    GramLen,       \* bytes of an n-gram (3)
    ValueSetMax    \* VALUE_SET_MAX

ASSUME SkipIndexesAssumption ==
    /\ {BloomK, BloomKMax, MinLog2, BitsPerKey, GramLen} \subseteq Nat \ {0}
    /\ ValueSetMax \in Nat /\ BloomK <= BloomKMax /\ MaxLog2 \in MinLog2 .. 30
    /\ 2^MinLog2 % WordBits = 0
------------------------------------------------------------------------------
(* One value.  A float is written as its bits, so 0.0 and -0.0 differ.       *)
value_matches(v, ty) == v.k = ty.k /\ ty.k # "LIST"
encode_value(v, ty) ==
    CASE ty.k \in VarWidth -> bytes(v.x)
      [] OTHER -> <<v.v % PlainModulus(ty)>>
TextIn(b, k) == IF b.ok THEN Ok(Seqv(k, b.v), b.rest) ELSE Fail
NumberIn(u, n, ty) ==
    CASE ty.k = "BOOL" /\ u.v \notin {0, 1} -> Fail
      [] ty.k = "DECIMAL" -> IF Abs(n) >= pow10(ty.p) THEN Fail ELSE Ok(Decimal(n, ty.s)[1], u.rest)
      [] OTHER -> Ok(Val(ty.k, n), u.rest)
UnitAs(u, ty) == IF u.ok THEN NumberIn(u, FromPlain(ty, u.v), ty) ELSE Fail
decode_value(rest, ty) ==
    CASE ty.k = "LIST" -> Fail
      [] ty.k \in VarWidth -> TextIn(ReadBytes(rest), ty.k)
      [] OTHER -> UnitAs(ReadUnit(rest), ty)
encode_opt(o, ty) == IF o = None THEN <<0>> ELSE <<1>> \o encode_value(o[1], ty)
Present(v) == IF v.ok THEN Ok(Some(v.v), v.rest) ELSE Fail
OptUnder(tag, ty) ==
    CASE ~tag.ok -> Fail
      [] tag.ok /\ tag.v = 0 -> Ok(None, tag.rest)
      [] tag.ok /\ tag.v = 1 -> Present(decode_value(tag.rest, ty))
      [] OTHER -> Fail
decode_opt(rest, ty) == OptUnder(ReadUnit(rest), ty)
value_bytes(v, ty) == encode_value(v, ty)
------------------------------------------------------------------------------
(* BLOOM.  Any function of the bytes and the seed serves as the hash; the    *)
(* code's is xxh64.                                                          *)
HashOf(b, seed) == FoldLeft(LAMBDA acc, u : (acc * 5 + u + seed) % 64, 3 + 2 * seed, b)
probe(b, k, log2) ==
    LET bits(h1, h2) == {(h1 + i * h2) % 2^log2 : i \in 0 .. k - 1}
        odd(h) == IF h % 2 = 0 THEN h + 1 ELSE h
    IN bits(HashOf(b, 0), odd(HashOf(b, 1)))
insert_bytes(bloom, b) == [bloom EXCEPT !.bits = @ \cup probe(b, bloom.k, bloom.log2)]
test_bytes(bloom, b) == probe(b, bloom.k, bloom.log2) \subseteq bloom.bits
size_log2(distinct) ==
    LET big == {l \in MinLog2 .. MaxLog2 : 2^l >= BitsPerKey * distinct} IN
    IF big = {} THEN MaxLog2 ELSE Min(big)
BloomEmpty(ty, distinct) == [k |-> BloomK, log2 |-> size_log2(distinct), bits |-> {}, ty |-> ty]
BloomOver(ty, keys) ==
    [BloomEmpty(ty, Cardinality(keys)) EXCEPT
        !.bits = UNION {insert_bytes(BloomEmpty(ty, Cardinality(keys)), b).bits : b \in keys}]
LiveRows(c) == {i \in 1 .. ColumnLen(c) : ~IsNullAt(c, i)}
BloomBuild(c) == BloomOver(c.ty, {value_bytes(get(c, i), c.ty) : i \in LiveRows(c)})
bloom_might_contain(bloom, v) ==
    is_null(v) \/ ~value_matches(v, bloom.ty) \/ test_bytes(bloom, value_bytes(v, bloom.ty))
bloom_encode(bloom) ==
    <<bloom.k, bloom.log2>> \o
      [w \in 1 .. 2^bloom.log2 \div WordBits |->
         ValueOf([i \in 1 .. WordBits |-> IF (w - 1) * WordBits + i - 1 \in bloom.bits THEN 1 ELSE 0])]
bloom_load(ty, blob) ==
    LET k == blob[1]
        log2 == blob[2]
        words == SubSeq(blob, 3, Len(blob))
    IN IF Len(blob) < 2 THEN None
       ELSE IF k \notin 1 .. BloomKMax \/ log2 \notin MinLog2 .. MaxLog2 THEN None
       ELSE IF Len(words) # 2^log2 \div WordBits THEN None
       ELSE Some([k |-> k, log2 |-> log2, ty |-> ty,
                  bits |-> {p \in 0 .. 2^log2 - 1 : Bit(words[p \div WordBits + 1], p % WordBits) = 1}])
------------------------------------------------------------------------------
(* VALUE_SET: the distinct values in order, None when there are too many.    *)
Same(a, b) == total_cmp(a, b) = Some(0)
ValueSetBuild(c) ==
    LET live == SelectSeq(Rows(c), LAMBDA v : ~is_null(v))
        distinct == FoldLeft(LAMBDA acc, v : IF \E i \in DOMAIN acc : Same(acc[i], v) THEN acc
                                             ELSE Append(acc, v), <<>>, live)
        sorted(vals) == IF Len(vals) > ValueSetMax THEN None ELSE Some([ty |-> c.ty, vals |-> SetToSortSeq(ToSet(vals), Less)])
    IN sorted(distinct)
set_might_contain(s, v) ==
    is_null(v) \/ ~value_matches(v, s.ty) \/ \E i \in DOMAIN s.vals : Same(s.vals[i], v)
set_encode(s) == <<Len(s.vals)>> \o FlattenSeq([i \in DOMAIN s.vals |-> encode_value(s.vals[i], s.ty)])
SortedSet(read, ty) ==
    IF ~read.ok THEN None
    ELSE IF read.rest # <<>> \/ \E i \in 1 .. Len(read.v) - 1 : ~Less(read.v[i], read.v[i + 1]) THEN None
    ELSE Some([ty |-> ty, vals |-> read.v])
set_load(ty, blob) ==
    LET add(acc, v) == IF acc.ok /\ v.ok THEN Ok(Append(acc.v, v.v), v.rest) ELSE Fail IN
    IF blob = <<>> THEN None
    ELSE IF ~guard_len(Tail(blob), Head(blob), 1) THEN None
    ELSE SortedSet(FoldLeft(LAMBDA acc, i : add(acc, decode_value(acc.rest, ty)), Ok(<<>>, Tail(blob)), [i \in 1 .. Head(blob) |-> i]), ty)
------------------------------------------------------------------------------
(* NGRAM: a bloom filter over the windows of GramLen bytes of every string.  *)
Grams(s) == {SubSeq(s, i, i + GramLen - 1) : i \in 1 .. Len(s) - GramLen + 1}
NgramBuild(c) == BloomOver(Ty("STRING"), UNION {Grams(get(c, i).x) : i \in LiveRows(c)})
ngram_might_contain(bloom, s) == Len(s) < GramLen \/ \A g \in Grams(s) : test_bytes(bloom, g)
------------------------------------------------------------------------------
(* A skip index of any kind.                                                 *)
index_applies_to(kind, ty) == IF kind = 3 THEN ty.k = "STRING" ELSE ty.k # "LIST"
index_build(kind, c) ==
    IF ~index_applies_to(kind, c.ty) THEN None
    ELSE CASE kind = 1 -> Some(bloom_encode(BloomBuild(c)))
           [] kind = 2 -> LET s == ValueSetBuild(c) IN IF s = None THEN None ELSE Some(set_encode(s[1]))
           [] kind = 3 -> Some(bloom_encode(NgramBuild(c)))
SkipIndex(kind, loaded) == IF loaded = None THEN None ELSE Some([kind |-> kind, ix |-> loaded[1]])
index_load(kind, ty, blob) ==
    SkipIndex(kind, CASE kind = 1 -> bloom_load(ty, blob)
                      [] kind = 2 -> set_load(ty, blob)
                      [] kind = 3 -> bloom_load(Ty("STRING"), blob))
might_contain(s, v) ==
    CASE s.kind = 1 -> bloom_might_contain(s.ix, v)
      [] s.kind = 2 -> set_might_contain(s.ix, v)
      [] s.kind = 3 -> TRUE
might_contain_substring(s, b) == s.kind # 3 \/ ngram_might_contain(s.ix, b)
=============================================================================
