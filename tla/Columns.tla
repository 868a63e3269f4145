------------------------------ MODULE Columns ------------------------------
(***************************************************************************)
(* exec/bitmap.rs, exec/column.rs and exec/stats.rs: a typed column with    *)
(* its validity bitmap, the builder that appends values to one, and the     *)
(* operations that cut, join, rebuild and summarise columns.                *)
(*                                                                          *)
(* A column is a record: ty, the buffer data (numbers of a fixed-width type *)
(* or the bytes of STRING and BYTES), the offsets off of a variable-width   *)
(* type, the child column of a LIST, the validity and the cached null count.*)
(* Rows are numbered from 1 and offsets are those of the code, so row i is  *)
(* data[off[i] + 1 .. off[i + 1]].  A LIST element is never a LIST, so the  *)
(* recursion of the code is two levels deep.                                *)
(***************************************************************************)
EXTENDS Types, SequencesExt, FiniteSetsExt

CONSTANTS
    WordBits,    \* bits of a bitmap word (64)
    MaxOffset    \* the largest offset (u32::MAX)

ASSUME ColumnsAssumption == {WordBits, MaxOffset} \subseteq Nat \ {0}

VarWidth == {"STRING", "BYTES"}
Fixed(ty) == ty.k \notin VarWidth \cup {"LIST"}
------------------------------------------------------------------------------
(* Bitmap: the bits at or past len are zero.                                 *)
word_count(len) == (len + WordBits - 1) \div WordBits
Bit(word, i) == (word \div 2^i) % 2
mask_trailing(words, len) ==
    IF len % WordBits = 0 \/ words = <<>> THEN words
    ELSE [words EXCEPT ![Len(words)] = @ % 2^(len % WordBits)]
new_valid(len) ==
    [words |-> mask_trailing([i \in 1 .. word_count(len) |-> 2^WordBits - 1], len), len |-> len]
BitAt(b, i) == Bit(b.words[(i - 1) \div WordBits + 1], (i - 1) % WordBits) = 1
BitPush(b, valid) ==
    LET words == IF b.len % WordBits = 0 THEN Append(b.words, 0) ELSE b.words
        bit == IF valid THEN 2^(b.len % WordBits) ELSE 0
    IN [words |-> [words EXCEPT ![Len(words)] = @ + bit], len |-> b.len + 1]
count_valid(b) ==
    Cardinality({p \in (DOMAIN b.words) \X (0 .. WordBits - 1) : Bit(b.words[p[1]], p[2]) = 1})
from_words(words, len) ==
    IF Len(words) # word_count(len) \/ mask_trailing(words, len) # words THEN None
    ELSE Some([words |-> words, len |-> len])
------------------------------------------------------------------------------
(* Reading a column.                                                         *)
Column(ty, off, data, child, validity) ==
    LET rows == IF Fixed(ty) THEN Len(data) ELSE Len(off) - 1 IN
    [ty |-> ty, off |-> off, data |-> data, child |-> child, validity |-> validity,
     nulls |-> IF validity = None THEN 0 ELSE rows - count_valid(validity[1])]
ColumnLen(c) == IF Fixed(c.ty) THEN Len(c.data) ELSE Len(c.off) - 1
IsNullAt(c, i) == c.validity # None /\ ~BitAt(c.validity[1], i)
Range0(c, i) == SubSeq(c.data, c.off[i] + 1, c.off[i + 1])
GetScalar(c, i) ==
    CASE IsNullAt(c, i) -> Null
      [] c.ty.k = "DECIMAL" -> Decimal(c.data[i], c.ty.s)[1]
      [] c.ty.k \in VarWidth -> Seqv(c.ty.k, Range0(c, i))
      [] OTHER -> Val(c.ty.k, c.data[i])
get(c, i) ==
    IF c.ty.k = "LIST" /\ ~IsNullAt(c, i)
    THEN Seqv("LIST", [j \in 1 .. c.off[i + 1] - c.off[i] |-> GetScalar(c.child[1], c.off[i] + j)])
    ELSE GetScalar(c, i)
Rows(c) == [i \in 1 .. ColumnLen(c) |-> get(c, i)]

\* stats: rows, nulls and the extremes, folding the rows of every word that is not zero.
Less(a, b) == total_cmp(a, b) = Some(-1)
Consider(acc, v) ==
    [min |-> IF acc.min = None \/ Less(v, acc.min[1]) THEN Some(v) ELSE acc.min,
     max |-> IF acc.max = None \/ Less(acc.max[1], v) THEN Some(v) ELSE acc.max]
scan_min_max(c) ==
    LET len == ColumnLen(c)
        visited == IF c.validity = None THEN 1 .. len
                   ELSE {i \in 1 .. len : /\ c.validity[1].words[(i - 1) \div WordBits + 1] # 0
                                          /\ BitAt(c.validity[1], i)}
    IN FoldLeft(Consider, [min |-> None, max |-> None],
                [i \in 1 .. Cardinality(visited) |-> get(c, SetToSortSeq(visited, <)[i])])
stats(c) ==
    LET with(mm) == [rows |-> ColumnLen(c), nulls |-> c.nulls, min |-> mm.min, max |-> mm.max]
    IN with(IF c.ty.k = "LIST" THEN [min |-> None, max |-> None] ELSE scan_min_max(c))
------------------------------------------------------------------------------
(* Rebuilding a column from decoded buffers: every check get relies on.      *)
validate_offsets(off, end_len) ==
    /\ off # <<>> /\ off[1] = 0
    /\ \A i \in 1 .. Len(off) - 1 : off[i] <= off[i + 1]
    /\ off[Len(off)] = end_len
\* parts is the kind of the buffers with the buffers themselves.
build_data(ty, parts) ==
    /\ parts.k = ty.k
    /\ CASE ty.k = "DECIMAL" -> \A i \in DOMAIN parts.data : Abs(parts.data[i]) < pow10(ty.p)
         [] ty.k \in VarWidth -> validate_offsets(parts.off, Len(parts.data))
         [] ty.k = "LIST" -> /\ parts.child[1].ty = ty.e[1]
                             /\ validate_offsets(parts.off, ColumnLen(parts.child[1]))
         [] OTHER -> TRUE
values(c) == [k |-> c.ty.k, off |-> c.off, data |-> c.data, child |-> c.child]
from_parts(ty, parts, validity) ==
    LET rows == IF Fixed(ty) THEN Len(parts.data) ELSE Len(parts.off) - 1 IN
    IF ~build_data(ty, parts) \/ (validity # None /\ validity[1].len # rows) THEN None
    ELSE Some(Column(ty, parts.off, parts.data, parts.child, validity))
------------------------------------------------------------------------------
(* slice and concat.                                                         *)
slice_bitmap_aligned(b, start, len) ==
    FoldLeft(LAMBDA acc, i : BitPush(acc, BitAt(b, (start \div WordBits) * WordBits + i)), new_valid(0), [i \in 1 .. len |-> i])
slice_bitmap(b, start, len) ==
    FoldLeft(LAMBDA acc, i : BitPush(acc, BitAt(b, start + i)), new_valid(0), [i \in 1 .. len |-> i])
rebase_offsets(off, start, end) == [i \in 1 .. end - start + 1 |-> off[start + i] - off[start + 1]]
SliceScalar(c, start, len) ==
    LET end == start + len
        validity == IF c.validity = None THEN None ELSE Some(slice_bitmap(c.validity[1], start, len))
    IN IF Fixed(c.ty) THEN Column(c.ty, <<>>, SubSeq(c.data, start + 1, end), None, validity)
       ELSE Column(c.ty, rebase_offsets(c.off, start, end),
                   IF c.ty.k = "LIST" THEN <<>> ELSE SubSeq(c.data, c.off[start + 1] + 1, c.off[end + 1]),
                   None, validity)
slice(c, start, len) ==
    IF c.ty.k # "LIST" THEN SliceScalar(c, start, len)
    ELSE LET from == c.off[start + 1] IN
         [SliceScalar(c, start, len) EXCEPT
            !.child = Some(SliceScalar(c.child[1], from, c.off[start + len + 1] - from))]

\* The offsets of the columns one after another; None when one passes MaxOffset.
ConcatOffsets(cols) ==
    LET base[i \in 0 .. Len(cols)] == IF i = 0 THEN 0 ELSE base[i - 1] + cols[i].off[Len(cols[i].off)]
        all == <<0>> \o FlattenSeq([i \in DOMAIN cols |->
                    [j \in 1 .. Len(cols[i].off) - 1 |-> base[i - 1] + cols[i].off[j + 1]]])
    IN IF \E j \in DOMAIN all : all[j] > MaxOffset THEN None ELSE Some(all)
concat_validity(cols) ==
    LET bits == FlattenSeq([i \in DOMAIN cols |-> [j \in 1 .. ColumnLen(cols[i]) |-> ~IsNullAt(cols[i], j)]])
    IN IF \A i \in DOMAIN cols : cols[i].validity = None THEN None
       ELSE Some(FoldLeft(BitPush, new_valid(0), bits))
ConcatScalar(ty, cols) ==
    LET off == IF Fixed(ty) THEN Some(<<>>) ELSE ConcatOffsets(cols)
        data == FlattenSeq([i \in DOMAIN cols |-> cols[i].data])
    IN IF off = None THEN None
       ELSE Some(Column(ty, off[1], data, None, concat_validity(cols)))
EmptyColumn(ty) ==
    Column(ty, IF Fixed(ty) THEN <<>> ELSE <<0>>, <<>>,
           IF ty.k = "LIST" THEN Some(Column(ty.e[1], IF Fixed(ty.e[1]) THEN <<>> ELSE <<0>>,
                                             <<>>, None, None)) ELSE None, None)
WithChild(outer, child) ==
    IF outer = None THEN None ELSE IF child = None THEN None ELSE Some([outer[1] EXCEPT !.child = child])
concat(ty, cols) ==
    CASE cols = <<>> -> Some(EmptyColumn(ty))
      [] cols # <<>> /\ ty.k # "LIST" -> ConcatScalar(ty, cols)
      [] OTHER -> WithChild(ConcatScalar(ty, cols), ConcatScalar(ty.e[1], [i \in DOMAIN cols |-> cols[i].child[1]]))
------------------------------------------------------------------------------
(* ColumnBuilder.  A push returns the builder and an error ("" is none).     *)
push_default(b) ==
    IF Fixed(b.ty) THEN [b EXCEPT !.data = Append(@, 0)] ELSE [b EXCEPT !.off = Append(@, Last(@))]
push_null(b) ==
    LET len == ColumnLen(b)
        validity == IF b.validity = None THEN new_valid(len) ELSE b.validity[1]
    IN [push_default(b) EXCEPT !.validity = Some(BitPush(validity, FALSE)), !.nulls = @ + 1]
checked_offset(total) == total <= MaxOffset
MarkValid(b) ==
    IF b.validity = None THEN b ELSE [b EXCEPT !.validity = Some(BitPush(@[1], TRUE))]
PushScalar(b, v) ==
    IF Fixed(b.ty) THEN [b |-> MarkValid([b EXCEPT !.data = Append(@, v.v)]), err |-> ""]
    ELSE IF ~checked_offset(Len(b.data) + Len(v.x)) THEN [b |-> b, err |-> "TooLarge"]
    ELSE [b |-> MarkValid([b EXCEPT !.off = Append(@, Len(b.data) + Len(v.x)),
                                    !.data = @ \o v.x]), err |-> ""]
\* The items go to the child one by one; a child that overflows stops the push and
\* keeps the items before it.
PushItems(child, items) ==
    FoldLeft(LAMBDA r, v : IF r.err # "" THEN r
                           ELSE IF is_null(v) THEN [b |-> push_null(r.b), err |-> ""]
                           ELSE PushScalar(r.b, v),
             [b |-> child, err |-> ""], items)
CloseList(b, len, pushed) ==
    LET filled == [b EXCEPT !.child = Some(pushed.b)] IN
    [b |-> IF pushed.err # "" THEN filled ELSE MarkValid([filled EXCEPT !.off = Append(@, len)]), err |-> pushed.err]
PushList(b, len, items) ==
    IF checked_offset(len) THEN CloseList(b, len, PushItems(b.child[1], items)) ELSE [b |-> b, err |-> "TooLarge"]
push_coerced(b, v) ==
    IF b.ty.k = "LIST" THEN PushList(b, ColumnLen(b.child[1]) + Len(v.x), v.x) ELSE PushScalar(b, v)
PushFitting(b, coerced) == IF coerced = None THEN [b |-> b, err |-> "DoesNotFit"] ELSE push_coerced(b, coerced[1])
push(b, v) == IF is_null(v) THEN [b |-> push_null(b), err |-> ""] ELSE PushFitting(b, coerce(v, b.ty))
\* from_values: one push per value, up to the first error.
from_values(ty, vs) ==
    FoldLeft(LAMBDA r, v : IF r.err # "" THEN r ELSE push(r.b, v), [b |-> EmptyColumn(ty), err |-> ""], vs)
=============================================================================
