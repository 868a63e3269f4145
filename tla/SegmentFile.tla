---------------------------- MODULE SegmentFile ----------------------------
(***************************************************************************)
(* storage/segment: the file a flush writes.  A Writer collects batches     *)
(* into row groups, writes one chunk per column and the skip indexes asked  *)
(* for, and ends the file with a footer and a trailer; a Reader checks all  *)
(* of it before it gives a column back.  An .idx file holds indexes rebuilt *)
(* for an existing segment and is bound to its footer checksum.             *)
(*                                                                          *)
(* A file is a record: its header (magic, version and, in an .idx file, the *)
(* bound checksum), the units between header and trailer, and the trailer   *)
(* (footer length and checksum, magic, version).  An offset counts units    *)
(* from the start of the file, so the first unit is at HeaderLen.  A result *)
(* is [err, v], err = "" for success.                                       *)
(***************************************************************************)
EXTENDS SkipIndexes

CONSTANTS
    HeaderLen,      \* HEADER_LEN
    StatsMaxBytes,  \* STATS_MAX_BYTES
    FormatVersion   \* FORMAT_VERSION

ASSUME SegmentFileAssumption ==
    HeaderLen \in Nat /\ StatsMaxBytes \in Nat /\ FormatVersion \in Nat

Good(v) == [err |-> "", v |-> v]
Bad(e) == [err |-> e, v |-> <<>>]
IsGood(r) == r.err = ""
\* A checksum that any change of a single unit changes.
crc32c(b) ==
    LET upto[i \in 0 .. Len(b)] == IF i = 0 THEN Len(b) ELSE (upto[i - 1] * 31 + b[i] + 7) % 65521
    IN upto[Len(b)]
Field(name, ty) == [name |-> name, ty |-> ty]
------------------------------------------------------------------------------
(* The footer: three length-prefixed records, each a count and then one      *)
(* length-prefixed record per entry.  A reader takes what it knows from a    *)
(* record and skips the rest of it.                                          *)
TypeIds == [BOOL |-> 1, INT64 |-> 2, UINT64 |-> 3, FLOAT64 |-> 4, DECIMAL |-> 5, STRING |-> 6,
            BYTES |-> 7, TIMESTAMP |-> 8, DATE |-> 9, UUID |-> 10, IP |-> 11, LIST |-> 12]
encode_scalar_type(ty) ==
    <<TypeIds[ty.k]>> \o bytes(IF ty.k = "DECIMAL" THEN <<ty.p, ty.s>> ELSE <<>>)
encode_type(ty) ==
    IF ty.k = "LIST" THEN <<TypeIds["LIST"]>> \o bytes(encode_scalar_type(ty.e[1]))
    ELSE encode_scalar_type(ty)
\* A record is read field by field: acc has the values read so far and the units left.
PutField(acc, f) == IF f.ok THEN Ok(Append(acc.v, f.v), f.rest) ELSE Fail
Then(acc, R(_)) == IF acc.ok THEN PutField(acc, R(acc.rest)) ELSE Fail
\* The fields of kinds: "n" is a number (uvarint, u8, u32 or u64), "r" a string or a record.
ThenFields(acc, kinds) ==
    FoldLeft(LAMBDA a, k : Then(a, LAMBDA rest : IF k = "n" THEN ReadUnit(rest) ELSE ReadBytes(rest)), acc, kinds)
ReadFields(rest, kinds) == ThenFields(Ok(<<>>, rest), kinds)
\* The record at the head of rest, and r, read inside it: what r leaves of it is skipped.
Inner(rest) == ReadBytes(rest).v
Outside(rest, r) == IF ~ReadBytes(rest).ok THEN Fail ELSE IF r.ok THEN Ok(r.v, ReadBytes(rest).rest) ELSE Fail
\* A count and that many items, each at least min units long.
ItemsOf(head, n, min, R(_)) ==
    LET upto[i \in 0 .. n] == IF i = 0 THEN Ok(<<>>, head.rest) ELSE Then(upto[i - 1], R)
    IN IF guard_len(head.rest, n, min) THEN upto[n] ELSE Fail
CountedOf(head, min, R(_)) == IF head.ok THEN ItemsOf(head, head.v, min, R) ELSE Fail
ReadCounted(rest, min, R(_)) == CountedOf(ReadUnit(rest), min, R)
Counted(parts) == <<Len(parts)>> \o FlattenSeq(parts)
encode_list(items) == bytes(<<Len(items)>> \o FlattenSeq([i \in DOMAIN items |-> bytes(items[i])]))
\* A count and that many records; each is read by R.
decode_list(rest, R(_)) == ReadCounted(rest, 1, LAMBDA r : Outside(r, R(Inner(r))))

\* f is the type's id and its parameters.
ScalarTypeOf(f) ==
    LET decimal == DecimalType(f[2][1], f[2][2]) IN
    CASE f[1] = TypeIds["DECIMAL"] -> IF Len(f[2]) < 2 THEN None ELSE decimal
      [] f[1] = TypeIds["LIST"] -> None
      [] OTHER -> LET kinds == {k \in DOMAIN TypeIds : TypeIds[k] = f[1]} IN
                  IF kinds = {} THEN None ELSE Some(Ty(CHOOSE k \in kinds : TRUE))
AsType(r, ty) == IF ~r.ok THEN Fail ELSE IF ty = None THEN Fail ELSE Ok(ty[1], r.rest)
ScalarTypeIn(r) == AsType(r, ScalarTypeOf(r.v))
decode_scalar_type(rest) == ScalarTypeIn(ReadFields(rest, <<"n", "r">>))
ListOf(elem) == IF elem.ok THEN ListType(elem.v) ELSE None
TypeIn(r) == AsType(r, IF r.v[1] = TypeIds["LIST"] THEN ListOf(decode_scalar_type(r.v[2])) ELSE ScalarTypeOf(r.v))
decode_type(rest) == TypeIn(ReadFields(rest, <<"n", "r">>))

encode_schema(fields) ==
    encode_list([i \in DOMAIN fields |-> bytes(<<fields[i].name>>) \o encode_type(fields[i].ty)])
FieldIn(r) == As(r, Field(r.v[1][1], r.v[2]))
decode_field(body) == FieldIn(Then(ReadFields(body, <<"r">>), decode_type))
encode_chunk_meta(ch, ty) ==
    <<ch.offset, ch.len, ch.crc, ch.enc, ch.nulls>> \o encode_opt(ch.min, ty) \o encode_opt(ch.max, ty)
\* The two bounds of statistics.
ThenBounds(acc, ty) ==
    FoldLeft(LAMBDA a, bound : Then(a, LAMBDA rest : decode_opt(rest, ty)), acc, <<"min", "max">>)
ChunkIn(r, rows) ==
    Check(As(r, [offset |-> r.v[1], len |-> r.v[2], crc |-> r.v[3], enc |-> r.v[4], nulls |-> r.v[5],
                 min |-> r.v[6], max |-> r.v[7]]), r.v[5] <= rows)
decode_chunk_meta(rest, ty, rows) ==
    Outside(rest, ChunkIn(ThenBounds(ReadFields(Inner(rest), <<"n", "n", "n", "n", "n">>), ty), rows))
encode_row_groups(groups, fields) ==
    encode_list([g \in DOMAIN groups |-> <<groups[g].rows>> \o
        FlattenSeq([i \in DOMAIN fields |-> bytes(encode_chunk_meta(groups[g].chunks[i], fields[i].ty))])])
ChunksIn(rows, fields) ==
    FoldLeft(LAMBDA acc, f : Then(acc, LAMBDA rest : decode_chunk_meta(rest, f.ty, rows.v)), Ok(<<>>, rows.rest), fields)
RowGroupIn(rows, fields) ==
    LET group(chunks) == As(chunks, [rows |-> rows.v, chunks |-> chunks.v]) IN
    IF rows.ok THEN group(ChunksIn(rows, fields)) ELSE Fail
decode_row_group(body, fields) == RowGroupIn(ReadUnit(body), fields)
\* row_group is an option, written as its number + 1 (0 is none).
encode_directory(entries) ==
    encode_list([i \in DOMAIN entries |-> LET e == entries[i] IN
        <<e.kind, IF e.row_group = None THEN 0 ELSE e.row_group[1] + 1, Len(e.columns)>> \o e.columns
          \o <<e.offset, e.len, e.crc>> \o bytes(<<>>)])
EntryIn(r) ==
    As(r, [kind |-> r.v[1], row_group |-> IF r.v[2] = 0 THEN None ELSE Some(r.v[2] - 1),
           columns |-> r.v[3], offset |-> r.v[4], len |-> r.v[5], crc |-> r.v[6]])
decode_entry(body) ==
    LET columns(rest) == ReadCounted(rest, 1, ReadUnit) IN
    EntryIn(ThenFields(Then(ReadFields(body, <<"n", "n">>), columns), <<"n", "n", "n", "r">>))
encode_footer(f) ==
    encode_schema(f.fields) \o encode_row_groups(f.groups, f.fields) \o encode_directory(f.indexes)
FooterIn(acc) ==
    IF acc.ok THEN Some([fields |-> acc.v[1], groups |-> acc.v[2], indexes |-> acc.v[3]]) ELSE None
decode_directory(rest) == Outside(rest, decode_list(Inner(rest), decode_entry))
DecodedGroups(acc) ==
    Then(acc, LAMBDA rest : Outside(rest, decode_list(Inner(rest), LAMBDA b : decode_row_group(b, acc.v[1]))))
decode_footer(units) ==
    LET schema(rest) == Outside(rest, decode_list(Inner(rest), decode_field)) IN
    FooterIn(Then(DecodedGroups(Then(Ok(<<>>, units), schema)), decode_directory))

\* The statistics a footer keeps: a long minimum is cut (a shorter prefix is
\* smaller), a long maximum is dropped.  A string is cut between characters; a
\* byte from 8 on continues the character before it.
CharStart(s, i) == i > Len(s) \/ s[i] < 8
truncate_str(s, max) == SubSeq(s, 1, Max({0} \cup {n \in 1 .. Min({max, Len(s)}) : CharStart(s, n + 1)}))
is_oversized(v) == v.k \in VarWidth /\ Len(v.x) > StatsMaxBytes
bound_min(v) ==
    IF ~is_oversized(v) THEN v
    ELSE Seqv(v.k, IF v.k = "STRING" THEN truncate_str(v.x, StatsMaxBytes) ELSE SubSeq(v.x, 1, StatsMaxBytes))
bound_stats_cut(st) ==
    [min |-> IF st.min = None THEN None ELSE Some(bound_min(st.min[1])),
     max |-> IF st.max = None THEN None ELSE Some(bound_min(st.max[1]))]
bound_stats(st) ==
    [min |-> IF st.min = None THEN None ELSE Some(bound_min(st.min[1])),
     max |-> IF st.max = None THEN None ELSE IF is_oversized(st.max[1]) THEN None ELSE st.max]
------------------------------------------------------------------------------
(* Writer.                                                                   *)
StatsAcc == [rows |-> 0, nulls |-> 0, min |-> None, max |-> None, max_dropped |-> FALSE]
stats_merge(acc, st, min, max) ==
    LET counted == [acc EXCEPT !.rows = @ + st.rows, !.nulls = @ + st.nulls]
        low == IF min # None /\ (acc.min = None \/ Less(min[1], acc.min[1])) THEN min ELSE acc.min
        high == IF max # None /\ (acc.max = None \/ Less(acc.max[1], max[1])) THEN max ELSE acc.max
    IN IF st.rows <= st.nulls THEN counted
       ELSE IF acc.max_dropped THEN [counted EXCEPT !.min = low]
       ELSE [counted EXCEPT !.min = low, !.max = high, !.max_dropped = (max = None)]
stats_finish(acc) ==
    [rows |-> acc.rows, nulls |-> acc.nulls, min |-> acc.min,
     max |-> IF acc.max_dropped THEN None ELSE acc.max]

position(fields, name) == {i \in DOMAIN fields : fields[i].name = name}
\* pins is a sequence of <<name, encoding>>, the last one for a column wins.
resolve_pins(fields, pins) ==
    IF \E p \in ToSet(pins) : position(fields, p[1]) = {} THEN Bad("Usage")
    ELSE IF \E p \in ToSet(pins) : \E i \in position(fields, p[1]) : ~applies_to(p[2], fields[i].ty)
    THEN Bad("Usage")
    ELSE Good([i \in DOMAIN fields |->
            LET mine == SelectSeq(pins, LAMBDA p : p[1] = fields[i].name) IN
            IF mine = <<>> THEN None ELSE Some(Last(mine)[2])])
resolve_indexes(fields, indexes) ==
    IF \E r \in ToSet(indexes) : position(fields, r[1]) = {} THEN Bad("Usage")
    ELSE IF \E r \in ToSet(indexes) : \E i \in position(fields, r[1]) : ~index_applies_to(r[2], fields[i].ty)
    THEN Bad("Usage")
    ELSE Good([j \in DOMAIN indexes |-> <<CHOOSE i \in position(fields, indexes[j][1]) : TRUE, indexes[j][2]>>])

WriterNew(fields, opts) ==
    LET pins == resolve_pins(fields, opts.pins)
        reqs == resolve_indexes(fields, opts.indexes)
    IN IF opts.row_group_rows \notin 1 .. MaxDecodeRows THEN Bad("Usage")
       ELSE IF \E i, j \in DOMAIN fields : i # j /\ fields[i].name = fields[j].name THEN Bad("Usage")
       ELSE IF ~IsGood(pins) \/ ~IsGood(reqs) THEN Bad("Usage")
       ELSE Good([fields |-> fields, limit |-> opts.row_group_rows, pins |-> pins.v, reqs |-> reqs.v,
                  body |-> <<>>, pending |-> [i \in DOMAIN fields |-> <<>>], pending_rows |-> 0,
                  groups |-> <<>>, indexes |-> <<>>, stats |-> [i \in DOMAIN fields |-> StatsAcc]])
byte_size(c) ==
    LET own(d) == Len(d.off) + Len(d.data) + (IF d.validity = None THEN 0 ELSE Len(d.validity[1].words))
    IN own(c) + (IF c.child = None THEN 0 ELSE own(c.child[1]))
Pos(w) == HeaderLen + Len(w.body)
\* One chunk of the row group that is being flushed: g is the writer, the chunks and
\* the columns so far.
AppendChunk(g, i, c, enc, units, st, b) ==
    [w |-> [g.w EXCEPT !.pending[i] = <<>>, !.body = @ \o units, !.stats[i] = stats_merge(@, st, b.min, b.max)],
     chunks |-> Append(g.chunks, [offset |-> Pos(g.w), len |-> Len(units), crc |-> crc32c(units),
                                  enc |-> enc, nulls |-> st.nulls, min |-> b.min, max |-> b.max]),
     cols |-> Append(g.cols, c)]
ChunkEncoding(w, i, c) == IF w.pins[i] # None THEN w.pins[i][1] ELSE IF c.ty.k = "LIST" THEN 0 ELSE choose(c)
EncodeChunk(g, i, c, enc, st) == AppendChunk(g, i, c, enc, encode_with(c, enc), st, bound_stats(st))
FlushJoined(g, i, col) ==
    IF col = None THEN Bad("Usage")
    ELSE IF byte_size(col[1]) > MaxDecodeBytes THEN Bad("Usage")
    ELSE Good(EncodeChunk(g, i, col[1], ChunkEncoding(g.w, i, col[1]), stats(col[1])))
FlushColumn(r, i) == IF IsGood(r) THEN FlushJoined(r.v, i, concat(r.v.w.fields[i].ty, r.v.w.pending[i])) ELSE r
AddIndex(w, req, blob) ==
    IF blob = None THEN w
    ELSE [w EXCEPT !.body = @ \o blob[1],
                   !.indexes = Append(@, [kind |-> req[2], row_group |-> Some(Len(w.groups)),
                        columns |-> <<req[1] - 1>>, offset |-> Pos(w), len |-> Len(blob[1]),
                        crc |-> crc32c(blob[1])])]
WriteIndex(w, req, cols) == AddIndex(w, req, index_build(req[2], cols[req[1]]))
EndGroup(w, rows, chunks) == [w EXCEPT !.groups = Append(@, [rows |-> rows, chunks |-> chunks]), !.pending_rows = 0]
FlushIndexes(r, reqs, rows) ==
    IF IsGood(r)
    THEN Good(EndGroup(FoldLeft(LAMBDA x, req : WriteIndex(x, req, r.v.cols), r.v.w, reqs), rows, r.v.chunks)) ELSE r
flush(w) ==
    IF w.pending_rows = 0 THEN Good(w)
    ELSE FlushIndexes(FoldLeft(FlushColumn, Good([w |-> w, chunks |-> <<>>, cols |-> <<>>]), [i \in DOMAIN w.fields |-> i]),
                      w.reqs, w.pending_rows)
\* A batch is [fields, columns].
BatchRows(b) == ColumnLen(b.columns[1])
FlushFull(w) == IF w.pending_rows >= w.limit THEN flush(w) ELSE Good(w)
WriterPush(w, b) ==
    IF b.fields # w.fields THEN Bad("Usage")
    ELSE IF BatchRows(b) = 0 THEN Good(w)
    ELSE FlushFull([w EXCEPT !.pending = [i \in DOMAIN w.fields |-> Append(@[i], b.columns[i])],
                             !.pending_rows = @ + BatchRows(b)])
write_trailer(head, body, magic, footer) ==
    [head |-> head, units |-> body \o footer, flen |-> Len(footer), fcrc |-> crc32c(footer),
     magic |-> magic, version |-> FormatVersion]
Header(magic, bound) == [magic |-> magic, version |-> FormatVersion, bound |-> bound]
Finished(r) ==
    IF ~IsGood(r) THEN r
    ELSE Good([file |-> write_trailer(Header("seg", 0), r.v.body, "seg",
                            encode_footer([fields |-> r.v.fields, groups |-> r.v.groups, indexes |-> r.v.indexes])),
               columns |-> [i \in DOMAIN r.v.fields |-> stats_finish(r.v.stats[i])]])
finish(w) == Finished(flush(w))
------------------------------------------------------------------------------
(* Reader.                                                                   *)
read_trailer(f, magic) ==
    LET start == Len(f.units) - f.flen IN
    IF f.magic # magic THEN Bad("BadMagic")
    ELSE IF f.version > FormatVersion THEN Bad("UnsupportedVersion")
    ELSE IF start < 0 THEN Bad("Truncated")
    ELSE IF crc32c(SubSeq(f.units, start + 1, Len(f.units))) # f.fcrc THEN Bad("CorruptFooter")
    ELSE Good([start |-> HeaderLen + start, footer |-> SubSeq(f.units, start + 1, Len(f.units))])
check_header(f, magic) ==
    IF f.head.magic # magic THEN Bad("BadMagic")
    ELSE IF f.head.version > FormatVersion THEN Bad("UnsupportedVersion") ELSE Good(<<>>)
InBody(e, end) == e.offset >= HeaderLen /\ e.offset + e.len <= end
\* An entry of an unknown kind is dropped before anything else is asked of it.
resolve_entries(raw, fields, row_groups, end) ==
    LET known == SelectSeq(raw, LAMBDA e : e.kind \in 1 .. 3)
        bad(e) == \/ e.row_group # None /\ e.row_group[1] >= row_groups
                  \/ e.columns = <<>>
                  \/ \E c \in ToSet(e.columns) : c >= Len(fields)
                  \/ \E c \in ToSet(e.columns) : c < Len(fields) /\ ~index_applies_to(e.kind, fields[c + 1].ty)
                  \/ ~InBody(e, end)
    IN IF \E e \in ToSet(known) : bad(e) THEN Bad("Malformed") ELSE Good(known)
open_body(f, t, footer) ==
    LET ft == footer[1]
        opened(entries) == IF ~IsGood(entries) THEN entries
                           ELSE Good([file |-> f, fields |-> ft.fields, groups |-> ft.groups, indexes |-> entries.v,
                                      footer_crc |-> crc32c(t.footer)])
        each(P(_, _)) == \E g \in DOMAIN ft.groups : \E i \in DOMAIN ft.fields :
                            P(ft.groups[g].chunks[i], ft.fields[i].ty)
    IN IF footer = None THEN Bad("Malformed")
       ELSE IF \E g \in DOMAIN ft.groups : ft.groups[g].rows > MaxDecodeRows THEN Bad("Malformed")
       ELSE IF each(LAMBDA ch, ty : ch.enc \notin 0 .. 6) THEN Bad("UnknownEncoding")
       ELSE IF each(LAMBDA ch, ty : ~applies_to(ch.enc, ty)) THEN Bad("Malformed")
       ELSE IF each(LAMBDA ch, ty : ~InBody(ch, t.start)) THEN Bad("Malformed")
       ELSE opened(resolve_entries(ft.indexes, ft.fields, Len(ft.groups), t.start))
OpenFooter(f, t, head) ==
    IF ~IsGood(t) THEN t ELSE IF ~IsGood(head) THEN head ELSE open_body(f, t.v, decode_footer(t.v.footer))
open(f) == OpenFooter(f, read_trailer(f, "seg"), check_header(f, "seg"))
Slice(f, e) == SubSeq(f.units, e.offset - HeaderLen + 1, e.offset - HeaderLen + e.len)
OfLength(col, rows) ==
    IF col = None THEN Bad("Malformed") ELSE IF ColumnLen(col[1]) # rows THEN Bad("Malformed") ELSE Good(col[1])
ReadChunk(ty, ch, rows, units) ==
    IF crc32c(units) # ch.crc THEN Bad("CorruptChunk") ELSE OfLength(decode_column(ty, rows, ch.enc, units), rows)
read_column(r, g, c) ==
    IF g \notin DOMAIN r.groups \/ c \notin DOMAIN r.fields THEN Bad("Usage")
    ELSE ReadChunk(r.fields[c].ty, r.groups[g].chunks[c], r.groups[g].rows, Slice(r.file, r.groups[g].chunks[c]))
GroupOf(fields, cols) ==
    IF \E i \in DOMAIN cols : ~IsGood(cols[i]) THEN cols[Min({i \in DOMAIN cols : ~IsGood(cols[i])})]
    ELSE Good([fields |-> fields, columns |-> [i \in DOMAIN cols |-> cols[i].v]])
read_row_group(r, g, projection) ==
    GroupOf([i \in DOMAIN projection |-> r.fields[projection[i]]], [i \in DOMAIN projection |-> read_column(r, g, projection[i])])
LoadedIndex(ix) == IF ix = None THEN Bad("Malformed") ELSE Good(ix[1])
LoadBlob(e, ty, blob) == IF crc32c(blob) # e.crc THEN Bad("CorruptIndex") ELSE LoadedIndex(index_load(e.kind, ty, blob))
load_entry(f, e, fields) == LoadBlob(e, fields[e.columns[1] + 1].ty, Slice(f, e))
------------------------------------------------------------------------------
(* .idx files.                                                               *)
IdxEntry(acc, req, g, blob) ==
    IF blob = None THEN acc
    ELSE Good([body |-> acc.v.body \o blob[1], entries |-> Append(acc.v.entries,
            [kind |-> req[2], row_group |-> Some(g - 1), columns |-> <<req[1] - 1>>,
             offset |-> HeaderLen + Len(acc.v.body), len |-> Len(blob[1]), crc |-> crc32c(blob[1])])])
IdxColumn(acc, req, g, col) == IF IsGood(col) THEN IdxEntry(acc, req, g, index_build(req[2], col.v)) ELSE col
IdxAdd(r, acc, req, g) == IF IsGood(acc) THEN IdxColumn(acc, req, g, read_column(r, g, req[1])) ELSE acc
IdxFile(r, all) ==
    IF ~IsGood(all) THEN all
    ELSE Good(write_trailer(Header("idx", r.footer_crc), all.v.body, "idx", encode_directory(all.v.entries)))
idx_build(r, requests) ==
    IF \E q \in ToSet(requests) : q[1] \notin DOMAIN r.fields THEN Bad("Usage")
    ELSE IF \E q \in ToSet(requests) : ~index_applies_to(q[2], r.fields[q[1]].ty) THEN Bad("Usage")
    ELSE IdxFile(r, FoldLeft(LAMBDA acc, v : IdxAdd(r, acc, v[1], v[2]), Good([body |-> <<>>, entries |-> <<>>]),
                             FlattenSeq([q \in DOMAIN requests |-> [g \in DOMAIN r.groups |-> <<requests[q], g>>]])))
IdxOpened(f, r, t, head, dir) ==
    CASE ~IsGood(t) -> t
      [] IsGood(t) /\ ~IsGood(head) -> head
      [] IsGood(t) /\ IsGood(head) /\ f.head.bound # r.footer_crc -> Bad("IdxMismatch")
      [] OTHER -> IF dir.ok THEN resolve_entries(dir.v, r.fields, Len(r.groups), t.v.start) ELSE Bad("Malformed")
IdxDirectory(f, r, t) == IdxOpened(f, r, t, check_header(f, "idx"), decode_directory(t.v.footer))
idx_open(f, r) == IdxDirectory(f, r, read_trailer(f, "idx"))
=============================================================================
