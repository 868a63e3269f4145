---------------------------- MODULE SegmentJobs ----------------------------
(***************************************************************************)
(* Checks of the segment file: any sequence of batches is written and read  *)
(* back, a written file is damaged in one place, and an .idx file is opened *)
(* against the segment it was built for and against another one.            *)
(***************************************************************************)
EXTENDS SegmentFile, Jobs

CONSTANTS MaxBatches   \* batches pushed into one writer

Str(x) == Seqv("STRING", x)
IntV(n) == Val("INT64", n)
Batch(fields, rows) ==
    [fields |-> fields,
     columns |-> [i \in DOMAIN fields |-> from_values(fields[i].ty, [r \in DOMAIN rows |-> rows[r][i]]).b]]
Schemas == {<<Field(1, Ty("STRING")), Field(2, Ty("INT64"))>>,
            <<Field(1, Ty("BYTES")), Field(2, DecimalType(2, 1)[1])>>,
            <<Field(1, ListType(Ty("INT64"))[1]), Field(2, Ty("BOOL"))>>}
Texts == {Null, Str(<<1, 9, 2>>), Str(<<2, 9, 9>>), Str(<<2, 2>>)}
RowsOfField(ty) ==
    CASE ty.k = "STRING" -> Texts
      [] ty.k = "BYTES" -> {Null, Seqv("BYTES", <<1, 2, 3>>), Seqv("BYTES", <<1>>)}
      [] ty.k = "DECIMAL" -> {Null, Decimal(15, 1)[1], Decimal(-2, 1)[1]}
      [] ty.k = "LIST" -> {Null, Seqv("LIST", <<>>), Seqv("LIST", <<IntV(3), Null>>)}
      [] ty.k = "BOOL" -> {Val("BOOL", 1)}
      [] OTHER -> {Null, IntV(3)}
Uniform(b) == \A i, j \in DOMAIN b.columns : ColumnLen(b.columns[i]) = ColumnLen(b.columns[j])
Mixed(fields) ==
    LET first == RowsOfField(fields[1].ty)
        b == SetToSeq(RowsOfField(fields[2].ty))
    IN CHOOSE m \in {Batch(fields, <<<<x, b[1]>>, <<y, b[Len(b)]>>, <<z, b[1]>>>>) :
                        x \in first, y \in first \ {Null}, z \in first \ {Null}} :
          Uniform(m) /\ Cardinality(ToSet(Rows(m.columns[1]))) = Min({3, Cardinality(first)})
\* Batches of no row, of one row and of three rows that differ; only the last for a
\* file that will be damaged.
Batches(fields, faulty) ==
    {Mixed(fields)} \cup
    IF faulty THEN {}
    ELSE {Batch(fields, <<>>)} \cup
         {Batch(fields, <<<<a, b>>>>) : a \in RowsOfField(fields[1].ty), b \in RowsOfField(fields[2].ty)}
Opts(n, pins, indexes) == [row_group_rows |-> n, pins |-> pins, indexes |-> indexes]
Options ==
    {Opts(2, <<>>, <<<<1, 1>>, <<2, 2>>>>), Opts(2, <<<<1, 0>>>>, <<<<2, 2>>>>), Opts(MaxDecodeRows, <<>>, <<<<1, 3>>>>),
     Opts(0, <<>>, <<>>), Opts(2, <<<<1, 6>>>>, <<>>), Opts(2, <<<<9, 0>>>>, <<>>), Opts(2, <<>>, <<<<9, 1>>>>)}
SegmentInit ==
    /\ pc = "start" /\ out = <<>>
    /\ \E fields \in Schemas : \E opts \in Options : \E faulty \in BOOLEAN :
         job = [kind |-> "segment", fields |-> fields, opts |-> opts, faulty |-> faulty, pushed |-> <<>>,
                writer |-> <<>>, idx |-> None]
SegNew ==
    /\ Is("segment", "start")
    /\ out' = WriterNew(job.fields, job.opts)
    /\ pc' = IF IsGood(out') THEN "writing" ELSE "refused"
    /\ UNCHANGED job
SegPush ==
    /\ Is("segment", "writing")
    /\ \E b \in IF job.idx = None THEN Batches(job.fields, job.faulty) ELSE {Last(job.pushed)} :
         /\ Len(job.pushed) < IF job.idx = None THEN MaxBatches ELSE job.idx[1].pushed + 1
         /\ out' = WriterPush(out.v, b)
         /\ pc' = IF IsGood(out') THEN "writing" ELSE "refused"
         /\ job' = [job EXCEPT !.pushed = Append(@, b)]
SegFinish ==
    /\ Is("segment", "writing")
    /\ out' = finish(out.v)
    /\ pc' = IF IsGood(out') THEN "written" ELSE "refused"
    /\ job' = [job EXCEPT !.writer = out.v]
\* One unit is changed or lost, the file is cut short, or its trailer is damaged.
SegDamage ==
    /\ Is("segment", "written") /\ job.faulty
    /\ \E f \in LET g == out.v.file IN
           {[g EXCEPT !.units[i] = @ + 1] : i \in DOMAIN g.units}
             \cup {[g EXCEPT !.units = SubSeq(@, 1, i)] : i \in {0, Len(g.units) - 1}}
             \cup {[g EXCEPT !.flen = @ - 1], [g EXCEPT !.flen = @ + 1], [g EXCEPT !.fcrc = @ + 1],
                   [g EXCEPT !.version = @ + 1], [g EXCEPT !.head.version = @ + 1],
                   [g EXCEPT !.magic = "idx"], [g EXCEPT !.head.magic = "idx"]} :
         out' = [out EXCEPT !.v.file = f]
    /\ pc' = "damaged"
    /\ UNCHANGED job
\* Every column and every index, from the .idx file when there is one.
IndexFile(r) == IF job.idx = None THEN r.file ELSE job.idx[1].file
ReadWith(r, entries) ==
    [r |-> r, entries |-> entries,
     cols |-> [c \in DOMAIN r.v.fields |-> [g \in DOMAIN r.v.groups |-> read_column(r.v, g, c)]],
     ixs |-> [k \in DOMAIN entries.v |-> load_entry(IndexFile(r.v), entries.v[k], r.v.fields)]]
ReadBack(r) ==
    IF IsGood(r) THEN ReadWith(r, IF job.idx = None THEN Good(r.v.indexes) ELSE idx_open(job.idx[1].file, r.v))
    ELSE [r |-> r]
SegOpen ==
    /\ job.kind = "segment" /\ pc \in {"written", "damaged"}
    /\ out' = [columns |-> out.v.columns] @@ ReadBack(open(out.v.file))
    /\ pc' = IF pc = "written" THEN "read" ELSE "reread"
    /\ UNCHANGED job
\* An .idx file for this segment; then its writer goes on to the file of another segment
\* or, when nothing more is pushed, to this one again.
SegIdx ==
    /\ Is("segment", "read") /\ ~job.faulty /\ job.idx = None /\ job.pushed # <<>>
    /\ job' = [job EXCEPT !.idx = Some([file |-> idx_build(out.r.v, job.opts.indexes).v, pushed |-> Len(job.pushed)])]
    /\ out' = Good(job.writer)
    /\ pc' = "writing"
SegmentNext == SegNew \/ SegPush \/ SegFinish \/ SegDamage \/ SegOpen \/ SegIdx
------------------------------------------------------------------------------
Pushed(c) == FlattenSeq([b \in DOMAIN job.pushed |-> Rows(job.pushed[b].columns[c])])
Joined(cols) == FlattenSeq([g \in DOMAIN cols |-> Rows(cols[g].v)])
\* The rows of the g-th row group.
GroupRows(all, groups, g) ==
    LET start == FoldLeft(LAMBDA n, k : n + groups[k].rows, 0, [k \in 1 .. g - 1 |-> k]) IN
    SubSeq(all, start + 1, start + groups[g].rows)

(* Writer::push, flush and finish with Reader::open and read_column: however the rows    *)
(* are cut into batches and row groups, whatever the encodings and indexes, a file that  *)
(* finishes opens again with the same schema and gives back every row once, in order.    *)
SegmentRoundTrip ==
    Is("segment", "read") =>
        /\ IsGood(out.r) /\ out.r.v.fields = job.fields
        /\ \A c \in DOMAIN job.fields :
             /\ \A g \in DOMAIN out.cols[c] : IsGood(out.cols[c][g]) /\ ColumnLen(out.cols[c][g].v) = out.r.v.groups[g].rows
             /\ Joined(out.cols[c]) = Pushed(c)
(* Column::stats, bound_stats and StatsAcc::merge: the zone map of every row group and   *)
(* the statistics of the segment count the nulls exactly and bound every row they cover, *)
(* also after a long minimum is cut and a long maximum dropped.                          *)
Bounds(st, rows) ==
    LET live == {i \in DOMAIN rows : ~is_null(rows[i])} IN
    /\ st.nulls = Len(rows) - Cardinality(live)
    /\ \A i \in live : /\ st.min # None => ~Less(rows[i], st.min[1])
                       /\ st.max # None => ~Less(st.max[1], rows[i])
StatsCover ==
    Is("segment", "read") =>
        \A c \in DOMAIN job.fields :
          /\ Bounds(out.columns[c], Pushed(c)) /\ out.columns[c].rows = Len(Pushed(c))
          /\ \A g \in DOMAIN out.r.v.groups :
               Bounds(out.r.v.groups[g].chunks[c], GroupRows(Pushed(c), out.r.v.groups, g))
(* The checksums and range checks of open, read_column and load_entry: a file changed in *)
(* one place or cut short is refused, or the part asked for is reported corrupt; what is *)
(* still read is what was written.                                                       *)
DamageDetected ==
    Is("segment", "reread") /\ IsGood(out.r) =>
        \A c \in DOMAIN job.fields : \A g \in DOMAIN out.r.v.groups :
            IsGood(out.cols[c][g]) => Rows(out.cols[c][g].v) = GroupRows(Pushed(c), out.r.v.groups, g)
(* SkipIndex::might_contain and might_contain_substring over the indexes a reader loads, *)
(* from the segment or from its .idx file: no row of the row group is ever ruled out.    *)
KeepsRow(ix, v) ==
    /\ might_contain(ix, v)
    /\ v.k = "STRING" => \A a, b \in 1 .. Len(v.x) : might_contain_substring(ix, SubSeq(v.x, a, b))
IndexesKeepRows ==
    Is("segment", "read") =>
        \A k \in DOMAIN out.ixs : LET e == out.entries.v[k] IN
            IsGood(out.ixs[k]) /\ \A v \in ToSet(Rows(out.cols[e.columns[1] + 1][e.row_group[1] + 1].v)) : KeepsRow(out.ixs[k].v, v)
(* IdxWriter::build and IdxReader::open: an .idx file opens with the segment it was      *)
(* built for, and is refused with a segment that has other contents.                     *)
IdxBelongs ==
    Is("segment", "read") /\ job.idx # None =>
        out.entries.err = IF Len(job.pushed) > job.idx[1].pushed /\ BatchRows(Last(job.pushed)) > 0 THEN "IdxMismatch" ELSE ""
(* Segment files as a whole (storage/segment): what was flushed reads back, its bounds    *)
(* and indexes never exclude a stored row, and damage or a foreign index is detected.    *)
SegmentsExact == SegmentRoundTrip /\ StatsCover /\ DamageDetected /\ IndexesKeepRows /\ IdxBelongs
=============================================================================
