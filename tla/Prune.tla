------------------------------- MODULE Prune -------------------------------
(***************************************************************************)
(* storage/prune.rs: what the zone map and the skip indexes of a row group  *)
(* prove false.  A range is [rows, nulls, min, max]; ranges and probes are  *)
(* functions of the column, with an Option as result: None is "unknown" and *)
(* proves nothing.                                                          *)
(***************************************************************************)
EXTENDS Expressions

column_of(e) == IF e.op = "column" THEN Some(e.c) ELSE None
\* column op literal, with the literal brought to the right; None for any other shape.
ColumnVsLiteral(op, l, r) ==
    CASE l.op = "column" /\ r.op = "literal" -> Some([c |-> l.c, v |-> r.v, op |-> op])
      [] l.op = "literal" /\ r.op = "column" -> Some([c |-> r.c, v |-> l.v, op |-> flip(op)])
      [] OTHER -> None
\* An absent bound and values that do not compare prove nothing.
CmpIn(bound, v, orders) ==
    bound # None /\ total_cmp(bound[1], v) # None /\ total_cmp(bound[1], v)[1] \in orders
\* Under SQL equality NaN differs from itself, so equal bounds prove nothing about it.
NaNLiteral_ordered(o, v) == FALSE
NaNLiteral(o, v) == o \in {"Eq", "Ne"} /\ v.k = "FLOAT64" /\ v.v = NaN
cmp_is_false(op, l, r, stats_of) ==
    LET shape == ColumnVsLiteral(op, l, r)
        v == shape[1].v
        o == shape[1].op
        range == stats_of[shape[1].c]
        at(bound, orders) == CmpIn(bound, v, orders)
    IN /\ shape # None
       /\ \/ is_null(v)
          \/ /\ range # None
             /\ \/ range[1].nulls = range[1].rows
                \/ /\ ~NaNLiteral(o, v)
                   /\ CASE o = "Eq" -> at(range[1].min, {1}) \/ at(range[1].max, {-1})
                        [] o = "Ne" -> at(range[1].min, {0}) /\ at(range[1].max, {0})
                        [] o = "Lt" -> at(range[1].min, {0, 1})
                        [] o = "Le" -> at(range[1].min, {1})
                        [] o = "Gt" -> at(range[1].max, {-1, 0})
                        [] o = "Ge" -> at(range[1].max, {-1})
between_is_false(e, stats_of) ==
    LET low == e.args[2]  high == e.args[3]
        range == stats_of[e.args[1].c]
    IN /\ e.args[1].op = "column" /\ low.op = "literal" /\ high.op = "literal"
       /\ ~is_null(low.v) /\ ~is_null(high.v) /\ range # None
       /\ CmpIn(range[1].min, high.v, {1}) \/ CmpIn(range[1].max, low.v, {-1})
\* NULL items never match; with an unknown bound no other item is ruled out.
in_list_is_false(e, stats_of) ==
    LET range == stats_of[e.args[1].c] IN
    /\ e.args[1].op = "column" /\ range # None
    /\ \A i \in DOMAIN e.list : ~is_null(e.list[i]) =>
         /\ range[1].min # None /\ range[1].max # None
         /\ CmpIn(range[1].min, e.list[i], {1}) \/ CmpIn(range[1].max, e.list[i], {-1})

RECURSIVE may_match(_, _)
conjunct_is_false(e, stats_of) ==
    CASE e.op = "cmp" -> cmp_is_false(e.name, e.args[1], e.args[2], stats_of)
      [] e.op = "between" /\ ~e.negated -> between_is_false(e, stats_of)
      [] e.op = "in" /\ ~e.negated -> in_list_is_false(e, stats_of)
      [] e.op \in {"is_null", "is_not_null"} /\ column_of(e.args[1]) # None ->
            LET range == stats_of[e.args[1].c] IN
            range # None /\ range[1].nulls = IF e.op = "is_null" THEN 0 ELSE range[1].rows
      [] e.op = "or" -> \A i \in DOMAIN e.args : ~may_match(e.args[i], stats_of)
      [] OTHER -> FALSE
may_match(pred, stats_of) ==
    LET parts == conjuncts(pred) IN \A i \in DOMAIN parts : ~conjunct_is_false(parts[i], stats_of)

RECURSIVE index_may_match(_, _)
\* An indexed probe is a set of columns with the index of each and None for the others.
ProbeIndex(ixs, c, v) == IF ixs[c] = None THEN None ELSE Some(might_contain(ixs[c][1], v))
index_eq_is_false(l, r, ixs) ==
    LET shape == ColumnVsLiteral("Eq", l, r) IN
    shape # None /\ ProbeIndex(ixs, shape[1].c, shape[1].v) = Some(FALSE)
index_conjunct_is_false(e, ixs) ==
    CASE e.op = "cmp" /\ e.name = "Eq" -> index_eq_is_false(e.args[1], e.args[2], ixs)
      [] e.op = "in" /\ ~e.negated ->
            /\ column_of(e.args[1]) # None
            /\ \A i \in DOMAIN e.list : is_null(e.list[i]) \/ ProbeIndex(ixs, e.args[1].c, e.list[i]) = Some(FALSE)
      [] e.op = "or" -> \A i \in DOMAIN e.args : ~index_may_match(e.args[i], ixs)
      [] OTHER -> FALSE
index_may_match(pred, ixs) ==
    LET parts == conjuncts(pred) IN \A i \in DOMAIN parts : ~index_conjunct_is_false(parts[i], ixs)
------------------------------------------------------------------------------
(* storage/read.rs and storage/scan.rs: reading one segment for a query.     *)
(* The schema is a sequence of [id, ty]; a segment entry is [ids, columns,   *)
(* rows, file]: the field ids of its file (0: a column no schema reads), the *)
(* statistics of those columns, and the file.  A tombstone is a sequence of  *)
(* [c, op, v].                                                               *)
SchemaField(id, ty) == [id |-> id, ty |-> ty]
PositionOf(ids, id) == LET at == {i \in DOMAIN ids : ids[i] = id /\ id # 0} IN IF at = {} THEN None ELSE Some(Min(at))
map_file_columns(schema, ids, file_fields) ==
    LET at == [i \in DOMAIN schema |-> PositionOf(ids, schema[i].id)] IN
    IF \E i \in DOMAIN schema : at[i] # None /\ file_fields[at[i][1]].ty # schema[i].ty THEN Bad("Usage") ELSE Good(at)
NullColumn(ty, rows) == from_values(ty, [i \in 1 .. rows |-> Null]).b
\* A field the file has takes the next decoded column, any other is all NULL.
realign(schema, file_index, projected, rows) ==
    [fields |-> schema, rows |-> rows,
     columns |-> [i \in DOMAIN schema |->
        IF file_index[i] = None THEN NullColumn(schema[i].ty, rows)
        ELSE projected.columns[Cardinality({j \in 1 .. i : file_index[j] # None})]]]
filter_batch(b, keep) ==
    LET kept == SelectSeq([i \in 1 .. b.rows |-> i], LAMBDA i : keep[i]) IN
    [b EXCEPT !.rows = Len(kept),
              !.columns = [c \in DOMAIN b.columns |->
                  from_values(b.columns[c].ty, [i \in DOMAIN kept |-> get(b.columns[c], kept[i])]).b]]
\* Deleted: true under the OR of the tombstones' ANDs; a NULL comparison deletes nothing.
MatchedRows(t, full) ==
    FoldLeft(LAMBDA acc, p : and_(acc, compare_scalar(full.columns[p.c], p.op, p.v).v), [i \in 1 .. full.rows |-> Some(TRUE)], t)
tombstone_keep_mask(tombs, full) ==
    [i \in 1 .. full.rows |-> \A t \in DOMAIN tombs : MatchedRows(tombs[t], full)[i] # Some(TRUE)]
\* A column the entry has no statistics for counts as all NULL.
project_onto(seg, schema) ==
    [i \in DOMAIN schema |->
        LET at == PositionOf(seg.ids, schema[i].id) IN
        IF at # None THEN seg.columns[at[1]]
        ELSE [rows |-> seg.rows, nulls |-> seg.rows, min |-> None, max |-> None]]
SegmentMayMatch(pred, seg, schema) ==
    may_match(pred, [i \in DOMAIN schema |-> Some(project_onto(seg, schema)[i])])
zone_stats(r, g, file_index) ==
    [c \in DOMAIN file_index |->
        IF file_index[c] = None THEN None
        ELSE LET ch == r.groups[g].chunks[file_index[c][1]] IN
             Some([rows |-> r.groups[g].rows, nulls |-> ch.nulls, min |-> ch.min, max |-> ch.max])]
\* The first BLOOM or VALUE_SET entry for the column that covers the row group.
file_col_entry(r, g, file_c) ==
    LET fits_(e) == e.kind \in {1, 2} /\ e.columns = <<file_c - 1>> /\ (e.row_group = None \/ e.row_group[1] = g - 1)
        at == {i \in DOMAIN r.indexes : fits_(r.indexes[i])}
    IN IF at = {} THEN None ELSE Some(r.indexes[Min(at)])
group_indexes(r, g, file_index) ==
    [c \in DOMAIN file_index |->
        LET e == IF file_index[c] = None THEN None ELSE file_col_entry(r, g, file_index[c][1]) IN
        IF e = None THEN None ELSE Some(load_entry(r.file, e[1], r.fields).v)]
GroupMayMatch(pred, r, g, file_index) ==
    /\ may_match(pred, zone_stats(r, g, file_index))
    /\ index_may_match(pred, group_indexes(r, g, file_index))
\* The batches of the row groups that are kept, each without its deleted rows.
\* The file column of the k-th schema field the file has.
ProjectionOf(at) ==
    [k \in 1 .. Cardinality({i \in DOMAIN at : at[i] # None}) |->
        at[CHOOSE i \in DOMAIN at : at[i] # None /\ Cardinality({j \in 1 .. i : at[j] # None}) = k][1]]
FullGroup(schema, at, r, g) == realign(schema, at, read_row_group(r, g, ProjectionOf(at)).v, r.groups[g].rows)
WithoutDeleted(full, tombs) == filter_batch(full, tombstone_keep_mask(tombs, full))
KeptGroups(pred, r, at) ==
    SelectSeq([g \in DOMAIN r.groups |-> g], LAMBDA g : pred = None \/ GroupMayMatch(pred[1], r, g, at))
ReadGroups(kept, schema, r, at, tombs) == [k \in DOMAIN kept |-> WithoutDeleted(FullGroup(schema, at, r, kept[k]), tombs)]
NotEmpty(batches) == SelectSeq(batches, LAMBDA b : b.rows > 0)
ScanOpened(seg, schema, pred, tombs, r, at) ==
    IF IsGood(at) THEN Good(NotEmpty(ReadGroups(KeptGroups(pred, r, at.v), schema, r, at.v, tombs))) ELSE at
ScanFile(seg, schema, pred, tombs, r) ==
    IF ~IsGood(r) THEN r
    ELSE IF Len(seg.ids) # Len(r.v.fields) THEN Bad("Usage")
    ELSE ScanOpened(seg, schema, pred, tombs, r.v, map_file_columns(schema, seg.ids, r.v.fields))
scan_segment(seg, schema, pred, tombs) == ScanFile(seg, schema, pred, tombs, open(seg.file))
=============================================================================
