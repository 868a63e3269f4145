----------------------------- MODULE TableSpec -----------------------------
(***************************************************************************)
(* storage/manifest: what a table is declared as (spec.rs), what the        *)
(* manifest records of it (TableEntry of mod.rs), and the plan of an ALTER  *)
(* (alter.rs).  A TableSpec names columns, a TableEntry names field ids: a  *)
(* rename changes the first and never the second.                           *)
(*                                                                          *)
(* A name is a sequence of characters, one unit each.  An option that is    *)
(* absent is the empty sequence, a duration is a number of nanoseconds.     *)
(***************************************************************************)
EXTENDS SegmentFile

DotChar == 46
SlashChar == 47
BackslashChar == 92
is_path_component(s) ==
    s \notin {<<>>, <<DotChar>>, <<DotChar, DotChar>>} /\ ToSet(s) \cap {SlashChar, BackslashChar, 0} = {}
TableName(db, name) == [db |-> db, name |-> name]

\* ENGINES: whether an engine takes a KEY and a VERSION.
Engines == [append |-> [keyed |-> FALSE, version |-> FALSE], latest |-> [keyed |-> TRUE, version |-> TRUE],
            rollup |-> [keyed |-> TRUE, version |-> FALSE], vector |-> [keyed |-> FALSE, version |-> FALSE],
            ledger |-> [keyed |-> TRUE, version |-> FALSE]]
------------------------------------------------------------------------------
(* TableSpec.                                                                *)
TableSpecNew(name, columns) ==
    [name |-> name, columns |-> columns, engine |-> "append", key |-> <<>>, version |-> None, order_by |-> <<>>,
     partition_by |-> None, ttl |-> None, options |-> {}]
\* The column of PARTITION BY or TTL, and its duration.
Timed(col, ns) == [column |-> col, ns |-> ns]
resolved_order_by(spec) ==
    IF spec.order_by = <<>> /\ spec.engine \in DOMAIN Engines /\ Engines[spec.engine].keyed THEN spec.key ELSE spec.order_by
Twice(cols) == \E i, j \in DOMAIN cols : i < j /\ cols[i] = cols[j]
ColumnNames(spec) == [i \in DOMAIN spec.columns |-> spec.columns[i].name]
TimedColumns(spec) == [i \in DOMAIN (spec.partition_by \o spec.ttl) |-> (spec.partition_by \o spec.ttl)[i].column]
\* check_timestamp_column, and a duration of zero
TimedValid(spec, timed) ==
    \A t \in ToSet(timed) : t.ns # 0 /\ \A i \in DOMAIN spec.columns :
        spec.columns[i].name = t.column => spec.columns[i].ty.k = "TIMESTAMP"
KeyLeads(spec) == IsPrefix(spec.key, resolved_order_by(spec))
\* The error of the first rule that fails, "" when none does.
validate(spec) ==
    LET names == ToSet(ColumnNames(spec)) IN
    CASE ~is_path_component(spec.name.db) \/ ~is_path_component(spec.name.name) -> "Usage"
      [] Twice(ColumnNames(spec)) -> "Usage"
      [] spec.engine \notin DOMAIN Engines -> "UnknownEngine"
      [] ~ToSet(spec.key \o spec.version \o spec.order_by \o TimedColumns(spec)) \subseteq names -> "Usage"
      [] Twice(spec.key) \/ Twice(spec.order_by) -> "Usage"
      [] spec.key # <<>> /\ ~Engines[spec.engine].keyed -> "KeyNotAllowed"
      [] spec.key = <<>> /\ Engines[spec.engine].keyed -> "KeyRequired"
      [] spec.version # None /\ ~Engines[spec.engine].version -> "Usage"
      [] ~KeyLeads(spec) -> "KeyNotSortPrefix"
      [] ~TimedValid(spec, spec.partition_by) \/ ~TimedValid(spec, spec.ttl) -> "Usage"
      [] OTHER -> ""
------------------------------------------------------------------------------
(* TableEntry.                                                               *)
SchemaColumn(id, field) == [id |-> id, field |-> field]
FieldNamed(schema, name) == {i \in DOMAIN schema : schema[i].field.name = name}
FieldIdOf(schema, name) == schema[Min(FieldNamed(schema, name))].id
\* The name of a field id, empty when the schema has no such field.
NameOf(schema, id) ==
    LET mine == {i \in DOMAIN schema : schema[i].id = id} IN
    IF mine = {} THEN <<>> ELSE schema[Min(mine)].field.name
TimedIds(schema, timed) == [i \in DOMAIN timed |-> Timed(FieldIdOf(schema, timed[i].column), timed[i].ns)]
TimedNames(schema, timed) == [i \in DOMAIN timed |-> Timed(NameOf(schema, timed[i].column), timed[i].ns)]
\* The entry CreateTable adds for a spec that validates.
NewEntry(spec, id) ==
    LET schema == [i \in DOMAIN spec.columns |-> SchemaColumn(i, spec.columns[i])]
        ids(names) == [i \in DOMAIN names |-> FieldIdOf(schema, names[i])]
    IN [id |-> id, name |-> spec.name, engine |-> spec.engine, schema |-> schema,
        next_field_id |-> Len(schema) + 1, key |-> ids(spec.key), version |-> ids(spec.version),
        order_by |-> ids(resolved_order_by(spec)), partition_by |-> TimedIds(schema, spec.partition_by),
        ttl |-> TimedIds(schema, spec.ttl), options |-> spec.options, segments |-> <<>>, tombstones |-> <<>>]
EntryNames(t, ids) == [i \in DOMAIN ids |-> NameOf(t.schema, ids[i])]
\* TableEntry::spec: an ORDER BY that only repeats the KEY is left out.
EntrySpec(t) ==
    [TableSpecNew(t.name, [i \in DOMAIN t.schema |-> t.schema[i].field]) EXCEPT
        !.engine = t.engine, !.key = EntryNames(t, t.key), !.version = EntryNames(t, t.version),
        !.order_by = IF t.order_by # t.key THEN EntryNames(t, t.order_by) ELSE <<>>,
        !.partition_by = TimedNames(t.schema, t.partition_by), !.ttl = TimedNames(t.schema, t.ttl),
        !.options = t.options]
\* The field ids of the columns of a segment's file, 0 for a column that was dropped.
file_ids(s) == IF s.file_field_ids = <<>> THEN s.field_ids ELSE s.file_field_ids
\* A segment as a table with another schema sees it: a column it does not have is all NULL.
ProjectOnto(s, schema) ==
    LET ids == [i \in DOMAIN schema |-> schema[i].id]
        at(id) == {j \in DOMAIN s.field_ids : s.field_ids[j] = id}
        absent == [rows |-> s.rows, nulls |-> s.rows, min |-> None, max |-> None]
        file == [i \in DOMAIN file_ids(s) |-> IF file_ids(s)[i] \in ToSet(s.field_ids) THEN file_ids(s)[i] ELSE 0]
    IN [s EXCEPT !.columns = [i \in DOMAIN schema |-> IF at(ids[i]) = {} THEN absent ELSE s.columns[Min(at(ids[i]))]],
                 !.field_ids = ids, !.file_field_ids = IF file = ids THEN <<>> ELSE file]
EntryDir(t) == t.name.db \o <<SlashChar, 100 + t.id>>
------------------------------------------------------------------------------
(* ALTER.  A clause is [op, column, to, ty, cols]; a plan in progress is     *)
(* [schema, next, order_by], with the names of the ORDER BY columns as they  *)
(* are after the clauses so far.                                             *)
NewFieldId_len(p) == Len(p.schema) + 1
NewFieldId(p) == p.next
AddColumn(p, c) ==
    IF FieldNamed(p.schema, c.column) # {} THEN Bad("Usage")
    ELSE Good([p EXCEPT !.schema = Append(@, SchemaColumn(NewFieldId(p), Field(c.column, c.ty))), !.next = @ + 1])
DropColumn(source, p, c) ==
    LET at == Min(FieldNamed(p.schema, c.column))
        id == p.schema[at].id
        original == IF NameOf(source.schema, id) = <<>> THEN c.column ELSE NameOf(source.schema, id)
        names(t) == \E i \in DOMAIN t.predicates : t.predicates[i].column = original
    IN CASE FieldNamed(p.schema, c.column) = {} -> Bad("Usage")
         [] id \in ToSet(source.key \o source.version) -> Bad("FixedColumn")
         [] c.column \in ToSet(p.order_by) -> Bad("Usage")
         [] \E t \in ToSet(source.partition_by \o source.ttl) : t.column = id -> Bad("Usage")
         [] \E i \in DOMAIN source.tombstones : names(source.tombstones[i]) -> Bad("ColumnInTombstone")
         [] OTHER -> Good([p EXCEPT !.schema = RemoveAt(@, at)])
RenameColumn(p, c) ==
    LET at == Min(FieldNamed(p.schema, c.column)) IN
    IF FieldNamed(p.schema, c.column) = {} \/ FieldNamed(p.schema, c.to) # {} THEN Bad("Usage")
    ELSE Good([p EXCEPT !.schema[at].field.name = c.to, !.order_by = ReplaceAll(@, c.column, c.to)])
OrderByColumns(p, c) ==
    IF \E n \in ToSet(c.cols) : FieldNamed(p.schema, n) = {} THEN Bad("Usage") ELSE Good([p EXCEPT !.order_by = c.cols])
AlterClause(source, r, c) ==
    CASE ~IsGood(r) -> r
      [] c.op = "add" -> AddColumn(r.v, c)
      [] c.op = "drop" -> DropColumn(source, r.v, c)
      [] c.op = "rename" -> RenameColumn(r.v, c)
      [] c.op = "order_by" -> OrderByColumns(r.v, c)
      [] c.op = "partition_by" -> Bad("MigrationNotBuilt")
      [] c.op = "set_type" -> IF FieldNamed(r.v.schema, c.column) = {} THEN Bad("Usage") ELSE Bad("MigrationNotBuilt")
\* The target's ids: the table id is reserved by the commit that records the job.
\* resolved_order_by falls back to the KEY under its names in the new schema.
PlanStart(source) == [schema |-> source.schema, next |-> source.next_field_id, order_by |-> EntrySpec(source).order_by]
PlanOrder(source, p) == resolved_order_by([EntrySpec([source EXCEPT !.schema = p.schema]) EXCEPT !.order_by = p.order_by])
PlanTarget(source, p, names) ==
    [source EXCEPT !.id = 0, !.schema = p.schema, !.next_field_id = p.next, !.segments = <<>>, !.tombstones = <<>>,
                   !.order_by = [i \in DOMAIN names |-> FieldIdOf(p.schema, names[i])]]
Unless(err, target) == IF err # "" THEN Bad(err) ELSE Good(target)
PlanChecked(target) == Unless(validate(EntrySpec(target)), target)
PlanOf(source, r) == IF IsGood(r) THEN PlanChecked(PlanTarget(source, r.v, PlanOrder(source, r.v))) ELSE r
plan_alter(source, clauses) ==
    IF clauses = <<>> THEN Bad("Usage")
    ELSE PlanOf(source, FoldLeft(LAMBDA acc, c : AlterClause(source, acc, c), Good(PlanStart(source)), clauses))
rewrites_segments(source, target) == source.order_by # target.order_by \/ source.partition_by # target.partition_by
=============================================================================
