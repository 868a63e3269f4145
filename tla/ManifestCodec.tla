---------------------------- MODULE ManifestCodec ----------------------------
(***************************************************************************)
(* storage/manifest/codec.rs and ids.rs: the manifest file.  Every part is  *)
(* a length-prefixed record, so a reader skips what a newer writer added at *)
(* its end and gives a default to what an older writer left out; ids.rs     *)
(* then gives ids and directories to the tables of a manifest from before   *)
(* they were recorded.                                                      *)
(*                                                                          *)
(* A reader is given the units that are left and returns Ok(value, rest) or *)
(* Fail; Corrupt and UnknownSideFile are both a failure.                    *)
(***************************************************************************)
EXTENDS TableSpec

ManifestEmpty ==
    [version |-> 0, next_segment_id |-> 0, next_table_id |-> 1, tables |-> <<>>, garbage |-> <<>>, next_job_id |-> 1,
     jobs |-> <<>>, retired |-> <<>>, migrations |-> <<>>]
------------------------------------------------------------------------------
\* A field that older writers did not have.
ThenOr(acc, default, R(_)) ==
    IF acc.ok THEN PutField(acc, IF acc.rest = <<>> THEN Ok(default, <<>>) ELSE R(acc.rest)) ELSE Fail
\* A field read under the i-th one.
ThenUnder(acc, i, R(_, _)) == IF acc.ok THEN PutField(acc, R(acc.rest, acc.v[i])) ELSE Fail
\* The parts of a directory between its slashes.
DirParts(d) ==
    LET cuts == {0, Len(d) + 1} \cup {i \in DOMAIN d : d[i] = SlashChar} IN
    {SubSeq(d, a + 1, Min({b \in cuts : b > a}) - 1) : a \in cuts \ {Len(d) + 1}}
check_dir(d) == \A part \in DirParts(d) : is_path_component(part)
\* encode_u64_list and encode_field_id_list
encode_ids(ids) == <<Len(ids)>> \o ids
decode_ids(rest) == ReadCounted(rest, 1, ReadUnit)
IdRecord(rest) == Outside(rest, decode_ids(Inner(rest)))
------------------------------------------------------------------------------
(* Table definitions.                                                        *)
AbsentDefinition ==
    [id |-> 0, next_field_id |-> 0, key |-> <<>>, version |-> None, order_by |-> <<>>, partition_by |-> None,
     ttl |-> None, options |-> {}]
\* as_nanos() as u64
encode_timed(t) == IF t = None THEN <<0>> ELSE <<1, t[1].column, t[1].ns % (UIntMax + 1)>>
\* options is a set of <<key, value>>, one for each key; a BTreeMap writes it in key order.
InOptionOrder(options) == SetToSortSeq(options, LAMBDA a, b : Less(Seqv("BYTES", a[1]), Seqv("BYTES", b[1])))
encode_options(options) == Counted([i \in DOMAIN options |-> bytes(options[i][1]) \o bytes(options[i][2])])
encode_definition(t) ==
    <<t.id, t.next_field_id>> \o encode_ids(t.key) \o (IF t.version = None THEN <<0>> ELSE <<1, t.version[1]>>)
      \o encode_ids(t.order_by) \o encode_timed(t.partition_by) \o encode_timed(t.ttl)
      \o encode_options(InOptionOrder(t.options))
\* The tag of an optional field and, after a 1, n numbers.
Tagged(tag, n) == IF ~tag.ok THEN Fail ELSE IF tag.v \notin {0, 1} THEN Fail ELSE take(tag.rest, tag.v * n)
decode_tagged(rest, n) == Tagged(ReadUnit(rest), n)
decode_timed(rest) == decode_tagged(rest, 2)
AsTimed(ns) == IF ns = <<>> THEN None ELSE Some(Timed(ns[1], ns[2]))
\* Of two options with one key the later one stays.
OptionsOf(list) == {list[i] : i \in {j \in DOMAIN list : \A k \in DOMAIN list : k > j => list[k][1] # list[j][1]}}
DefinitionIn(r) ==
    Check(As(r, [id |-> r.v[1], next_field_id |-> r.v[2], key |-> r.v[3], version |-> r.v[4], order_by |-> r.v[5],
                 partition_by |-> AsTimed(r.v[6]), ttl |-> AsTimed(r.v[7]), options |-> OptionsOf(r.v[8])]), r.v[1] # 0)
decode_version(rest) == decode_tagged(rest, 1)
decode_options(rest) == ReadCounted(rest, 2, LAMBDA o : ReadFields(o, <<"r", "r">>))
\* The columns a definition names, then what it says about time and its options.
DefinitionColumns(body) == Then(Then(Then(ReadFields(body, <<"n", "n">>), decode_ids), decode_version), decode_ids)
DefinitionFields(body) == Then(Then(Then(DefinitionColumns(body), decode_timed), decode_timed), decode_options)
decode_definition(rest) == Outside(rest, DefinitionIn(DefinitionFields(Inner(rest))))
\* Every column a definition names is in the schema.
check_definition_ids(def, schema) ==
    LET timed == def.partition_by \o def.ttl IN
    ToSet(def.key \o def.order_by \o def.version) \cup {timed[i].column : i \in DOMAIN timed}
        \subseteq {schema[i].id : i \in DOMAIN schema}
\* The schema; before field ids there were none to write.
encode_schema_fields(schema, with_ids) ==
    encode_list([i \in DOMAIN schema |-> bytes(schema[i].field.name) \o encode_type(schema[i].field.ty)
                                            \o (IF with_ids THEN <<schema[i].id>> ELSE <<>>)])
SchemaFieldIn(r) == As(r, SchemaColumn(r.v[3], Field(r.v[1], r.v[2])))
\* A field id that is written is not 0.
NonZero(r) == Check(r, r.v # 0)
ReadFieldId(rest) == NonZero(ReadUnit(rest))
decode_schema_field(body) == SchemaFieldIn(ThenOr(Then(ReadFields(body, <<"r">>), decode_type), 0, ReadFieldId))
decode_schema_fields(rest) == Outside(rest, decode_list(Inner(rest), decode_schema_field))
------------------------------------------------------------------------------
(* Segments.  Statistics are written under the schema's types, one record    *)
(* for each column that has a field; a list has no bounds.                   *)
encode_bound(o, ty) == IF ty.k = "LIST" THEN <<0>> ELSE encode_opt(o, ty)
encode_stats(c, ty) == <<c.rows, c.nulls>> \o encode_bound(c.min, ty) \o encode_bound(c.max, ty)
encode_columns(columns, schema) ==
    <<Len(columns)>> \o FlattenSeq([i \in 1 .. Min({Len(columns), Len(schema)}) |-> bytes(encode_stats(columns[i], schema[i].field.ty))])
ColumnStatsIn(r) == As(r, [rows |-> r.v[1], nulls |-> r.v[2], min |-> r.v[3], max |-> r.v[4]])
decode_column_stats(body, ty) == ColumnStatsIn(ThenBounds(ReadFields(body, <<"n", "n">>), ty))
StatsUnder(n, schema) ==
    IF ~n.ok THEN Fail
    ELSE IF ~guard_len(n.rest, n.v, 1) \/ n.v # Len(schema) THEN Fail
    ELSE FoldLeft(LAMBDA acc, f : Then(acc, LAMBDA r : Outside(r, decode_column_stats(Inner(r), f.field.ty))), Ok(<<>>, n.rest), schema)
decode_columns(rest, schema) == Outside(rest, StatsUnder(ReadUnit(Inner(rest)), schema))
\* A side file has a kind, a path and a checksum; no kind is known to this version.
encode_side_files(files) == encode_list([i \in DOMAIN files |-> <<files[i].kind>> \o bytes(files[i].path) \o <<files[i].crc>>])
NoSideFile(r) == Check(r, r.v = 0)
decode_side_files(rest) == Outside(rest, NoSideFile(ReadUnit(Inner(rest))))
encode_segment_pre_d0012(s, schema) ==
    <<s.id>> \o bytes(s.partition) \o <<s.seq, s.rows, s.bytes, s.footer_crc>>
      \o bytes(encode_columns(s.columns, schema)) \o encode_side_files(s.side_files)
encode_segment_pre_lifecycle(s, schema) ==
    encode_segment_pre_d0012(s, schema) \o bytes(s.dir) \o bytes(encode_ids(s.field_ids))
encode_segment(s, schema) == encode_segment_pre_lifecycle(s, schema) \o bytes(encode_ids(s.file_field_ids))
check_distinct_file_field_ids(ids) == \A i, j \in DOMAIN ids : i < j => ids[i] = 0 \/ ids[i] # ids[j]
CheckedDir(r) == Check(r, check_dir(r.v))
DistinctIds(r) == Check(r, check_distinct_file_field_ids(r.v))
SegmentIn(r) ==
    Check(As(r, [id |-> r.v[1], partition |-> r.v[2], seq |-> r.v[3], rows |-> r.v[4], bytes |-> r.v[5], footer_crc |-> r.v[6],
                 columns |-> r.v[7], side_files |-> <<>>, dir |-> r.v[9], field_ids |-> r.v[10], file_field_ids |-> r.v[11]]),
          is_path_component(r.v[2]) /\ Len(r.v[10]) \in {0, Len(r.v[7])})
\* dir, field_ids and file_field_ids came with later versions, one after the other.
ReadDir(rest) == CheckedDir(ReadBytes(rest))
DistinctIdRecord(rest) == DistinctIds(IdRecord(rest))
SegmentFirst(b, schema) ==
    Then(Then(ReadFields(b, <<"n", "r", "n", "n", "n", "n">>), LAMBDA rest : decode_columns(rest, schema)), decode_side_files)
decode_segment_body(b, schema) ==
    SegmentIn(ThenOr(ThenOr(ThenOr(SegmentFirst(b, schema), <<>>, ReadDir), <<>>, IdRecord), <<>>, DistinctIdRecord))
decode_segment(rest, schema) == Outside(rest, decode_segment_body(Inner(rest), schema))
------------------------------------------------------------------------------
(* Tombstones.                                                               *)
CmpTags == <<"Eq", "Ne", "Lt", "Le", "Gt", "Ge">>
\* A predicate on a column the schema does not have is a panic of the encoder.
PredicatesKnown(t) ==
    \A i \in DOMAIN t.tombstones : \A j \in DOMAIN t.tombstones[i].predicates :
        FieldNamed(t.schema, t.tombstones[i].predicates[j].column) # {}
ColumnType(schema, name) == schema[Min(FieldNamed(schema, name))].field.ty
encode_predicate(p, schema) ==
    bytes(p.column) \o <<(CHOOSE i \in DOMAIN CmpTags : CmpTags[i] = p.op) - 1>> \o encode_value(p.value, ColumnType(schema, p.column))
encode_tombstone(t, schema) ==
    <<t.seq>> \o Counted([i \in DOMAIN t.predicates |-> bytes(encode_predicate(t.predicates[i], schema))])
PredicateIn(r) == As(r, [column |-> r.v[1], op |-> CmpTags[r.v[2] + 1], value |-> r.v[3]])
PredicateHead(r, schema) == Check(r, r.v[2] < Len(CmpTags) /\ FieldNamed(schema, r.v[1]) # {})
decode_predicate(body, schema) ==
    PredicateIn(ThenUnder(PredicateHead(ReadFields(body, <<"r", "n">>), schema), 1,
                          LAMBDA rest, column : decode_value(rest, ColumnType(schema, column))))
TombstoneIn(r) == As(r, [seq |-> r.v[1], predicates |-> r.v[2]])
decode_predicates(rest, schema) == decode_list(rest, LAMBDA b : decode_predicate(b, schema))
decode_tombstone(body, schema) == TombstoneIn(Then(ReadFields(body, <<"n">>), LAMBDA rest : decode_predicates(rest, schema)))
------------------------------------------------------------------------------
(* Tables, garbage, jobs, retired tables and the migrations ledger.  Seg     *)
(* writes a segment, so that the formats of older versions can be written.   *)
EngineUnit(engine) == CHOOSE u \in 1 .. 6 : <<"append", "latest", "rollup", "vector", "ledger", "other">>[u] = engine
EngineName(units) == IF Len(units) = 1 /\ units[1] \in 1 .. 5 THEN <<"append", "latest", "rollup", "vector", "ledger">>[units[1]] ELSE "other"
EncodeEntry(t, Seg(_, _), with_ids) ==
    bytes(t.name.db) \o bytes(t.name.name) \o bytes(<<EngineUnit(t.engine)>>) \o encode_schema_fields(t.schema, with_ids)
      \o encode_list([i \in DOMAIN t.segments |-> Seg(t.segments[i], t.schema)])
      \o encode_list([i \in DOMAIN t.tombstones |-> encode_tombstone(t.tombstones[i], t.schema)])
      \o (IF with_ids THEN bytes(encode_definition(t)) ELSE <<>>)
encode_table_entry(t) == EncodeEntry(t, encode_segment, TRUE)
encode_tables(m) == encode_list([i \in DOMAIN m.tables |-> encode_table_entry(m.tables[i])])
decode_segments(rest, schema) == Outside(rest, ReadCounted(Inner(rest), 1, LAMBDA r : decode_segment(r, schema)))
decode_tombstones(rest, schema) == Outside(rest, decode_list(Inner(rest), LAMBDA b : decode_tombstone(b, schema)))
EntryOf(r) ==
    Check(As(r, r.v[7] @@ [name |-> TableName(r.v[1], r.v[2]), engine |-> EngineName(r.v[3]), schema |-> r.v[4],
                           segments |-> r.v[5], tombstones |-> r.v[6]]),
          is_path_component(r.v[1]) /\ is_path_component(r.v[2]) /\ check_definition_ids(r.v[7], r.v[4]))
EntryRows(schema) == ThenUnder(ThenUnder(schema, 4, decode_segments), 4, decode_tombstones)
decode_entry_body(b) ==
    EntryOf(ThenOr(EntryRows(Then(ReadFields(b, <<"r", "r", "r">>), decode_schema_fields)), AbsentDefinition, decode_definition))
decode_table_entry(rest) == Outside(rest, decode_entry_body(Inner(rest)))
decode_tables(rest) == Outside(rest, ReadCounted(Inner(rest), 1, decode_table_entry))

\* A garbage entry has no schema to write statistics under.
encode_garbage_with(g, Seg(_, _)) == bytes(g.table.db) \o bytes(g.table.name) \o <<g.removed_at_ms>> \o bytes(Seg(g.segment, <<>>))
encode_garbage(m) ==
    encode_list([i \in DOMAIN m.garbage |-> encode_garbage_with(m.garbage[i], encode_segment) \o <<m.garbage[i].removed_at_version>>])
GarbageIn(r) ==
    Check(As(r, [table |-> TableName(r.v[1], r.v[2]), segment |-> r.v[4], removed_at_ms |-> r.v[3], removed_at_version |-> r.v[5]]),
          is_path_component(r.v[1]) /\ is_path_component(r.v[2]))
decode_garbage_entry(body) ==
    GarbageIn(ThenOr(Then(ReadFields(body, <<"r", "r", "n">>), LAMBDA rest : decode_segment(rest, <<>>)), 0, ReadUnit))

encode_job(j) ==
    <<j.id, j.source, j.snapshot>> \o bytes(encode_ids(j.handled)) \o <<j.reused, j.rewritten>> \o bytes(encode_table_entry(j.target))
JobIdKnown(id, next_job_id) == id # 0 /\ id < next_job_id
JobIn(r, next_job_id) ==
    Check(As(r, [id |-> r.v[1], source |-> r.v[2], snapshot |-> r.v[3], target |-> r.v[7], handled |-> r.v[4],
                 reused |-> r.v[5], rewritten |-> r.v[6]]), JobIdKnown(r.v[1], next_job_id))
decode_job(body, next_job_id) ==
    JobIn(Then(ThenFields(Then(ReadFields(body, <<"n", "n", "n">>), IdRecord), <<"n", "n">>), decode_table_entry), next_job_id)
Reasons == <<"Swapped", "Reverted", "Dropped">>
encode_retired(r) ==
    <<(CHOOSE i \in DOMAIN Reasons : Reasons[i] = r.reason) - 1, r.retired_at_ms, r.version>>
      \o bytes(encode_ids(r.successor_segments)) \o bytes(encode_table_entry(r.entry))
RetiredIn(r) ==
    IF ~r.ok THEN Fail
    ELSE IF r.v[1] >= Len(Reasons) THEN Fail
    ELSE Ok([entry |-> r.v[5], reason |-> Reasons[r.v[1] + 1], retired_at_ms |-> r.v[2], version |-> r.v[3],
             successor_segments |-> r.v[4]], r.rest)
decode_retired(body) == RetiredIn(Then(Then(ReadFields(body, <<"n", "n", "n">>), IdRecord), decode_table_entry))
encode_lifecycle(m) ==
    bytes(<<m.next_job_id>> \o Counted([i \in DOMAIN m.jobs |-> bytes(encode_job(m.jobs[i]))])
                            \o Counted([i \in DOMAIN m.retired |-> bytes(encode_retired(m.retired[i]))]))
AbsentLifecycle == [next_job_id |-> 1, jobs |-> <<>>, retired |-> <<>>]
LifecycleIn(r) == As(r, [next_job_id |-> r.v[1], jobs |-> r.v[2], retired |-> r.v[3]])
decode_jobs(rest, next_job_id) == decode_list(rest, LAMBDA b : decode_job(b, next_job_id))
decode_retired_list(rest) == decode_list(rest, decode_retired)
decode_lifecycle(rest) ==
    Outside(rest, LifecycleIn(Then(ThenUnder(ReadFields(Inner(rest), <<"n">>), 1, decode_jobs), decode_retired_list)))
encode_migrations(m) ==
    encode_list([i \in DOMAIN m.migrations |->
        bytes(m.migrations[i].name) \o <<m.migrations[i].checksum, m.migrations[i].applied_at_ms>>])
MigrationIn(r) == As(r, [name |-> r.v[1], checksum |-> r.v[2], applied_at_ms |-> r.v[3]])
decode_migrations(rest) == Outside(rest, decode_list(Inner(rest), LAMBDA b : MigrationIn(ReadFields(b, <<"r", "n", "n">>))))
------------------------------------------------------------------------------
(* The file.                                                                 *)
encode_header_fields(m) == bytes(<<m.version, m.next_segment_id, m.next_table_id>>)
decode_header_fields(rest) == Outside(rest, ThenOr(ReadFields(Inner(rest), <<"n", "n">>), 0, ReadUnit))
encode_body(m) ==
    encode_header_fields(m) \o encode_tables(m) \o encode_garbage(m) \o encode_lifecycle(m) \o encode_migrations(m)
decode_garbage(rest) == Outside(rest, decode_list(Inner(rest), decode_garbage_entry))
ManifestOf(r) ==
    IF ~r.ok THEN Bad("Corrupt")
    ELSE Good(r.v[4] @@ [version |-> r.v[1][1], next_segment_id |-> r.v[1][2], next_table_id |-> r.v[1][3],
                         tables |-> r.v[2], garbage |-> r.v[3], migrations |-> r.v[5]])
BodyTables(units) == Then(Then(Ok(<<>>, units), decode_header_fields), decode_tables)
decode_body(units) ==
    ManifestOf(ThenOr(ThenOr(Then(BodyTables(units), decode_garbage), AbsentLifecycle, decode_lifecycle), <<>>, decode_migrations))
ManifestFile(body) == write_trailer(Header("man", 0), <<>>, "man", body)
\* None is the panic of encode_predicate.
EveryEntry(m) ==
    ToSet(m.tables) \cup {m.jobs[i].target : i \in DOMAIN m.jobs} \cup {m.retired[i].entry : i \in DOMAIN m.retired}
encode(m) == IF \A t \in EveryEntry(m) : PredicatesKnown(t) THEN Some(ManifestFile(encode_body(m))) ELSE None
\* The header is checked before the trailer; a footer is the whole body.
BodyOf(head, trailer) == IF ~IsGood(head) THEN head ELSE IF ~IsGood(trailer) THEN trailer ELSE decode_body(trailer.v.footer)
decode(f) == BodyOf(check_header(f, "man"), read_trailer(f, "man"))
------------------------------------------------------------------------------
(* ids.rs: ids and directories for what an older version wrote.              *)
\* Numbers the elements whose id is 0, from next on.
Numbered(next, ids) ==
    LET zeros(i) == Cardinality({j \in 1 .. i - 1 : ids[j] = 0}) IN
    [i \in DOMAIN ids |-> IF ids[i] = 0 THEN next + zeros(i) ELSE ids[i]]
Highest(ids) == Max({0} \cup ToSet(ids))
FirstFree(next, ids) == Max({next, Highest(ids) + 1, 1})
FreeAfter(next, ids) == next + Cardinality({i \in DOMAIN ids : ids[i] = 0})
assign_field_ids(t) ==
    LET old == [i \in DOMAIN t.schema |-> t.schema[i].id]
        next == FirstFree(t.next_field_id, old)
        ids == Numbered(next, old)
    IN [t EXCEPT !.schema = [i \in DOMAIN @ |-> [@[i] EXCEPT !.id = ids[i]]], !.next_field_id = FreeAfter(next, old)]
LegacyDir(name) == name.db \o <<SlashChar>> \o name.name
assign_dir(s, name) == [s EXCEPT !.dir = IF @ = <<>> THEN LegacyDir(name) ELSE @]
assign_segment_dirs(t) ==
    LET ids == [i \in DOMAIN t.schema |-> t.schema[i].id]
        assigned(s) == [assign_dir(s, t.name) EXCEPT !.field_ids = IF @ = <<>> /\ s.columns # <<>> THEN ids ELSE @]
    IN [t EXCEPT !.segments = [i \in DOMAIN @ |-> assigned(@[i])]]
assign_missing(m) ==
    LET old == [i \in DOMAIN m.tables |-> m.tables[i].id]
        next == FirstFree(m.next_table_id, old)
        ids == Numbered(next, old)
        table(i) == assign_segment_dirs(assign_field_ids([m.tables[i] EXCEPT !.id = ids[i]]))
    IN [m EXCEPT !.next_table_id = FreeAfter(next, old), !.tables = [i \in DOMAIN @ |-> table(i)],
                 !.garbage = [i \in DOMAIN @ |-> [@[i] EXCEPT !.segment = assign_dir(@, m.garbage[i].table)]]]
\* Manifest::decode
Loaded(m) == IF IsGood(m) THEN Good(assign_missing(m.v)) ELSE m
LoadManifest(f) == Loaded(decode(f))
------------------------------------------------------------------------------
(* What other versions of the program write.                                 *)
encode_pre_d0012(m) ==
    LET garbage(g) == encode_garbage_with(g, encode_segment_pre_d0012) IN
    ManifestFile(bytes(<<m.version, m.next_segment_id>>)
      \o encode_list([i \in DOMAIN m.tables |-> EncodeEntry(m.tables[i], encode_segment_pre_d0012, FALSE)])
      \o encode_list([i \in DOMAIN m.garbage |-> garbage(m.garbage[i])]))
encode_pre_lifecycle(m) ==
    LET garbage(g) == encode_garbage_with(g, encode_segment_pre_lifecycle) IN
    ManifestFile(encode_header_fields(m)
      \o encode_list([i \in DOMAIN m.tables |-> EncodeEntry(m.tables[i], encode_segment_pre_lifecycle, TRUE)])
      \o encode_list([i \in DOMAIN m.garbage |-> garbage(m.garbage[i])]))
encode_with_extra_segment_field(m) ==
    LET extra(s, schema) == encode_segment(s, schema) \o <<99>> IN
    ManifestFile(encode_header_fields(m) \o encode_list([i \in DOMAIN m.tables |-> EncodeEntry(m.tables[i], extra, TRUE)])
      \o encode_garbage(m) \o encode_lifecycle(m) \o encode_migrations(m))
=============================================================================
