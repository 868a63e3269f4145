---------------------------- MODULE ManifestJobs ----------------------------
(***************************************************************************)
(* Checks of table definitions and of the manifest file: specifications     *)
(* with every clause, ALTERs of up to MaxClauses clauses, manifests with    *)
(* every part, written by this and by other versions, and manifests with    *)
(* one unit changed under a correct checksum.                               *)
(***************************************************************************)
EXTENDS ManifestCodec, Jobs

CONSTANTS MaxClauses   \* clauses of an ALTER

ColA == <<1>>
ColB == <<2>>
ColT == <<3>>
TabName == TableName(<<10>>, <<11>>)
AnInt == Ty("INT64")
IntCols == <<Field(ColA, AnInt), Field(ColB, Ty("STRING"))>>
AllCols == IntCols \o <<Field(ColT, Ty("TIMESTAMP"))>>
Spec0 == TableSpecNew(TabName, AllCols)
Specs ==
    {[Spec0 EXCEPT !.engine = e, !.key = k, !.order_by = o, !.version = v, !.partition_by = p, !.ttl = p,
                   !.options = {<<<<20>>, <<21>>>>, <<<<20, 5>>, <<>>>>}] :
        e \in {"append", "latest", "ledger", "other"}, k \in {<<>>, <<ColA>>, <<ColB, ColA>>, <<ColA, ColA>>},
        o \in {<<>>, <<ColA, ColB>>, <<ColB, ColA>>, <<ColA, ColA>>, <<<<9>>>>}, v \in {None, Some(ColT)},
        p \in {None, Some(Timed(ColT, 7)), Some(Timed(ColT, 0)), Some(Timed(ColA, 7))}}
    \cup {[Spec0 EXCEPT !.name = TableName(d, <<11>>)] : d \in {<<>>, <<DotChar>>, <<1, SlashChar>>}}
    \cup {[Spec0 EXCEPT !.columns = Append(@, Field(ColA, AnInt))]}
------------------------------------------------------------------------------
(* ALTER.                                                                    *)
Clause(op, column, to, cols) == [op |-> op, column |-> column, to |-> to, ty |-> AnInt, cols |-> cols]
Clauses ==
    {Clause("add", c, <<>>, <<>>) : c \in {ColA, <<4>>}} \cup {Clause("drop", c, <<>>, <<>>) : c \in {ColA, ColB, <<4>>, <<5>>}}
    \cup {Clause("rename", f, t, <<>>) : f \in {ColA, <<4>>}, t \in {<<5>>, ColB}}
    \cup {Clause("order_by", <<>>, <<>>, cs) : cs \in {<<>>, <<ColB>>, <<<<5>>, ColB>>, <<ColA, ColA>>}}
    \cup {Clause("partition_by", <<>>, <<>>, <<>>), Clause("set_type", ColA, <<>>, <<>>), Clause("set_type", <<9>>, <<>>, <<>>)}
AnEntry(engine, key, order, deleted) ==
    [NewEntry([Spec0 EXCEPT !.engine = engine, !.key = key, !.order_by = order, !.ttl = Some(Timed(ColT, 7))], 3) EXCEPT
        !.tombstones = IF deleted THEN <<[seq |-> 1, predicates |-> <<[column |-> ColA, op |-> "Eq", value |-> Val("INT64", -1)]>>]>> ELSE <<>>]
Altered == {AnEntry("append", <<>>, <<ColB>>, TRUE), AnEntry("append", <<>>, <<>>, TRUE), AnEntry("append", <<>>, <<ColA, ColB>>, FALSE),
            AnEntry("latest", <<ColA>>, <<>>, FALSE), AnEntry("ledger", <<ColA>>, <<ColA, ColB>>, FALSE)}
------------------------------------------------------------------------------
(* Manifests as commits leave them.                                          *)
Stat(f) == IF f.ty.k = "INT64" THEN [rows |-> 2, nulls |-> 0, min |-> Some(Val("INT64", -3)), max |-> Some(Val("INT64", 2))]
           ELSE [rows |-> 2, nulls |-> 2, min |-> None, max |-> None]
Segment(id, t) ==
    [id |-> id, partition |-> <<12>>, seq |-> 1, rows |-> 2, bytes |-> 9, footer_crc |-> 5,
     columns |-> [i \in DOMAIN t.schema |-> Stat(t.schema[i].field)], side_files |-> <<>>, dir |-> EntryDir(t),
     field_ids |-> [i \in DOMAIN t.schema |-> t.schema[i].id], file_field_ids |-> <<>>]
\* The table an ALTER makes of t, with its segments carried over.
CarriedOver(t, target, id) ==
    [target EXCEPT !.id = id, !.segments = [i \in DOMAIN t.segments |-> ProjectOnto(t.segments[i], target.schema)]]
Planned(t, clauses, id) == CarriedOver(t, plan_alter(t, clauses).v, id)
DropClauses == <<Clause("drop", ColA, <<>>, <<>>), Clause("drop", ColB, <<>>, <<>>)>>
WithSegment(t, id) == [t EXCEPT !.segments = <<Segment(id, t)>>]
Listed == [NewEntry([TableSpecNew(TableName(<<10>>, <<13>>), <<Field(ColA, ListType(AnInt)[1]), Field(ColB, Ty("STRING"))>>)
                       EXCEPT !.options = {<<<<20>>, <<21>>>>}], 6) EXCEPT !.segments = <<>>]
\* Removed segments keep no statistics.
GarbageOf(t, id) ==
    [table |-> t.name, segment |-> [Segment(id, t) EXCEPT !.columns = <<>>, !.field_ids = <<>>], removed_at_ms |-> 4, removed_at_version |-> 2]
Tables == {AnEntry("latest", <<ColA>>, <<>>, TRUE), WithSegment(AnEntry("append", <<>>, <<ColB>>, TRUE), 7),
           Planned(WithSegment(AnEntry("append", <<>>, <<>>, FALSE), 7), DropClauses, 4)}
\* A table whose times are longer than 2^64 - 1 ns: one of exactly 2^64, and 2^64 + 7.
LongTimes ==
    WithSegment(NewEntry([Spec0 EXCEPT !.partition_by = Some(Timed(ColT, UIntMax + 1)), !.ttl = Some(Timed(ColT, UIntMax + 8))], 3), 7)
AddingJob(t) ==
    [id |-> 2, source |-> t.id, snapshot |-> 1, target |-> Planned(t, <<Clause("add", <<4>>, <<>>, <<>>)>>, 5),
     handled |-> <<7, 8>>, reused |-> 1, rewritten |-> 0]
RetiredOf(t, reason) ==
    [entry |-> [t EXCEPT !.id = 1], reason |-> reason, retired_at_ms |-> 6, version |-> 3, successor_segments |-> <<7>>]
ManifestWith(tables, garbage, jobs, retired, migrations) ==
    [ManifestEmpty EXCEPT !.version = 5, !.next_segment_id = 9, !.next_table_id = 7, !.tables = tables, !.garbage = garbage,
                          !.next_job_id = 3, !.jobs = jobs, !.retired = retired, !.migrations = migrations]
ManifestsOf(t) ==
    {ManifestWith(tables, g, j, r, l) : tables \in {<<t>>, <<t, WithSegment(Listed, 8)>>}, g \in {<<>>, <<GarbageOf(Listed, 6)>>},
        j \in {<<>>, <<AddingJob(t)>>}, r \in {<<>>, <<RetiredOf(t, "Swapped"), RetiredOf(Listed, "Dropped")>>},
        l \in {<<>>, <<[name |-> <<14>>, checksum |-> 3, applied_at_ms |-> 4]>>}}
ManifestFull(t) == ManifestWith(<<t>>, <<GarbageOf(t, 6)>>, <<AddingJob(t)>>, <<RetiredOf(Listed, "Reverted")>>, <<>>)
WriteManifest(m, how) ==
    CASE how = "now" -> encode(m)[1]
      [] how = "pre_d0012" -> encode_pre_d0012(m)
      [] how = "pre_lifecycle" -> encode_pre_lifecycle(m)
      [] how = "extra" -> encode_with_extra_segment_field(m)
------------------------------------------------------------------------------
ManifestInit ==
    /\ pc = "start" /\ out = <<>>
    /\ \/ \E s \in Specs : job = [kind |-> "spec", spec |-> s]
       \/ \E t \in Altered : \E cs \in SeqOf(Clauses, MaxClauses) : job = [kind |-> "alter", table |-> t, clauses |-> cs]
       \/ \E t \in Tables \cup {LongTimes} : \E m \in ManifestsOf(t) : \E how \in {"now", "pre_d0012", "pre_lifecycle", "extra"} :
            job = [kind |-> "manifest", m |-> m, how |-> how, file |-> WriteManifest(m, how), loaded |-> <<>>]
       \/ \E t \in Tables : \E body \in {encode_body(ManifestFull(t))} : \E at \in DOMAIN body : \E u \in {0, 1, 3, SlashChar} :
            job = [kind |-> "damage", file |-> ManifestFile([body EXCEPT ![at] = u])]
CreateFromSpec ==
    Run("spec", IF validate(job.spec) # "" THEN Bad(validate(job.spec)) ELSE Good(NewEntry(job.spec, 1)))
PlanAlter == Run("alter", plan_alter(job.table, job.clauses))
\* A store is opened on the file.
LoadFile ==
    /\ job.kind \in {"manifest", "damage"} /\ pc \in {"start", "committed"}
    /\ out' = LoadManifest(job.file)
    /\ pc' = IF pc = "start" THEN "done" ELSE "reloaded"
    /\ UNCHANGED job
\* Its next commit writes the manifest it loaded.
CommitLoaded ==
    /\ Done("manifest") /\ IsGood(out) /\ job.how \in {"pre_d0012", "pre_lifecycle"}
    /\ job' = [job EXCEPT !.file = encode(out.v)[1], !.loaded = out]
    /\ pc' = "committed"
    /\ UNCHANGED out
ManifestNext == CreateFromSpec \/ PlanAlter \/ LoadFile \/ CommitLoaded
------------------------------------------------------------------------------
Ids(t) == {t.schema[i].id : i \in DOMAIN t.schema}
\* What the rest of the program takes for granted of a table.
SoundEntry(t) ==
    /\ IsPrefix(t.key, t.order_by)
    /\ check_definition_ids(t, t.schema)
    /\ Cardinality(Ids(t)) = Len(t.schema) /\ \A id \in Ids(t) : id \in 1 .. t.next_field_id - 1
    /\ \A d \in ToSet(t.partition_by \o t.ttl) : d.ns > 0 /\ ColumnType(t.schema, NameOf(t.schema, d.column)).k = "TIMESTAMP"
(* TableSpec::validate and create_table: the entry of a specification that passes is     *)
(* sound (its key leads its sort order, every clause names a field of it), and the       *)
(* specification TableEntry::spec gives back creates the same entry again.               *)
SpecSound ==
    Done("spec") /\ IsGood(out) =>
        SoundEntry(out.v) /\ validate(EntrySpec(out.v)) = "" /\ NewEntry(EntrySpec(out.v), 1) = out.v
(* plan_alter: the planned table is sound; a column that stays keeps its field id and    *)
(* its type, a new one gets an id no column of the table ever had, what KEY, VERSION and *)
(* TTL name stays, every tombstone still names a column, and without an ORDER BY clause  *)
(* the sort order is the old one, field by field, so that no segment is rewritten.       *)
AlterKeepsIdentity ==
    Done("alter") /\ IsGood(out) =>
        LET t == job.table  n == out.v  kept == Ids(n) \cap Ids(t) IN
        /\ SoundEntry(n)
        /\ \A id \in Ids(n) \ kept : id >= t.next_field_id
        /\ \A i \in DOMAIN t.schema : \A j \in DOMAIN n.schema : t.schema[i].id = n.schema[j].id => t.schema[i].field.ty = n.schema[j].field.ty
        /\ ToSet(t.key \o t.version) \cup {d.column : d \in ToSet(t.ttl)} \subseteq kept
        /\ \A i \in DOMAIN t.tombstones : \A p \in ToSet(t.tombstones[i].predicates) : FieldIdOf(t.schema, p.column) \in kept
        /\ (\A i \in DOMAIN job.clauses : job.clauses[i].op # "order_by") => ~rewrites_segments(t, n)
\* A bucket or a TTL of 2^64 ns and more keeps its low 64 bits on disk.
StoredTime(d) == [i \in DOMAIN d |-> [d[i] EXCEPT !.ns = @ % (UIntMax + 1)]]
StoredEntry(t) == [t EXCEPT !.partition_by = StoredTime(@), !.ttl = StoredTime(@)]
AsStored(m) ==
    [m EXCEPT !.tables = [i \in DOMAIN @ |-> StoredEntry(@[i])],
              !.jobs = [i \in DOMAIN @ |-> [@[i] EXCEPT !.target = StoredEntry(@)]],
              !.retired = [i \in DOMAIN @ |-> [@[i] EXCEPT !.entry = StoredEntry(@)]]]
TimesFit(t) == StoredEntry(t) = t
(* codec.rs: a manifest is read back as it was written, dropped columns of carried       *)
(* segments and garbage without statistics included, and a field that a newer version    *)
(* adds to a segment is skipped.  One thing is not: codec.rs:264 and :272 write          *)
(* as_nanos() as u64, so a duration of 2^64 ns or more, which validate accepts, comes    *)
(* back without its high bits, and one of exactly 2^64 ns as the zero that validate      *)
(* refuses (spec.rs:261).  In every table, job and retired table, that and nothing else  *)
(* changes.                                                                              *)
ManifestRoundTrip == Done("manifest") /\ job.how \in {"now", "extra"} => out = Good(AsStored(job.m))
\* What an older version could not write.
OldView(m) ==
    LET seg(x) == [x EXCEPT !.file_field_ids = <<>>]
        table(t) == [t EXCEPT !.segments = [j \in DOMAIN t.segments |-> seg(t.segments[j])]]
    IN [m EXCEPT !.next_job_id = 1, !.jobs = <<>>, !.retired = <<>>, !.migrations = <<>>,
                 !.garbage = [i \in DOMAIN m.garbage |-> [m.garbage[i] EXCEPT !.removed_at_version = 0, !.segment = seg(@)]],
                 !.tables = [i \in DOMAIN m.tables |-> table(m.tables[i])]]
(* codec.rs and ids.rs: a manifest of an older version loads; what it lacks gets ids     *)
(* that no other table or column has and directories of the old layout, and the next     *)
(* commit writes a manifest that loads as the same one.                                  *)
OldManifestsUpgrade ==
    /\ Is("manifest", "reloaded") => out = job.loaded
    /\ Done("manifest") /\ job.how \in {"pre_d0012", "pre_lifecycle"} =>
        LET m == out.v  old == OldView(job.m)  T == DOMAIN old.tables IN
        /\ IsGood(out)
        /\ job.how = "pre_lifecycle" => m = AsStored(old)
        /\ DOMAIN m.tables = T
        /\ \A i, j \in T : i # j => m.tables[i].id # m.tables[j].id
        /\ \A i \in T : /\ m.tables[i].id \in 1 .. m.next_table_id - 1
                        /\ TimesFit(old.tables[i]) => SoundEntry(m.tables[i])
                        /\ m.tables[i].name = old.tables[i].name /\ m.tables[i].tombstones = old.tables[i].tombstones
                        /\ \A k \in DOMAIN m.tables[i].segments : Len(m.tables[i].segments[k].field_ids) = Len(m.tables[i].schema)
(* codec.rs: a manifest that decodes, whatever one of its numbers is, can be written     *)
(* again and is one the rest of the program can work with: no job has an id that is to   *)
(* be given out, no clause or tombstone names a column the table lacks, statistics are   *)
(* one per column, and no name leads out of the store's directory.                       *)
ManifestWellFormed ==
    Done("damage") /\ IsGood(out) =>
        /\ encode(out.v) # None
        /\ \A i \in DOMAIN out.v.jobs : out.v.jobs[i].id \in 1 .. out.v.next_job_id - 1
        /\ \A t \in EveryEntry(out.v) :
              /\ check_definition_ids(t, t.schema) /\ is_path_component(t.name.db) /\ is_path_component(t.name.name)
              /\ \A s \in ToSet(t.segments) :
                    /\ Len(s.columns) = Len(t.schema) /\ Len(s.field_ids) \in {0, Len(s.columns)}
                    /\ is_path_component(s.partition) /\ \A part \in DirParts(s.dir) : is_path_component(part)
(* The manifest as a whole (storage/manifest: spec, alter, codec, ids): only sound tables *)
(* enter it, ALTER never gives a column another's identity, and every version of the     *)
(* format, whole or damaged, is read as what was written or refused.                     *)
ManifestsSound == SpecSound /\ AlterKeepsIdentity /\ ManifestRoundTrip /\ OldManifestsUpgrade /\ ManifestWellFormed
=============================================================================
