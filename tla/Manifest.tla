------------------------------ MODULE Manifest ------------------------------
(***************************************************************************)
(* The manifest and the edits a commit applies to it                       *)
(* (src/src/storage/manifest).  A manifest value is one published version: *)
(* the live tables, the running jobs, the retired table definitions kept   *)
(* for UNDROP and REVERT, and the garbage list.  Every operator here is    *)
(* pure: an edit takes a manifest and returns the next one, and the        *)
(* operator named after it with the prefix Can is the conjunction of the   *)
(* checks whose failure makes the edit return an error (which discards the *)
(* whole commit).                                                          *)
(*                                                                         *)
(* A table's schema is a set of fields [col, fid, birth].  `birth` is not  *)
(* in the code: it is the id of the table definition that introduced the   *)
(* field, so <<fid, birth>> identifies a column for ever.  A segment       *)
(* carries, besides what its entry records (id, seq, field ids, file field *)
(* ids), the rows its immutable file holds.                                *)
(***************************************************************************)
EXTENDS Integers, Sequences, FiniteSetsExt

CONSTANTS
    Names,   \* table names
    Rows     \* row identities

-----------------------------------------------------------------------------
(* Entries.                                                                *)

Fids(schema) == {f.fid : f \in schema}
Cols(schema) == {f.col : f \in schema}
SegIds(segs) == {s.id : s \in segs}
RowsOf(segs) == UNION {s.rows : s \in segs}

(* The records of a manifest.                                              *)
IsSegment(s) ==
    /\ s = [id |-> s.id, seq |-> s.seq, rows |-> s.rows,
            field_ids |-> s.field_ids, file |-> s.file]
    /\ s.id \in Nat
IsEntry(t) ==
    /\ t = [id |-> t.id, name |-> t.name, schema |-> t.schema,
            next_field_id |-> t.next_field_id, order_by |-> t.order_by,
            segments |-> t.segments, tombstones |-> t.tombstones]
    /\ t.id \in Nat /\ t.name \in Names
    /\ \A s \in t.segments : IsSegment(s)
IsJob(j) ==
    /\ j = [id |-> j.id, source |-> j.source, target |-> j.target, handled |-> j.handled]
    /\ j.id \in Nat /\ j.source \in Nat
    /\ IsEntry(j.target)
IsRetired(r) ==
    /\ r = [entry |-> r.entry, reason |-> r.reason, version |-> r.version,
            successor_segments |-> r.successor_segments]
    /\ r.reason \in {"swapped", "dropped", "reverted"}
    /\ r.version \in Nat
    /\ IsEntry(r.entry)
IsGarbage(g) == g \in [id : Nat, removed_at_version : Nat]
IsManifest(m) ==
    /\ m = [version |-> m.version, tables |-> m.tables, jobs |-> m.jobs,
            retired |-> m.retired, garbage |-> m.garbage,
            next_segment_id |-> m.next_segment_id, next_table_id |-> m.next_table_id,
            next_job_id |-> m.next_job_id]
    /\ m.version \in Nat /\ m.next_segment_id \in Nat
    /\ m.next_table_id \in Nat /\ m.next_job_id \in Nat
    /\ \A t \in m.tables : IsEntry(t)
    /\ \A j \in m.jobs : IsJob(j)
    /\ \A r \in m.retired : IsRetired(r)
    /\ \A g \in m.garbage : IsGarbage(g)

EmptyManifest ==
    [version |-> 0, tables |-> {}, jobs |-> {}, retired |-> {}, garbage |-> {},
     next_segment_id |-> 0, next_table_id |-> 1, next_job_id |-> 1]

\* A tombstone applies to the segments committed before it.
TombstonesFor(t, seg) == {k \in t.tombstones : k.seq > seg.seq}

\* The rows a scan of the table's segments returns.
Visible(t) ==
    UNION {{r \in s.rows : \A k \in TombstonesFor(t, s) : r \notin k.kills}
             : s \in t.segments}

\* How many times it returns each row.
Copies(t) ==
    [r \in Rows |-> Cardinality({s \in t.segments :
        r \in s.rows /\ \A k \in TombstonesFor(t, s) : r \notin k.kills})]

References(m, id) ==
    \/ \E t \in m.tables  : id \in SegIds(t.segments)
    \/ \E r \in m.retired : id \in SegIds(r.entry.segments)
    \/ \E j \in m.jobs    : id \in SegIds(j.target.segments)

GarbageIds(m) == {g.id : g \in m.garbage}

HasTable(m, n) == \E t \in m.tables : t.name = n
JobRunning(m, t) == \E j \in m.jobs : j.source = t.id

\* A segment as a table with this schema sees it.  A file column stays
\* readable only while every definition it passed through had the field.
ProjectOnto(seg, schema) ==
    [id |-> seg.id, seq |-> seg.seq, rows |-> seg.rows, field_ids |-> Fids(schema),
     file |-> {f \in seg.file : f.fid \in seg.field_ids}]

Replace(m, t, u) == [m EXCEPT !.tables = (@ \ {t}) \union {u}]

\* Mutant: no reference count.
ReleaseUncounted(m, segs, version) ==
    [m EXCEPT !.garbage =
        @ \union {[id |-> i, removed_at_version |-> version] : i \in SegIds(segs)}]

\* Moves to garbage each segment that nothing references any more.
Release(m, segs, version) ==
    LET gone == {i \in SegIds(segs) : ~References(m, i) /\ i \notin GarbageIds(m)}
    IN  [m EXCEPT !.garbage =
            @ \union {[id |-> i, removed_at_version |-> version] : i \in gone}]

\* Mutant: the greatest id instead of the one after it.
BumpSegmentIdShort(next, segs) == Max({next} \union SegIds(segs))

\* next_segment_id after a commit that adds segments.
BumpSegmentId(next, segs) == Max({next} \union {s.id + 1 : s \in segs})

-----------------------------------------------------------------------------
(* CREATE TABLE and segment edits.                                         *)

\* columns is the column list of the statement; the table is ordered by its first.
NewEntry(id, n, columns) ==
    [id |-> id, name |-> n,
     schema |-> {[col |-> columns[i], fid |-> i, birth |-> id] : i \in 1 .. Len(columns)},
     next_field_id |-> Len(columns) + 1,
     order_by |-> 1,
     segments |-> {}, tombstones |-> {}]

CanCreateTable(m, n) == ~HasTable(m, n)
CreateTable(m, n, columns) ==
    [m EXCEPT !.tables = @ \union {NewEntry(m.next_table_id, n, columns)},
              !.next_table_id = @ + 1]

CanAddSegments(t, segs) == \A s \in segs : s.field_ids = Fids(t.schema)
AddSegments(m, t, segs) ==
    LET u == [t EXCEPT !.segments = @ \union segs]
    IN  [Replace(m, t, u) EXCEPT
            !.next_segment_id = BumpSegmentId(@, u.segments)]

\* Mutant: a running job does not stop a compaction.
CanRemoveSegmentsAnyway(m, t, ids) == ids \subseteq SegIds(t.segments)

CanRemoveSegments(m, t, ids) ==
    /\ ~JobRunning(m, t)
    /\ ids \subseteq SegIds(t.segments)

\* Mutant: a merge's inputs stay in the table.
RemoveSegmentsLater(m, t, ids) == m

RemoveSegments(m, t, ids) ==
    LET gone == {s \in t.segments : s.id \in ids}
    IN  Release(Replace(m, t, [t EXCEPT !.segments = @ \ gone]), gone, m.version + 1)

Emptied(t) == [t EXCEPT !.segments = {}, !.tombstones = {}]
CanTruncateTable(m, t) == ~JobRunning(m, t)
TruncateTable(m, t) ==
    Release(Replace(m, t, Emptied(t)), t.segments, m.version + 1)

\* Mutant: a running job is not asked.
CanAddTombstoneAnyway(m, t, c) == c \in Cols(t.schema)

\* kills is the set of rows the predicate on column c matches.  A running job
\* must be able to carry the tombstone over its swap.
CanAddTombstone(m, t, c) ==
    \E f \in t.schema :
        /\ f.col = c
        /\ \A j \in m.jobs : j.source = t.id => f.fid \in Fids(j.target.schema)
AddTombstone(m, t, c, kills) ==
    LET f == CHOOSE f \in t.schema : f.col = c
    IN  Replace(m, t, [t EXCEPT !.tombstones = @ \union
            {[seq |-> m.version + 1, col |-> c, fid |-> f.fid, birth |-> f.birth,
              kills |-> kills]}])

ForgetGarbage(m, ids) ==
    [m EXCEPT !.garbage = {g \in @ : g.id \notin ids}]

-----------------------------------------------------------------------------
(* ALTER TABLE: the target definition.  A clause is                        *)
(* [op |-> "add" | "drop" | "order_by", col |-> c] or                      *)
(* [op |-> "rename", col |-> c, to |-> d].                                 *)

CanAlter(source, target, a) ==
    CASE a.op = "add"      -> a.col \notin Cols(target.schema)
      [] a.op = "order_by" -> a.col \in Cols(target.schema)
      [] a.op = "rename"   -> /\ a.col \in Cols(target.schema)
                              /\ a.to \notin Cols(target.schema)
      [] a.op = "drop"     ->
            \E f \in target.schema :
                /\ f.col = a.col
                /\ f.fid # target.order_by
                /\ \A k \in source.tombstones :
                      k.col # IF f.fid \in Fids(source.schema)
                                THEN (CHOOSE g \in source.schema : g.fid = f.fid).col
                                ELSE a.col

ApplyAlter(target, a) ==
    CASE a.op = "add" ->
            [target EXCEPT !.schema = @ \union
                 {[col |-> a.col, fid |-> target.next_field_id, birth |-> target.id]},
                           !.next_field_id = @ + 1]
      [] a.op = "drop" ->
            [target EXCEPT !.schema = {f \in @ : f.col # a.col}]
      [] a.op = "rename" ->
            [target EXCEPT !.schema =
                 {IF f.col = a.col THEN [f EXCEPT !.col = a.to] ELSE f : f \in @}]
      [] a.op = "order_by" ->
            [target EXCEPT !.order_by = (CHOOSE f \in target.schema : f.col = a.col).fid]

\* plan[i] is the definition after the first i clauses.
PlanAlter(source, id, ops) ==
    LET plan[i \in 0 .. Len(ops)] ==
          IF i = 0 THEN [id |-> id, schema |-> source.schema, order_by |-> source.order_by,
                         next_field_id |-> source.next_field_id]
                   ELSE ApplyAlter(plan[i - 1], ops[i])
    IN  plan

RewritesSegments(source, target) == source.order_by # target.order_by

CanCreateJob(m, t, ops) ==
    /\ ~JobRunning(m, t)
    /\ ops # <<>>
    /\ LET plan == PlanAlter(t, m.next_table_id, ops)
       IN  /\ \A i \in 1 .. Len(ops) : CanAlter(t, plan[i - 1], ops[i])
           /\ plan[Len(ops)].schema # {}
NewJob(m, t, ops) ==
    LET plan == PlanAlter(t, m.next_table_id, ops)[Len(ops)]
    IN  [id |-> m.next_job_id, source |-> t.id, handled |-> {},
         target |-> [id |-> m.next_table_id, name |-> t.name, schema |-> plan.schema,
                     next_field_id |-> plan.next_field_id, order_by |-> plan.order_by,
                     segments |-> {}, tombstones |-> {}]]
CreateJob(m, t, ops) ==
    [m EXCEPT !.jobs = @ \union {NewJob(m, t, ops)},
              !.next_job_id = @ + 1,
              !.next_table_id = @ + 1]

-----------------------------------------------------------------------------
(* Jobs: t is the live table whose id is the job's source.                 *)

Gap(t, j) == {s \in t.segments : s.id \notin j.handled}

\* Mutant: a segment already handled may be carried again.
CanAdvanceJobAgain(t, j, reused, rewritten, segs) ==
    reused \union rewritten \subseteq SegIds(t.segments)

\* reused and rewritten are ids of source segments; segs the rewritten files.
CanAdvanceJob(t, j, reused, rewritten, segs) ==
    /\ reused \union rewritten \subseteq SegIds(t.segments) \ j.handled
    /\ \A s \in segs : s.field_ids = Fids(j.target.schema)
Carried(t, j, ids) ==
    {ProjectOnto(s, j.target.schema) : s \in {s \in t.segments : s.id \in ids}}
Advanced(t, j, reused, rewritten, segs) ==
    [j EXCEPT !.target = [j.target EXCEPT
                             !.segments = @ \union Carried(t, j, reused) \union segs],
              !.handled = @ \union reused \union rewritten]
AdvanceJob(m, t, j, reused, rewritten, segs) ==
    LET k == Advanced(t, j, reused, rewritten, segs)
    IN  [m EXCEPT !.jobs = (@ \ {j}) \union {k},
                  !.next_segment_id = BumpSegmentId(@, k.target.segments)]

\* Tombstones follow their column, by field id, from one schema to another.
FieldNamed(schema, c) == CHOOSE f \in schema : f.col = c
CanRename(tombstones, from, to) ==
    \A k \in tombstones : /\ k.col \in Cols(from)
                          /\ FieldNamed(from, k.col).fid \in Fids(to)
\* Mutant: tombstones keep their column names.
KeepTombstones(tombstones, from, to) == tombstones

RenameTombstones(tombstones, from, to) ==
    {[k EXCEPT !.col = (CHOOSE g \in to : g.fid = FieldNamed(from, k.col).fid).col]
       : k \in tombstones}

\* A definition kept for UNDROP or REVERT.
Retire(m, t, reason, successors) ==
    [entry |-> t, reason |-> reason, version |-> m.version + 1,
     successor_segments |-> successors]

CanSwapJob(t, j) ==
    /\ SegIds(t.segments) \subseteq j.handled
    /\ CanRename(t.tombstones, t.schema, j.target.schema)
SwapJob(m, t, j) ==
    LET target == [j.target EXCEPT
            !.tombstones = RenameTombstones(t.tombstones, t.schema, j.target.schema)]
    IN  [m EXCEPT !.tables = (@ \ {t}) \union {target},
                  !.jobs = @ \ {j},
                  !.retired = @ \union {Retire(m, t, "swapped", SegIds(target.segments))}]

\* Mutant: the segments a cancelled job wrote are not released.
CancelJobOnly(m, j) == [m EXCEPT !.jobs = @ \ {j}]

CancelJob(m, j) ==
    Release([m EXCEPT !.jobs = @ \ {j}], j.target.segments, m.version + 1)

-----------------------------------------------------------------------------
(* Retired definitions: DROP, UNDROP, REVERT and their expiry.  Versions   *)
(* are unique among retired entries, and the last one pushed has the       *)
(* greatest.                                                               *)

LastRetired(m, r, reason) ==
    /\ r.reason = reason
    /\ \A q \in m.retired :
         (q.reason = reason /\ q.entry.name = r.entry.name) => q.version <= r.version

CanDropTable(m, t) == ~JobRunning(m, t)
DropTable(m, t) ==
    [m EXCEPT !.tables = @ \ {t},
              !.retired = @ \union {Retire(m, t, "dropped", {})}]

\* Mutant: a live table of the name is not looked for.
CanUndropTableOver(m, r) == LastRetired(m, r, "dropped")

CanUndropTable(m, r) ==
    /\ LastRetired(m, r, "dropped")
    /\ ~HasTable(m, r.entry.name)
UndropTable(m, r) ==
    [m EXCEPT !.tables = @ \union {r.entry}, !.retired = @ \ {r}]

\* r is the retired definition restored, cur the live table it replaces.
CanRevertTable(m, r, cur) ==
    /\ LastRetired(m, r, "swapped")
    /\ cur.name = r.entry.name
    /\ ~JobRunning(m, cur)
    /\ r.successor_segments \subseteq SegIds(cur.segments)
    /\ CanRename({k \in cur.tombstones : k.seq > r.version}, cur.schema, r.entry.schema)
Since(r, cur) == {s \in cur.segments : s.id \notin r.successor_segments}
\* Mutant: what was written since the swap is not carried back.
RestoredOnly(r, cur) ==
    LET e == r.entry
        later == {k \in cur.tombstones : k.seq > r.version}
    IN  [e EXCEPT
            !.next_field_id = Max({@, cur.next_field_id}),
            !.tombstones = @ \union RenameTombstones(later, cur.schema, e.schema)]

Restored(r, cur) ==
    LET e == r.entry
        later == {k \in cur.tombstones : k.seq > r.version}
    IN  [id |-> e.id, name |-> e.name, schema |-> e.schema, order_by |-> e.order_by,
         next_field_id |-> IF cur.next_field_id > e.next_field_id
                             THEN cur.next_field_id ELSE e.next_field_id,
         segments |-> e.segments \union {ProjectOnto(s, e.schema) : s \in Since(r, cur)},
         tombstones |-> e.tombstones \union RenameTombstones(later, cur.schema, e.schema)]
RevertTable(m, r, cur) ==
    [m EXCEPT !.tables = (@ \ {cur}) \union {Restored(r, cur)},
              !.retired = (@ \ {r}) \union {Retire(m, cur, "reverted", {})}]

\* Mutant: the segments of an expired definition are not released.
ExpireRetiredOnly(m, expired) == [m EXCEPT !.retired = @ \ expired]

ExpireRetired(m, expired) ==
    Release([m EXCEPT !.retired = @ \ expired],
            UNION {r.entry.segments : r \in expired}, m.version + 1)

\* Commit::apply: the edits' result becomes the next version.
NextVersion(m) == [m EXCEPT !.version = @ + 1]
=============================================================================
