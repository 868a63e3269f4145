----------------------------- MODULE TableStore -----------------------------
(***************************************************************************)
(* The store as its callers drive it: writers filling the buffer, the      *)
(* flusher, compactions, migration jobs and the table lifecycle, each of   *)
(* which prepares its work against a manifest it read earlier and commits  *)
(* it later (src/src/storage/{mod,flush,compact,migrate}.rs).  A commit is *)
(* one atomic step here; WritePath opens it up.                            *)
(***************************************************************************)
EXTENDS Manifest

CONSTANTS
    ColumnLists,      \* the column lists a CREATE TABLE may have
    Workers,          \* threads running compactions and job steps
    Predicates,       \* the row sets a DELETE may match
    AlterOps,         \* the clause lists an ALTER TABLE may have
    Ops,              \* the optional operations clients use
    CompactMinInputs, \* StoreOptions::compact_min_inputs
    JobStepSegments,  \* StoreOptions::job_step_segments
    JobSwapGap,       \* StoreOptions::job_swap_gap
    MaxVersion,       \* bound on the number of commits
    MaxTombstones,    \* bound on the tombstones of one table
    MaxId             \* bound on the segment ids handed out

ASSUME StoreAssumption ==
    /\ CompactMinInputs \in Nat \ {0}
    /\ JobStepSegments \in Nat \ {0}
    /\ JobSwapGap \in Nat
    /\ MaxVersion \in Nat
    /\ MaxTombstones \in Nat
    /\ MaxId \in Nat

\* A predicate matches rows; TableSpec::validate refuses a list that names a column
\* twice; ALTER TABLE has these clauses.
ASSUME StatementAssumption ==
    /\ Predicates \subseteq SUBSET Rows
    /\ \A columns \in ColumnLists :
         /\ Len(columns) \in Nat
         /\ \A i, k \in 1 .. Len(columns) : columns[i] = columns[k] => i = k
    /\ \A ops \in AlterOps :
         /\ Len(ops) \in Nat
         /\ \A i \in 1 .. Len(ops) : ops[i].op \in {"add", "drop", "rename", "order_by"}

VARIABLES
    manifest,   \* State::current
    next_id,    \* Shared::next_id, the segment id allocator
    pending,    \* State::pending: batches [table, row, cols]
    in_flight,  \* State::in_flight
    flushing,   \* the segments the flusher has written: [table, seg], or none
    work,       \* what each worker has prepared
    committed,  \* every row a flush has published (not in the code)
    asked       \* what the last step was asked to change (not in the code)

vars == <<manifest, next_id, pending, in_flight, flushing, work, committed, asked>>

Idle == {}
NoWork == [kind |-> "none"]
\* The step serves no statement that changes what a reader sees, and no expiry.
Unasked == [op |-> "none"]

\* A batch names its columns; birth is the column the client meant.
BatchCols(schema) == {[col |-> f.col, birth |-> f.birth] : f \in schema}
Buffered == {b.row : b \in pending \union in_flight}
\* Mutant: no one waits for the buffer.
BufferIgnored(buf, n) == FALSE

BufferHolds(buf, n) == \E b \in buf : b.table = n

\* Mutant: columns are matched by name.
ProjectBatchByName(b, from, to) ==
    [b EXCEPT !.cols =
        {[col |-> g.col,
          birth |-> IF \E c \in b.cols : c.col = g.col
                      THEN (CHOOSE c \in b.cols : c.col = g.col).birth
                      ELSE g.birth] : g \in to}]

\* read::project_batch: columns are matched by field id, the rest are NULL.
ProjectBatch(b, from, to) ==
    [b EXCEPT !.cols =
        {[col |-> g.col,
          birth |-> IF g.fid \in Fids(from)
                      THEN LET f == CHOOSE f \in from : f.fid = g.fid
                           IN  (CHOOSE c \in b.cols : c.col = f.col).birth
                      ELSE g.birth] : g \in to}]
ProjectPending(n, from, to) ==
    {IF b.table = n THEN ProjectBatch(b, from, to) ELSE b : b \in pending}

\* The file a table's batches are encoded into: the column named c goes under
\* the field id the schema gives c.
FileOf(schema, batches) ==
    LET held == {p \in schema \X UNION {b.cols : b \in batches} : p[1].col = p[2].col}
    IN  {[fid |-> p[1].fid, birth |-> p[2].birth] : p \in held}

\* The file a merge writes: each input is read onto the schema by field id,
\* and what an input lacks is NULL.
MergedFile(schema, inputs) ==
    {[fid |-> f.fid, birth |-> f.birth] : f \in schema} \union
    {c \in UNION {{d \in s.file : d.fid \in s.field_ids} : s \in inputs}
       : c.fid \in Fids(schema)}

-----------------------------------------------------------------------------
Init ==
    /\ manifest = EmptyManifest
    /\ next_id = EmptyManifest.next_segment_id
    /\ pending = {}
    /\ in_flight = {}
    /\ flushing = Idle
    /\ work = [w \in Workers |-> NoWork]
    /\ committed = {}
    /\ asked = Unasked

CommitTo(m) ==
    /\ manifest.version < MaxVersion
    /\ manifest' = NextVersion(m)

buffer == <<pending, in_flight, flushing, committed>>

-----------------------------------------------------------------------------
(* Tables and writes.                                                      *)

Create(n, columns) ==
    /\ CanCreateTable(manifest, n)
    /\ CommitTo(CreateTable(manifest, n, columns))
    /\ asked' = [op |-> "create", table |-> n]
    /\ UNCHANGED <<next_id, buffer, work>>

\* write_many up to the wait on its ticket.  A row that was lost before it was
\* published may be written again.
Write(n, r) ==
    /\ r \notin committed \union Buffered
    /\ \E t \in manifest.tables :
         /\ t.name = n
         /\ pending' = pending \union {[table |-> n, row |-> r, cols |-> BatchCols(t.schema)]}
    /\ asked' = Unasked
    /\ UNCHANGED <<manifest, next_id, in_flight, flushing, work, committed>>

\* delete() after its flush: other writers may have buffered rows since.
Delete(n, c, kills) ==
    /\ \E t \in manifest.tables :
         /\ t.name = n
         /\ Cardinality(t.tombstones) < MaxTombstones
         /\ CanAddTombstone(manifest, t, c)
         /\ CommitTo(AddTombstone(manifest, t, c, kills))
    /\ asked' = [op |-> "delete", table |-> n, rows |-> kills]
    /\ UNCHANGED <<next_id, buffer, work>>

Truncate(n) ==
    /\ "truncate" \in Ops
    /\ \E t \in manifest.tables :
         /\ t.name = n
         /\ CanTruncateTable(manifest, t)
         /\ CommitTo(TruncateTable(manifest, t))
    /\ asked' = [op |-> "truncate", table |-> n]
    /\ UNCHANGED <<next_id, buffer, work>>

-----------------------------------------------------------------------------
(* The flusher.                                                            *)

FlushTake ==
    /\ in_flight = {}
    /\ pending # {}
    /\ in_flight' = pending
    /\ pending' = {}
    /\ asked' = Unasked
    /\ UNCHANGED <<manifest, next_id, flushing, work, committed>>

\* One segment per table, written against the manifest read now.  seq is fixed
\* at the commit.
FlushedSegment(t, id) ==
    LET batches == {b \in in_flight : b.table = t.name}
    IN  [id |-> id, seq |-> 0, rows |-> {b.row : b \in batches},
         field_ids |-> Fids(t.schema), file |-> FileOf(t.schema, batches)]

FlushWrite ==
    /\ in_flight # {}
    /\ flushing = Idle
    /\ LET names == {b.table : b \in in_flight}
       IN  /\ \A n \in names : HasTable(manifest, n)
           /\ \E next \in next_id + 1 .. MaxId + 1 :
              \E id \in [names -> next_id .. next - 1] :
                /\ {id[n] : n \in names} = next_id .. next - 1
                /\ \A m, n \in names : id[m] = id[n] => m = n
                /\ flushing' = {[table |-> t.name, seg |-> FlushedSegment(t, id[t.name])]
                                  : t \in {t \in manifest.tables : t.name \in names}}
                /\ next_id' = next
    /\ asked' = Unasked
    /\ UNCHANGED <<manifest, pending, in_flight, work, committed>>

\* The commit of AddSegments, one edit per table.
FlushedInto(t) ==
    {[p.seg EXCEPT !.seq = manifest.version + 1] : p \in {p \in flushing : p.table = t.name}}
Grown(t) == [t EXCEPT !.segments = @ \union FlushedInto(t)]
AddFlushed ==
    [manifest EXCEPT
        !.tables = {Grown(t) : t \in @},
        !.next_segment_id = BumpSegmentId(@, UNION {FlushedInto(t) : t \in manifest.tables})]
FlushCommit ==
    /\ flushing # Idle
    /\ \A p \in flushing : \E t \in manifest.tables :
         t.name = p.table /\ CanAddSegments(t, {p.seg})
    /\ CommitTo(AddFlushed)
    /\ committed' = committed \union {b.row : b \in in_flight}
    /\ in_flight' = {}
    /\ flushing' = Idle
    /\ asked' = Unasked
    /\ UNCHANGED <<next_id, pending, work>>

\* An error anywhere in the flush (I/O, or an edit refused): the batches are
\* dropped and their writers are told.
FlushFail ==
    /\ in_flight # {}
    /\ in_flight' = {}
    /\ flushing' = Idle
    /\ asked' = Unasked
    /\ UNCHANGED <<manifest, next_id, pending, work, committed>>

-----------------------------------------------------------------------------
(* Compaction: prepare reads and re-encodes, commit swaps inputs for       *)
(* outputs and fails if the inputs are no longer there.                    *)

\* validate_merge, the rule no plan can skip.
Straddles(t, inputs) ==
    \E k \in t.tombstones, s, u \in inputs : s.seq < k.seq /\ k.seq <= u.seq

MergedSegment(t, inputs, id) ==
    [id |-> id, seq |-> Max({s.seq : s \in inputs}), rows |-> RowsOf(inputs),
     field_ids |-> Fids(t.schema), file |-> MergedFile(t.schema, inputs)]

\* compact() looks for a running job before prepare reads the manifest; a job
\* created between the two reads passes, so its absence is no guard here.  Any
\* inputs the rule allows may be planned.
CompactPrepare(w, n) ==
    /\ "compact" \in Ops
    /\ work[w] = NoWork
    /\ next_id <= MaxId
    /\ \E t \in manifest.tables :
         /\ t.name = n
         /\ \E inputs \in SUBSET t.segments :
              /\ Cardinality(inputs) >= CompactMinInputs
              /\ ~Straddles(t, inputs)
              /\ work' = [work EXCEPT ![w] =
                   [kind |-> "merge", table |-> n, removes |-> SegIds(inputs),
                    adds |-> {MergedSegment(t, inputs, next_id)}]]
    /\ next_id' = next_id + 1
    /\ asked' = Unasked
    /\ UNCHANGED <<manifest, buffer>>

CompactCommit(w) ==
    /\ work[w].kind = "merge"
    /\ \E t \in manifest.tables :
         /\ t.name = work[w].table
         /\ CanRemoveSegments(manifest, t, work[w].removes)
         /\ LET m == RemoveSegments(manifest, t, work[w].removes)
                u == CHOOSE u \in m.tables : u.id = t.id
            IN  /\ CanAddSegments(u, work[w].adds)
                /\ CommitTo(AddSegments(m, u, work[w].adds))
    /\ work' = [work EXCEPT ![w] = NoWork]
    /\ asked' = Unasked
    /\ UNCHANGED <<next_id, buffer>>

\* A refused commit or an I/O error: what was prepared is left as orphans.
Abandon(w) ==
    /\ work[w] # NoWork
    /\ work' = [work EXCEPT ![w] = NoWork]
    /\ asked' = Unasked
    /\ UNCHANGED <<manifest, next_id, buffer>>

-----------------------------------------------------------------------------
(* Migration jobs.                                                         *)

Alter(n, ops) ==
    /\ \E t \in manifest.tables :
         /\ t.name = n
         /\ CanCreateJob(manifest, t, ops)
         /\ CommitTo(CreateJob(manifest, t, ops))
    /\ asked' = Unasked
    /\ UNCHANGED <<next_id, buffer, work>>

\* Source segments are kept sorted by (seq, id).
Before(s, u) == s.seq < u.seq \/ (s.seq = u.seq /\ s.id < u.id)
\* The part of the gap one step carries.
Chosen(gap) ==
    IF Cardinality(gap) > JobSwapGap
      THEN {s \in gap : Cardinality({u \in gap : Before(u, s)}) < JobStepSegments}
      ELSE gap

RewrittenSegment(s, schema, id) ==
    [id |-> id, seq |-> s.seq, rows |-> s.rows,
     field_ids |-> Fids(schema), file |-> MergedFile(schema, {s})]

\* load_job and, when the job rewrites, rewrite_segments.  A reused segment is
\* carried by a step only while the gap is above JobSwapGap.
JobPrepare(w, j) ==
    /\ work[w] = NoWork
    /\ \E t \in manifest.tables :
         /\ t.id = j.source
         /\ LET gap == Gap(t, j)
                chosen == Chosen(gap)
            IN  \/ /\ RewritesSegments(t, j.target)
                   /\ gap # {}
                   /\ \E next \in next_id + 1 .. MaxId + 1 :
                      \E id \in [chosen -> next_id .. next - 1] :
                        /\ {id[s] : s \in chosen} = next_id .. next - 1
                        /\ \A s, u \in chosen : id[s] = id[u] => s = u
                        /\ work' = [work EXCEPT ![w] =
                             [kind |-> "advance", job |-> j.id, reused |-> {},
                              rewritten |-> SegIds(chosen),
                              segments |-> {RewrittenSegment(s, j.target.schema, id[s])
                                              : s \in chosen}]]
                        /\ next_id' = next
                \/ /\ ~RewritesSegments(t, j.target)
                   /\ Cardinality(gap) > JobSwapGap
                   /\ work' = [work EXCEPT ![w] =
                        [kind |-> "advance", job |-> j.id, reused |-> SegIds(chosen),
                         rewritten |-> {}, segments |-> {}]]
                   /\ UNCHANGED next_id
    /\ asked' = Unasked
    /\ UNCHANGED <<manifest, buffer>>

JobAdvance(w) ==
    /\ work[w].kind = "advance"
    /\ \E j \in manifest.jobs, t \in manifest.tables :
         /\ j.id = work[w].job
         /\ t.id = j.source
         /\ CanAdvanceJob(t, j, work[w].reused, work[w].rewritten, work[w].segments)
         /\ CommitTo(AdvanceJob(manifest, t, j, work[w].reused, work[w].rewritten,
                                work[w].segments))
    /\ work' = [work EXCEPT ![w] = NoWork]
    /\ asked' = Unasked
    /\ UNCHANGED <<next_id, buffer>>

\* The swap's commit_holding_state: it backs off while a flush holds batches of
\* the table or segments are left to rewrite, carries a reusable gap in the same
\* commit, and projects the buffered batches.
JobSwap(j) ==
    /\ \E t \in manifest.tables :
         /\ t.id = j.source
         /\ ~BufferHolds(in_flight, t.name)
         /\ LET gap == Gap(t, j)
                m == AdvanceJob(manifest, t, j, SegIds(gap), {}, {})
                k == CHOOSE k \in m.jobs : k.id = j.id
            IN  /\ gap # {} => ~RewritesSegments(t, j.target)
                /\ CanSwapJob(t, k)
                /\ CommitTo(SwapJob(m, t, k))
         /\ pending' = ProjectPending(t.name, t.schema, j.target.schema)
    /\ asked' = Unasked
    /\ UNCHANGED <<next_id, in_flight, flushing, work, committed>>

Cancel(j) ==
    /\ "cancel" \in Ops
    /\ CommitTo(CancelJob(manifest, j))
    /\ asked' = Unasked
    /\ UNCHANGED <<next_id, buffer, work>>

-----------------------------------------------------------------------------
(* Retired definitions.                                                    *)

Revert(n) ==
    /\ "revert" \in Ops
    /\ ~BufferHolds(in_flight, n)
    /\ \E cur \in manifest.tables, r \in manifest.retired :
         /\ cur.name = n
         /\ CanRevertTable(manifest, r, cur)
         /\ CommitTo(RevertTable(manifest, r, cur))
         /\ pending' = ProjectPending(n, cur.schema, r.entry.schema)
    /\ asked' = Unasked
    /\ UNCHANGED <<next_id, in_flight, flushing, work, committed>>

Drop(n) ==
    /\ "drop" \in Ops
    /\ ~BufferHolds(in_flight \union pending, n)
    /\ \E t \in manifest.tables :
         /\ t.name = n
         /\ CanDropTable(manifest, t)
         /\ CommitTo(DropTable(manifest, t))
    /\ asked' = [op |-> "drop", table |-> n]
    /\ UNCHANGED <<next_id, buffer, work>>

Undrop(n) ==
    /\ "undrop" \in Ops
    /\ \E r \in manifest.retired :
         /\ r.entry.name = n
         /\ CanUndropTable(manifest, r)
         /\ CommitTo(UndropTable(manifest, r))
    /\ asked' = [op |-> "undrop", table |-> n]
    /\ UNCHANGED <<next_id, buffer, work>>

\* gc's first commit.  Ages come from the wall clock, so any entries may be old.
Expire(expired) ==
    /\ "expire" \in Ops
    /\ expired # {}
    /\ CommitTo(ExpireRetired(manifest, expired))
    /\ asked' = [op |-> "expire",
                  dropped |-> {r.version : r \in {r \in expired : r.reason = "dropped"}}]
    /\ UNCHANGED <<next_id, buffer, work>>

\* gc's last commit, once the files are gone.
Forget(ids) ==
    /\ "gc" \in Ops
    /\ ids # {}
    /\ CommitTo(ForgetGarbage(manifest, ids))
    /\ asked' = Unasked
    /\ UNCHANGED <<next_id, buffer, work>>

-----------------------------------------------------------------------------
\* The process dies and the store is opened again.
Reopen ==
    /\ "reopen" \in Ops
    /\ next_id' = manifest.next_segment_id
    /\ pending' = {}
    /\ in_flight' = {}
    /\ flushing' = Idle
    /\ work' = [w \in Workers |-> NoWork]
    /\ asked' = Unasked
    /\ UNCHANGED <<manifest, committed>>

Next ==
    \/ \E n \in Names :
         \/ \E columns \in ColumnLists : Create(n, columns)
         \/ Truncate(n) \/ Revert(n) \/ Drop(n) \/ Undrop(n)
         \/ \E r \in Rows : Write(n, r)
         \/ \E t \in manifest.tables, kills \in Predicates :
              \E f \in t.schema : Delete(n, f.col, kills)
         \/ \E ops \in AlterOps : Alter(n, ops)
         \/ \E w \in Workers : CompactPrepare(w, n)
    \/ FlushTake \/ FlushWrite \/ FlushCommit \/ FlushFail
    \/ \E w \in Workers : CompactCommit(w) \/ JobAdvance(w) \/ Abandon(w)
    \/ \E j \in manifest.jobs :
         \/ JobSwap(j) \/ Cancel(j)
         \/ \E w \in Workers : JobPrepare(w, j)
    \/ \E expired \in SUBSET manifest.retired : Expire(expired)
    \/ \E ids \in SUBSET GarbageIds(manifest) : Forget(ids)
    \/ Reopen

Spec == Init /\ [][Next]_vars

-----------------------------------------------------------------------------
(* Properties.                                                             *)

SegmentsIn(m) ==
    UNION ({t.segments : t \in m.tables} \union {r.entry.segments : r \in m.retired}
           \union {j.target.segments : j \in m.jobs})
Entries(m) ==
    m.tables \union {r.entry : r \in m.retired} \union {j.target : j \in m.jobs}

\* The shapes of the state: ids are handed out below their counters, names,
\* table ids and job ids are unique.
TypeOK ==
    /\ IsManifest(manifest)
    /\ manifest.version \in 0 .. MaxVersion
    /\ next_id \in 0 .. MaxId + 1
    /\ manifest.next_segment_id \in 0 .. next_id
    /\ \A t, u \in manifest.tables : (t.name = u.name \/ t.id = u.id) => t = u
    /\ \A i, j \in manifest.jobs : (i.id = j.id \/ i.source = j.source) => i = j
    /\ \A b \in pending \union in_flight : b.table \in Names /\ b.row \in Rows
    /\ committed \subseteq Rows

\* Reference counting (Manifest::references_segment, release): nothing a live
\* table, a retired definition or a job target lists is on the garbage list, so
\* gc never deletes a file that UNDROP, REVERT or a swap can bring back.
GarbageUnreferenced == \A id \in GarbageIds(manifest) : ~References(manifest, id)

\* No file leaks: a segment that stops being referenced is on the garbage list
\* of the same commit (release), so some later gc deletes it.
NoSegmentLeaks ==
    [][\A s \in SegmentsIn(manifest) :
          References(manifest', s.id) \/ s.id \in GarbageIds(manifest')]_vars

\* Segment ids (Shared::next_id): one being prepared is in no manifest, and no
\* two preparations hold the same one, whatever order they commit in and
\* whatever ids a crash left unused.
FlushIds == {p.seg.id : p \in flushing}
WorkSegs(x) ==
    CASE x.kind = "merge"   -> x.adds
      [] x.kind = "advance" -> x.segments
      [] OTHER              -> {}
WorkIds(w) == SegIds(WorkSegs(work[w]))
Used(m) == SegIds(SegmentsIn(m)) \union GarbageIds(m)
FreshIds ==
    /\ \A i \in Used(manifest) : i < manifest.next_segment_id
    /\ FlushIds \intersect Used(manifest) = {}
    /\ \A w \in Workers :
          /\ WorkIds(w) \intersect (Used(manifest) \union FlushIds) = {}
          /\ \A v \in Workers : WorkIds(v) \intersect WorkIds(w) # {} => v = w

\* A row is stored once: no two segments of one table definition hold the same
\* row, whatever compactions, jobs, swaps and reverts carried (remove_segments'
\* JobRunning check, advance_job's handled check, the revert's successor test),
\* and a buffered row is in no segment yet.
RowsOnce ==
    /\ \A e \in Entries(manifest) : \A s, u \in e.segments :
          s.rows \intersect u.rows # {} => s = u
    /\ \A e \in manifest.tables : RowsOf(e.segments) \intersect Buffered = {}
    /\ \A b, c \in pending \union in_flight : b.row = c.row => b = c

SeqRows(segs) == UNION {{<<s.seq, r>> : r \in s.rows} : s \in segs}

\* A job has carried exactly the rows of the source segments it handled, at the
\* seqs they had, and those segments are all still the source's (SPEC 19).
JobCarriesHandled ==
    \A j \in manifest.jobs : \E t \in manifest.tables :
        /\ t.id = j.source
        /\ j.handled \subseteq SegIds(t.segments)
        /\ SeqRows(j.target.segments) = SeqRows({s \in t.segments : s.id \in j.handled})

\* A job can always swap once it has caught up: every tombstone of its source
\* names a column the target still has (plan_alter's ColumnInTombstone rule and
\* add_tombstone's JobRunning rule together).
SwapNeverWedged ==
    \A j \in manifest.jobs, t \in manifest.tables :
        t.id = j.source => CanRename(t.tombstones, t.schema, j.target.schema)

\* A delete keeps applying to the column it named through renames, drops and
\* re-adds of the name, swaps and reverts.
TombstoneFollowsColumn ==
    \A t \in manifest.tables : \A k \in t.tombstones :
        \E f \in t.schema : f.col = k.col /\ f.fid = k.fid /\ f.birth = k.birth

\* "A column dropped and re-added under the same name is a new column whose data
\* never mixes with the old one's" (SPEC.md 3): what a segment's file holds for
\* a field the table reads was written for that very column.
ColumnsNeverMix ==
    \A t \in manifest.tables : \A s \in t.segments : \A c \in s.file : \A f \in t.schema :
        (c.fid = f.fid /\ c.fid \in s.field_ids) => c.birth = f.birth

\* A flush is never refused: while batches of a table are buffered the table is
\* there with the columns they were checked against, and what the flusher has
\* written still fits (the back-off of swap, revert and drop).
FlushAccepted ==
    /\ \A b \in pending \union in_flight : \E t \in manifest.tables :
          t.name = b.table /\ Cols(t.schema) = {c.col : c \in b.cols}
    /\ \A p \in flushing : \E t \in manifest.tables :
          t.name = p.table /\ CanAddSegments(t, {p.seg})

-----------------------------------------------------------------------------
(* What a reader of the published tables is promised.                      *)

LiveRows(m) ==
    [n \in {t.name : t \in m.tables} |-> Copies(CHOOSE t \in m.tables : t.name = n)]
DroppedRows(m) ==
    {[name |-> r.entry.name, rows |-> Copies(r.entry), at |-> r.version]
       : r \in {r \in m.retired : r.reason = "dropped"}}

Contents == INSTANCE TableContents WITH
    live <- LiveRows(manifest), dropped <- DroppedRows(manifest), inserted <- committed

\* A reader's rows change by what was asked and by nothing else: a flush adds its
\* rows, each once; DELETE takes away the rows it matches, TRUNCATE and DROP the
\* table's, UNDROP brings back what DROP took, gc's expiry ends an UNDROP; and
\* compactions, job steps, swaps, reverts, cancels, failed flushes, gc's deletes
\* and crashes neither lose, repeat nor bring back a row.
RefinesContents == Contents!Spec
=============================================================================
