# Adelie: a TLA+ model of the store, its files and its queries

Adelie is an embedded columnar database: one writer process owns a directory, rows
are buffered in memory, flushed into immutable segment files and published by
renaming a new manifest into place; any number of reader processes open the same
directory without talking to the writer. This directory holds TLA+ modules, the TLC
configurations that check them on small instances, and TLAPS proofs about the store, its
files and its queries that hold for every instance. There are two kinds of model. The
state machines are about what threads, processes, failures and crashes do to each
other: the storage layer (`src/src/storage`) and the execution of a query
(`src/src/exec`). The operators are about sequential code whose inputs are too many
to test: values and casts, columns and their encodings, segment files and skip
indexes, pruning, expressions, regular expressions, aggregates and joins, the
manifest file, table definitions and ALTER, the SQL lexer and parser, ingest and the
migration ledger; each is checked against a definition of what it is for.

Source paths below are relative to `src/src/storage` unless they start with `src/`.

## 1. The system

### Components, their state and their operations

| component | state it keeps | operations | what makes it correct |
|---|---|---|---|
| Manifest and commit (`manifest/{mod,commit,lifecycle}.rs`) | an immutable value per version: tables (schema with field ids, segments, tombstones), jobs, retired definitions, garbage, three id counters | a list of edits applied to a copy, all or nothing | a segment is garbage only when nothing lists it, and always then; ids are never reused; deletes follow their column |
| ALTER planner (`manifest/alter.rs`) | none | clause list -> target definition | the target can always take over the source's deletes |
| Buffer and tickets (`buffer.rs`, `mod.rs`) | `pending`, `in_flight`, the ticket of the flush to come and of the one under way | `write_many`, `flush`, `delete` | an acknowledged row is durable; a row is seen exactly once; every call returns |
| Flusher (`flush.rs`) | its thread's position | take the buffer, write and sync one segment per partition, commit, resolve the ticket | failure of any step wakes the callers and leaves no trace |
| Publisher (`manifest/publish.rs`) | `manifest`, `manifest.tmp`, the `manifest.<v>` links, `swept` | `publish`, `load`, `load_version`, `prune` | an open finds a whole manifest and every file it names |
| Compaction (`compact.rs`) | work prepared against an older manifest | `prepare`, `commit` | merges never lose, repeat or resurrect a row |
| Migration jobs (`migrate.rs`) | job entry in the manifest, work prepared outside the lock | `alter`, `step`, `swap`, `cancel` | the swap changes the schema and nothing a reader sees |
| Lifecycle (`mod.rs`, `manifest/commit.rs`) | retired definitions | CREATE, DROP, UNDROP, TRUNCATE, REVERT, expiry | what comes back is what went away |
| gc and orphan cleanup (`gc.rs`) | garbage list, views registered in `live` | expire, read, remove files, forget; cleanup at open | no file that somebody may still read is removed |
| Snapshots, views, readers (`mod.rs`, `manifest/snapshot.rs`) | the manifest held | `snapshot`, `view_at`, `Reader::snapshot` | a held view stays readable |
| Backup, lock (`backup.rs`, `lock.rs`) | a second store; a flock | hard-link copy; one writer | |
| Ledger (`ledger.rs`) | executed files, by number and checksum, in the manifest | apply a directory of migration files | each file runs in order, and again only when its record was lost |
| Scan, prune, read (`scan.rs`, `prune.rs`, `read.rs`) | none | segment selection and column realignment | pruning never loses a row |
| Engines (`engines/`) | none | merge planning, sorting | planned merges are ones `validate_merge` accepts |
| Segments (`segment/`) | files | write, read, rebuild an index | what is read is what was written, or an error |
| Encodings (`segment/encode/`) | none | encode, decode, choose | decode inverts encode, and refuses damage instead of reading past it |
| Skip indexes (`segment/index/`) | part of a file | build, probe | an index never excludes a row group with a match |
| Table specification (`manifest/spec.rs`), codec and backfill (`manifest/{codec,ids}.rs`) | none | validate; encode, decode, upgrade an older manifest | what is stored can be loaded, by this writer and from older ones |
| Types (`src/src/types`) | none | compare, coerce, format, parse, cast | one order, one equality, and nothing lost without an error |
| Columns, kernels, expressions (`src/src/exec/{column.rs,kernels,expr}`) | none | build, slice, evaluate | three-valued logic; errors, never wrong values; the type promised |
| Execution (`src/src/exec`) | per-query: budget, first error, sink partials | morsel scheduling, operators, aggregation, joins | the result does not depend on the interleaving |
| Aggregates (`src/src/exec/agg`) | a state per group | update, merge, encode, finish | the split over workers does not show |
| SQL front end (`src/src/sql`) | none | text -> statement -> plan, dispatch to the store | the tree is the one the grammar says; nesting is bounded |
| Ingest (`src/src/sql/ingest`) | a row being built | CSV, JSON, companion columns | a value that fits goes to its column, one that does not to its companion |

### How they interact

There are two locks. `commit` serialises commits; `state` guards `current`, the
buffer, the tickets and the registered views. They are taken in this order. An
ordinary commit takes `commit`, applies its edits to `current`, publishes without
`state`, and then takes `state` to install the new manifest and to clear
`in_flight` together. The swap of a job, REVERT and DROP use
`commit_holding_state`, which keeps `state` throughout, because they must look at
the buffer and at the manifest at once. Everything expensive (writing segments,
merging, rewriting for a job, deleting files) is done with no lock held, against a
manifest that was read earlier, and is validated again by the edit that commits it.
Writers block on a ticket that the flusher resolves. Readers in other processes
share only files with the writer.

A query runs against one View, on threads of its own: a plan is a chain of pipelines,
each a pool of scoped threads that claim morsels from an atomic counter and push them
into private sinks, which the calling thread merges after the join. The threads share
the counter, a stop flag, the slot of the first error and the memory budget.

### What is hard here

* stale preparation: flushes, compactions and job steps prepare against version v
  and commit onto version v + k, in any order, while jobs swap schemas;
* shared segments: a job that only changes the catalogue, a retired definition and
  the live table list the same file, and any of them may let go of it first;
* names and ids: tombstones name columns by name, files by field id, and ALTER may
  exchange names;
* the durability order of segment bytes, directory entries, `manifest.tmp`, the
  rename and the sync of the directory, with a failure or a crash between any two;
* gc against views registered between its two reads, versions retained by links,
  and readers nobody knows of;
* partial sinks: what a worker keeps, when it stops, what it gives back when it
  fails, and in which order partials come together decide the answer;
* the same question answered twice: whether a value fits (cast and builder), whether
  two values are equal (`sql_eq` and the bytes a BLOOM index or a row key hashes),
  whether a row matches (zone map, index and evaluation);
* bytes that nobody checks the meaning of twice: offsets, cut statistics, optional
  tails of a manifest, damaged files.

`PROJECT.json` lists each hazard at its line with the properties that cover it, and
says of the others why none does.
Its map gives, for each definition, the lines of the code it stands for. The state
machines are mapped definition by definition; in the modules of operators, a helper
whose lines lie within those of a definition that is listed has no entry of its own.

## 2. Modules

| module | models |
|---|---|
| `Manifest` | the manifest value and every edit as a pure operator `Edit` with its precondition `CanEdit` |
| `TableStore` | the store: buffer, flusher, workers, jobs, lifecycle; a commit is one step. EXTENDS `Manifest` |
| `TableContents` | the abstract specification: live names with how often a scan returns each row, dropped definitions, and what the last step was asked to change. `TableStore` implements it |
| `WritePath` | one commit opened up: tickets, the flusher's steps, the file operations of `publish`, failures, kills and power losses |
| `Retention` | which files exist and who may need them: links, prune, gc, views, readers, crashes |
| `Sinks` | what the sinks keep, how partials merge, and the answer a stage must give, as pure operators |
| `Query` | the scheduler, the memory budget, first error, panics, cancellation, merge and finish. EXTENDS `Sinks` |
| `MCTableStore`, `MCWritePath`, `MCRetention`, `MCQuery` | instances for TLC |
| `StoreProofs`, `StoreRows`, `StoreContents`, `StoreColumns` | TLAPS proofs about `TableStore`: ids, uniqueness, rows, the refinement of `TableContents`, columns |
| `WriteProofs`, `RetentionProofs` | TLAPS proofs about `WritePath` and `Retention` |
| `QueryProofs`, `QueryRows` | TLAPS proofs about `Query`: the memory budget, the answers |
| `Types` | values, data types, the total order, equality, coercion, casts, text, the calendar |
| `Columns` | bitmaps, columns, the column builder, slices. EXTENDS `Types` |
| `Encodings` | the seven column encodings, validity and the choice among them. EXTENDS `Columns` |
| `SkipIndexes` | BLOOM, VALUE_SET and NGRAM |
| `SegmentFile` | writer, footer, statistics, reader, `.idx` files. EXTENDS the two above |
| `Expressions`, `Prune` | expressions and their types; what a zone map or an index proves false |
| `Regexp` | parser, compiler and matcher of regular expressions |
| `Aggregates` | aggregate functions, hash aggregation, hash join, UNION ALL, the gathering of rows |
| `TableSpec`, `ManifestCodec` | specification, entry and ALTER; the bytes of the manifest and the id backfill |
| `Sql` | lexer and parser |
| `Ingest` | rows, companions, CSV, JSON |
| `Ledger` | the migration ledger, a state machine of its own |
| `Jobs` | the frame of the checks of sequential code |
| `TypeJobs`, `SegmentJobs`, `ExprJobs`, `RegexpJobs`, `AggJobs`, `ManifestJobs`, `SqlJobs`, `IngestJobs` | the inputs, the steps and the properties of each part |
| `DataChecks` | all of them and `Ledger` together, for one run |

The three models of the store split it along what a commit hides. `TableStore` is about
what commits do to each other and treats one as atomic. `WritePath` justifies that:
it takes the trivial edits (a segment, a tombstone) and shows that the file
operations make a commit atomic and durable. `Retention` takes from `TableStore`
that a segment leaves the named set only for the garbage list and never returns
(`NoSegmentLeaks`, `GarbageUnreferenced`, `FreshIds`, all three proved) and is about
when the file itself may go.

### Manifest and TableStore

`manifest` is `State::current`; `next_id` the atomic allocator in `Shared`;
`pending`, `in_flight` the buffer; `flushing` what the flusher has written and not
committed; `work[w]` what a compaction or a job step has prepared. Three pieces of
state are not in the code. `birth`, on a field, a file column, a batch column and a
tombstone, is the id of the table definition that introduced the column: field ids
are per table, so the pair (field id, birth) says which column bytes really belong
to, and lets `ColumnsNeverMix` and `TombstoneFollowsColumn` be stated.
`committed` is the set of rows ever published, and `asked` is what the last step was
asked to change: the statement of a client with its table and the rows its predicate
matches, the definitions gc found old enough, or nothing, for every other step.

Data is abstracted: a row is a model value, a batch holds one, a flush writes one
segment per table, a DELETE predicate is the set of rows it matches plus the column
it names, a table is ordered by one column. Merge inputs are any set that
`validate_merge` allows; the append engine's choice is one of these. The loops of
64 attempts around swap and revert are not counted: each attempt is a step, and a
refused attempt changes nothing. Actions:

| code | actions |
|---|---|
| `create_table`, `truncate_table`, `drop_table`, `undrop_table`, `revert_table` | `Create`, `Truncate`, `Drop`, `Undrop`, `Revert` |
| `write_many`, `delete` | `Write`, `Delete` |
| flusher `take`, `run`, commit, error | `FlushTake`, `FlushWrite`, `FlushCommit`, `FlushFail` |
| `compact::prepare`, `compact::commit` | `CompactPrepare`, `CompactCommit`, `Abandon` |
| `migrate::alter`, `step`, `swap`, `cancel` | `Alter`, `JobPrepare`, `JobAdvance`, `JobSwap`, `Cancel`, `Abandon` |
| the two commits of `gc::run` | `Expire`, `Forget` |
| death of the process and `open` | `Reopen` |

### WritePath

Each writer writes one row, named after it. A manifest is its version, its segments
(one per flush) and the seqs of its tombstones. `visible` is the manifest a load
would read now; `durable` the ones a power loss may leave, which `Rename` widens and
`SyncRoot` narrows to one; `tmp` and `files` say how durable the bytes are.
A kill keeps `visible`; a power loss picks any member of `durable` and drops files
whose bytes and directory entry were not synced. `close` takes the `Store` by
value, so no call is under way and its `flush()` returns at once. The row, byte and
time limits are abstracted to "a flush may be due at any moment at which rows are
pending".

### Retention

A manifest is the set of segments it names, its garbage and its id counter. `gc` of
each collector is what that call has read so far: the manifest, then the registered
views, then the files, each a step, so several calls interleave with each other and
with commits. `phantoms` collects manifests renamed into place by a commit whose
directory sync then failed: the writer goes on from the previous one, but another
process may have loaded it. The clock only moves forward.

### Query and Sinks

A row is its position in the table, a key and how many rows it counts (at least one); it is one byte of the
budget. A stage is a filter and a sink: collect, sort, LIMIT/OFFSET, TOP-K or a
grouped count. Its source is the table scan (segments, read with a reservation that
ends with the read, then buffered batches) or the batches of the stage before, one
morsel each. `sources` keeps the input of every stage so that the answer can be
compared with it. A worker's steps are `Claim` (stop flag and counter), `Read` or
`ReadMemory`, `ReadOver` or `ReadError`, `Push` per batch, and on an error `SetStop`,
`RecordError`, `DropSink`; `RaisePeak` is the second atomic of `MemoryBudget::grow`.
The stop flag is relaxed, so `Claim` may go on although it is set. `Panic` unwinds a
worker. The calling thread does `Join`, one `Merge` per partial and `Finish`; a merge
or a finish is one step because no other thread of the query runs then, and a
cancellation inside it has the outcome of one before it. The deadline is a
cancellation. The bytes of an aggregate are one per group; the code counts the
capacity of its vectors.

### The sequential code

A *job* (`Jobs`) is one input of one part of the program: a value, a column, a
damaged chunk, a pattern, a statement, a CSV file. `Init` chooses it; each step makes
one call of the code and leaves what it returned in `out`; the invariants compare the
two. Jobs of several calls (a builder filled value by value, an aggregation split over
two sinks and merged, a row set cell by cell) have several steps, and every order of
them is explored where the code allows it. `DataChecks` composes the parts: a job's
kind says which actions run it.

Data is abstracted where no decision of the code looks at it:

* a value is a record `[k, v, s, x]`: kind, number, scale, bytes or items; `Option` is a
  sequence of at most one element;
* widths are constants. Integers have `IntBits` bits, decimals `MaxDigits` digits, a
  float is counted in halves with a mantissa of `MantissaBits` bits, plus infinities, NaN
  and the negative zero, so that rounding, overflow and inexact conversion happen;
  arithmetic that the code leaves unchecked wraps, as its release profile does;
* a text is a sequence of small numbers or characters; in byte strings a number of at least 8 continues a
  character, so that a cut can fall inside one;
* in a file, a number is one unit whatever its width, and a bit-packed payload is packed
  bit by bit; a checksum detects any change to what it covers; the hash of a skip index
  is a small stand-in with collisions; HyperLogLog's registers and DDSketch's buckets
  stand for the estimates computed from them;
* keywords, messages and the names of functions are model strings.

What is kept is every check, in its order: which input is refused and where, what a
decoder looks at before it reads, which clause excludes which, when a limit counts.

`Ledger` is a state machine: `apply_migrations` reads the directory, checks numbers and
checksums against the recorded files, runs each pending file and records it in a commit
of its own; a crash, a failed statement or a failed commit ends the call anywhere, and
the directory is edited between calls and during one.

## 3. Runs

| run | instance | checks |
|---|---|---|
| `store_migrate` | 1 name, 2 rows, 1 worker, ALTERs that drop and re-add b or exchange a and b, REVERT, TRUNCATE, 2 tombstones, 8 commits, `JobSwapGap` 0 | `GarbageUnreferenced`, `SwapNeverWedged`, `TombstoneFollowsColumn`, `ColumnsNeverMix`, `FlushAccepted`, `RefinesContents` |
| `store_rewrite` | 2 workers, an ALTER that rewrites every segment, compaction, cancel, crashes, 6 ids, 8 commits | `FreshIds`, `RowsOnce`, `JobCarriesHandled`, `NoSegmentLeaks` |
| `store_lifecycle` | DROP, UNDROP, TRUNCATE, re-creation, expiry, gc, compaction, crashes, 9 commits | `TypeOK`, `FlushAccepted`, `NoSegmentLeaks`, `RefinesContents` |
| `write_path` | 3 writers, 1 deleter, 3 flushes, 1 failed operation and 1 crash, or 2 crashes, with fairness | `TypeOK`, `AckedSurvives`, `AlwaysLoadable`, `SeenOnce`, `DeleteOrder`, `NoGap`, `EveryCallReturns`, no deadlock |
| `retention_views` | 2 gc calls, 1 view, window of 2, no grace, 6 versions, 1 failure, 1 crash | `RetainedReadable`, `HeldViewsReadable`, no deadlock |
| `retention_readers` | 1 gc call, 1 reader process, window of 1, grace of 2 ticks, 1 failure, 1 crash | `YoungManifestReadable` |
| `query_plans` | 3 threads, tables of 2 and 3 morsels, 5 plans, batches of 2 rows, budgets 3 and 8, 1 fault, 1 cancellation, with fairness | `BudgetKept`, `StagesRight`, `OrderedSlice`, `QueryEnds` |
| `data` | the jobs of every part, `data.cfg` | the twelve properties below |
| `revert_recreated`, `query_order`, `cast_panic`, `bloom_equal` | | violations, section 5 |

`BudgetKept` is three statements: what the budget counts is what the sinks and reads
hold (`BudgetExact`), a merge reserves no more than its partials held
(`MergeWithinBudget`), and the peak reported covers what was in use (`PeakCoversUse`).
The properties of `data` are conjunctions of named parts, each an operator with its own
comment in the job module:

| property | parts | what they say |
|---|---|---|
| `TypesExact` | `CoerceLossless`, `CastAgrees`, `TextRoundTrip`, `DecimalTextExact`, `OrderTotal` | a write never changes a value; where a write takes a value, a cast gives what it stores; canonical text parses back; a text is a DECIMAL only when it is exactly one, up to the number of digits a `u8` counts (section 5); the order is total over NaN, both zeros and scales |
| `ColumnsExact` | `ColumnReads`, `SlicesJoin`, `EncodeRoundTrip`, `DecodeSafe` | what is pushed is read; slices put together are the column; every encoding round-trips; a damaged chunk is an error or a well-formed column |
| `SegmentsExact` | `SegmentRoundTrip`, `StatsCover`, `DamageDetected`, `IndexesKeepRows`, `IdxBelongs` | a file holds the batches; cut bounds stay bounds; damage is found; no index excludes a value it was built from; an `.idx` of another segment is refused |
| `ScanKeepsMatches` | | whatever zone maps and skip indexes leave out, every live matching row is read, once and in order |
| `ExpressionsRight` | `ThreeValued`, `ArithExact`, `EvalAgreesWithType`, `FunctionsRight` | logic over NULL, overflow, declared types, and LIKE, SUBSTR, TRUNC, BUCKET, weeks and the calendar against references |
| `RegexpRight` | `RegexpSearch`, `RegexpBounded`, `RegexpParse` | the matcher agrees with the language of the pattern; the size computed beforehand bounds the program; groups only group |
| `AggregatesRight` | `AggRight`, `AggStateSafe`, `TopKBound`, `TopKExact` | two sinks merged, directly or through encoded states, give the answer of the rows; a state cut short is refused; the counts of `top_k` stay within their errors |
| `OperatorsRight` | `JoinRight`, `GatherRight`, `UnionRight` | the join by row keys is the nested loop with SQL equality; gathered rows keep their values; a union reads each morsel once |
| `ManifestsSound` | `SpecSound`, `AlterKeepsIdentity`, `ManifestRoundTrip`, `OldManifestsUpgrade`, `ManifestWellFormed` | an accepted definition makes a sound entry; ALTER keeps the ids of the columns it keeps; manifests round-trip but for the high bits of a duration (section 5), older ones load with ids, changed ones are refused or well-formed |
| `SqlReads` | `LexReads`, `PrecedenceKept`, `ClausesApart`, `StatementsApart`, `NestingBounded` | tokens, precedence, clauses and statements are read as written; a nest is accepted exactly up to the limit, in which the levels of a `LIST<` type do not count (section 5) |
| `IngestRight` | `CompanionRouting`, `CsvRoundTrip`, `JsonRoundTrip`, `JsonFlattens` | cells reach their column or its companion once; CSV and JSON are read as written; flat and nested names reach the same column, and a column named twice adds no row |
| `LedgerRight` | `LedgerOrdered`, `LedgerReruns` | what is recorded was executed, in the order of the numbers; a file runs again only after a call that stopped between its execution and its record |

**Bounds.** What each question needs: two segments, so that one can be handled and
the other not, or one merged and the other new; enough versions for
create, two flushes, a delete, an ALTER, its steps, the swap and one more operation
(8) or, without jobs, for drop, re-creation and undrop (9); two workers, so that two
hold prepared work at once. One table name is enough: an edit looks at one table by
name or id, and the only cross-table state, the segment ids and their reference
counts, is exercised by the retired definitions and the job target of one name; the
proofs cover several. In `WritePath` three flushes are one in flight, one pending
and one after a recovery. In `Retention` the window (1 or 2) and the versions (3 or
6) let a link enter and leave the window while gc is between two steps. In `Query`
three threads give three partials, so that a merged sink is merged again; the tables
have a segment of two row groups, ties, the smallest key in the last segment, a
segment pruned to nothing and a buffered batch; the budget of 3 is too small for some
interleavings of every plan and enough for others, 8 never refuses; two rows a batch let a result of four rows be two morsels of the next stage.
In `data` a width is small enough that inputs reach both of its ends and pass them: 11
bits against mantissas of 4 and decimals of 3 digits, so that each conversion has exact,
rounded and refused cases; decimal texts with fractions of up to 5 digits, where lengths
are counted modulo 4 (`LenWrap`) as the code counts them modulo 256; durations of a table
up to, of exactly and past what 64 bits hold, in a live table, a job's target and a retired
definition; words of 2 bits and bytes of 3 fill, straddle and wrap; up to
3 rows, 2 batches and 2 row groups, so that offsets and merges are wrong when they are
off by one; 2 bytes of statistics, so that bounds are cut; value sets of 2, sparse sketches of
3 and summaries of 2 values, so that limits are met and exceeded; patterns of 4 symbols, all of them, and longer ones
around each repetition; 3 clauses of an ALTER, so that a column can be dropped, added and
renamed; nests around the limit of 6, with a type of 7 levels among the forms; files 1 and 2 of the ledger with 4 edits of the
directory and one stopped call.
`TableStore` and the reader run stop when their bounds are used up, and an idle
store may stop for ever, a query is over when it has returned and a job when its last
call has, so those runs do not check deadlock; `write_path`
and `retention_views`, where a call, a close or a view can always go
on, do.

**Symmetry.** Rows, workers, collectors and viewers differ only in name and
no property or action tells two of them apart. The runs that check liveness use none.

**Fairness.** Weak fairness of the flusher (its wait on the condition variable has
the flush interval as timeout, so it looks again), of the holder of the commit mutex
(it runs without waiting for anyone), and of every caller that may go on (a resolved
ticket wakes all its waiters). In `Query`, of every worker and of the calling thread:
none of their steps waits for another thread but the join, and the lock of the error
slot is held for one assignment. Nothing is assumed of new calls, of failures, of
cancellation or of crashes.

**Failures and crashes in `WritePath`.** `AlwaysLoadable` is checked for one failure
with one crash and for two crashes without a failure. It does not hold for one
failure with two crashes: the sync of the directory fails after the rename, so the
commit is reported as failed although its manifest may be on disk; the writer goes on
from the old manifest and renames another one into place; before that is synced the
process is killed, and the reopen, which loads the second manifest, removes the first
one's segment as an orphan; then power is lost, and the directory entry that comes
back is the first one, naming a file that is gone. POSIX allows this; file systems
whose metadata journal is ordered do not. The bound leaves it out deliberately.

**What the abstract specification says.** `TableContents` has no segments, seqs,
jobs or schemas. A table is how often a scan returns each row: under the mapping in
`TableStore` the number of its segments that hold the row and show it through the
tombstones (`Copies`), per live name and per retired entry with reason dropped. Every
abstract action names in `asked` what it was asked for, and the mapping takes `asked` as
it is, so a step cannot pass for another: a delete removes from its table the rows its
predicate matches, and a step that is no delete, truncate, drop or expiry removes
nothing; a flush adds rows never inserted before, each once; gc gives up the dropped
definitions its age limit names and no other; an undrop brings back the last
definition dropped, as it was. Compaction, job steps, swaps, reverts, cancels, failed
flushes and crashes ask for nothing and must change nothing: a row they lose, return
twice or bring back violates `RefinesContents`. Its mutants are a REVERT that forgets
the segments written since the swap, and a merge that adds its output and leaves its
inputs for later.

**Mutants.** Each property of a passing run has a mutant in `PROJECT.json`: an
operator, defined next to the one it replaces and marked `Mutant`, that contains a
plausible bug (no reference count, a dropped check for a running job, tombstones that
keep their names, a skipped sync, a ticket left behind, a window off by one, a
bound cut downwards, a level of precedence that does not bind). TLC
finds the property violated when the mutant takes the place of the original.

## 4. Proofs

The proofs hold for every value of the constants that satisfies the assumption of its
module: `StoreAssumption` (the options and bounds are naturals, two of them positive),
`StatementAssumption` (a predicate matches some of the rows there are, a column list names
no column twice, which `TableSpec::validate` checks, and ALTER has the four clauses it has),
`WritePathAssumption` (bounds are naturals, writers, deleters and the flusher are
different), `RetentionAssumption` (bounds, window and grace period are naturals),
`SinksAssumption` (a batch has room for a row) and `QueryAssumption` (at least one thread,
morsels are sequences of batches of rows, plans are non-empty sequences of stages).
`Names`, `Rows`, `Workers`, `ColumnLists`, `Predicates`, `AlterOps`, `Ops`, `Writers`,
`Deleters`, `Collectors`, `Viewers`, `Readers`, `Tables`, `Plans` and `Limits` are otherwise
arbitrary, infinite sets included.

**`StoreProofs`: segment ids.** `GarbageUnreferenced` alone is not inductive: a flush
could commit a segment whose id is already garbage. So the invariant `SafeInv` adds
what holds of ids nobody has published yet:
the ids a manifest uses are below its counter, its counter is at most the
allocator's, what the flusher and the workers hold is below the allocator and used by
no manifest, and no two of them hold the same id. The argument has two layers. For
every edit operator a lemma shows `EditOK(m, n, new, b)`: n references only what m
did and `new`; what m referenced is referenced by n or is n's garbage; what is garbage
in n was so in m or is just let go; the counter moves above `new` and stays at most b.
These lemmas are about values, need no temporal reasoning and chain (`EditChain`), as
a flush of several tables, a merge (remove, then add) or a swap (advance, then swap)
does. Then `CommitStep` says once what committing such an edit does to `SafeInv`, and
one step per action applies it. Results:

* `GarbageAlwaysUnreferenced`: `Spec => []GarbageUnreferenced`
* `IdsAlwaysFresh`: `Spec => []FreshIds`
* `SegmentsNeverLeak`: `Spec => NoSegmentLeaks`

**`StoreProofs`, second part: uniqueness.** `TypesAlways`: `Spec => []TypeOK`. That live names, table
ids and job ids are unique needs that table ids are unique across live tables,
retired definitions and job targets, because swap, undrop and revert move
entries between the three, and that a job's target has the name of its live source,
because the swap puts it there.

**`StoreRows`: rows.** Three properties of a run that looked independent need one
invariant, `RowsInv`, because each commit validates by *membership* (are the
segments I was made from still listed?) and never compares contents
(`commit.rs`, `remove_segments`, `advance_job`, `revert_retired`). For that to be enough:

* all entries that list an id mean the same file (`SameFile`), and no two segments of an
  entry share a row (`Apart`);
* a job's target holds the rows, at the seqs, of exactly the source segments it handled
  (`JobsCarry`), so the swap, which asks that all are handled, loses none;
* a retired definition holds what its successor segments held, and a prepared merge or
  job step what its inputs held, *while all of these are still listed* (`Successors`,
  `MergeRows`, `StepRows`); when one has been compacted away the commit is refused;
* ids named by such a waiting promise are spent: nobody holds them for a new file
  (`Spent`), so the condition cannot become true again of another file. This is where
  `SafeInv` of `StoreProofs` is used;
* rows being flushed are in no segment yet (`BufferRows`, `FlushRows`).

`FlushAccepted` is inductive relative to these: swap, revert and drop back off while a
flush holds batches of the table, a drop also while some are waiting, and swap and revert
project the waiting ones.

* `FlushesAccepted`: `Spec => []FlushAccepted`
* `RowsAlwaysOnce`: `Spec => []RowsOnce`
* `JobsAlwaysCarry`: `Spec => []JobCarriesHandled`

**`StoreContents`: the refinement.** `TableStore` implements `TableContents`: every
step that was asked for a create, a delete, a truncate, a drop, an undrop or an expiry
changes what a reader sees by exactly that, a flush adds its rows once, and every other
step changes neither which rows a scan returns nor how often. Which rows a reader sees is
decided by comparing seqs of segments with seqs of tombstones, so the invariant
`ContentsInv`, on top of `RowsInv`, is about order:

* seqs and versions are of the past, and a retired definition has none after its own
  version (`Past`); hence a new tombstone is above every segment and a new segment above
  every tombstone;
* no tombstone that is, or may again become, one of the table of a prepared merge lies
  between a row it took and the seq it gives it (`MergeClear`). `validate_merge` checks
  that against the table it read; the invariant says that no commit made since, an
  undrop or a revert included, can bring in such a tombstone;
* under a dropped name only rows younger than the drop are found (`DropOrder`);
* whatever is or may become live under the name of a swapped definition has the
  tombstones it was swapped with, or only younger rows (`SwapOrder`). This is what a
  REVERT needs, which keeps the old definition's segments and takes over the
  tombstones added since;
* a flush writes exactly what is in flight, table by table (`FlushExact`).

Per action one lemma shows that `ContentsInv` is kept and what the step does to the *sets*
of rows shown and kept (`ShownRows`, `KeptRows`). Counting comes last: where `RowsOnce`
holds, before and after the step, a table returns a row of its set once and any other not
at all (`CopiesOnce`), so the step on sets is the step of `TableContents` on counts
(`StatedCounts`). It is here that a merge or a job step that left its inputs in place
would fail.

* `StoreRefines`: `Spec /\ [][ExpiryOrder]_vars => RefinesContents`

`TableStore` lets gc expire any set of retired definitions, since their ages are read from
the wall clock (`retire`, `expire_retired`). `ExpiryOrder` restricts that, only where REVERT
is used, to the oldest ones first, which is what the code does while the clock is not
set back between two commits. Without it `SwapOrder` is not inductive, and for a reason:
when a newer dropped definition expires and an older one of the name stays, UNDROP brings back
a table from before a swap, and a REVERT to the definition of that swap then changes what
a reader sees. No run meets this: `store_migrate` has REVERT and no expiry,
`store_lifecycle` expiry and no REVERT, and for each of them alone the hypothesis is
either void or about steps that do not happen.

**`StoreColumns`: columns.** A tombstone holds a column's name and its field id, ALTER
moves names between ids, and a running job's target has names of its own. The
invariant `ColumnsInv` says, of live tables, retired definitions and targets alike, that
a schema gives a name and an id once and ids below its counter, that every tombstone names
a field by name and id at once, and that a running job's target has the fields its
source's tombstones name. For ALTER this is shown clause by clause (`AddField`,
`DropField`, `RenameField`), and for the whole list by induction on its length: the
library's induction theorem takes an operator and cannot be used, but the least-number
principle (`Least`) can, from the well-foundedness of `<`, and gives an induction over sets
(`Induction`), which also unfolds the recursive function `PlanAlter` (`PlanSteps`).

* `SwapsNeverWedge`: `Spec => []SwapNeverWedged`

`TombstoneFollowsColumn` needs to know which definitions mean the same column by one id.
`BirthsInv` says it of those that can meet: a job's target and its source (`Derived`:
other ids are above the source's counter), a swapped definition and whatever is or may
become live under its name (`CameFrom`), and two swapped definitions of a name.

* `TombstonesFollow`:
  `Spec /\ [][ExpiryOrder]_vars /\ [][NameUnused]_vars => []TombstoneFollowsColumn`

That no column's data is read as another's needs more, because segments outlive the
definition they were written for: they are merged, rewritten, carried, projected and come
back. `LineageInv` follows definitions along their *lineage*: R gives the lineage of a
definition (an ALTER's target joins that of its source, CREATE TABLE opens one), B the
column each field id of a lineage stands for, N the next id of a lineage and O the
lineage of a segment. The four are existentially quantified, since the code keeps none of
them; each step names those of its next state. The invariant says that every schema and
every file of a definition, and what workers and the flusher have written for one,
has ids its lineage has given and columns as B tells (`Fits`); that a lineage has one head,
live or dropped, whose counter is N (`HeadsFit`); and that a job stays in its source's
lineage and a REVERT in that of the table it replaces (`JobsFit`, `LinesFit`). Only an
ALTER extends B, above every counter of the lineage because no other job runs on its
source (`LineBelow`, `TargetLine`); only a swap and a REVERT move N (`TakesOverLines`).
Buffered batches have, under a name, the column the live table has there (`BatchesBorn`),
also after `project_batch` (`ProjectedBorn`), and a worker's step belongs to a job whose id
is not given again (`JobsKnown`).

* `ColumnsStayApart`:
  `Spec /\ [][ExpiryOrder]_vars /\ [][NameUnused]_vars => []ColumnsNeverMix`

`NameUnused` says that CREATE TABLE does not take a name of which REVERT still has a
definition. The code does not enforce it, and `revert_recreated` is what happens then
(section 5); the theorems say that nothing else can happen.

**`WriteProofs`: the write path.** The invariant is seven layers, each preserved by a step
whose two states satisfy the earlier ones: shapes; who is where (the flusher and the publish
under way agree); what a publish holds against the manifest on disk and the durable
ones (`Published`); no row in two places (`RowsApart`); what has become of the row of
every waiting writer (`Tracked`: pending, in the batch being flushed, failed, or in *every*
manifest an open may find); the same for deleters; files. The last but two is the heart:
an acknowledgement is safe because it is given only when all manifests that can
come back hold the row, also after a publish that failed after its rename.

* `WriteTypes`: `Spec => []TypeOK`
* `WriteAckedSurvives`: `Spec => []AckedSurvives`
* `WriteSeenOnce`: `Spec => []SeenOnce`
* `WriteDeleteOrder`: `Spec => []DeleteOrder`
* `WriteNoGap`: `Spec => NoGap`
* `WriteLoadable`: `Spec => [](failures = 0 \/ crashes = 0 => AlwaysLoadable)`. The
  hypothesis is needed: section 3 gives the history of one failure and two crashes that
  breaks `AlwaysLoadable`.

**`RetentionProofs`: files stay.** For any number of collectors, views, readers and
crashes. A file is removed because it is on the garbage list of the manifest a gc call
read, while the list of views it spares was read in another step. The
invariant says that from the moment gc decides, the file is dead (`Dead`): no manifest of
the window, no registered view and no young reader's manifest names it, and nothing can come
to name it again. That needs: whoever names an item of some garbage list is older than
its removal, in version (`Gone`) and in time (`Older`); and, for an open, that the
manifest found on disk names or has as garbage all that the window and young readers need
(`Covers`, `ReaderKept`), because its orphan cleanup removes everything else.

* `RetentionReadable`: `Spec => []RetainedReadable`
* `RetentionViews`: `Spec => []HeldViewsReadable`
* `RetentionGrace`: `Spec => []YoungManifestReadable`

**`QueryProofs`: the memory budget.** For any number of threads and faults, any tables and
any chain of stages. The invariant ties each reservation to what it is for: a sink's to
the bytes of the batches it holds (`WorkerOK`), the counter to the sum over the pool, the
merged sink and the reads in progress (`UseInv`); a read's bytes are there only while its
worker reads, and once the main thread merges, nobody reads and the partials taken over
are empty (`MergeInv`); either the peak covers the use or some worker is about to raise
it (`PeakInv`: of the values still to be raised, the latest is at least the use). Sums
and folds are recursive functions of the library; `SumSteps`, `ConcatSteps` and
`MergeSteps` derive their recurrences by an induction of their own over the well-founded
order of the naturals, and from these follow what changing one worker does to a sum
(`SumChange`) and that no sink but the aggregate holds more after a merge than the two
partials did (`MergeHeld`), which is what `MergeWithinBudget` rests on.

* `BudgetAlways`: `Spec => []BudgetKept`

**`QueryRows`: the answers.** For any number of threads and faults, any tables and any
chain of stages with any of the five sinks: a stage that finishes has answered over all of
its input. The argument counts rows by *weight*: for a function f from rows to naturals the
weight of a sequence is the sum of f over it, so with 1 on a set and 0 elsewhere it says how
many of its rows are in the set. What a stage must answer is stated with bags, sorted keys,
lengths and sums; each is a question about weights, and weights add up over batches,
workers and morsels in whatever order those come.

First the sinks. `Counted` is what a sink counts exactly until it is `Full`: all rows for
a LIMIT, the rows up to any key for a TOP-K, the rows of each key for an aggregate, any
set for the others. A push and a merge add the weight of what they take or leave the sink
full (`PushTakes`, `MergeTakes`), hold no row that was not given, and keep the
sink's shape (a TOP-K has at most k rows, in order; an aggregate one row per key). A sink
that has counted all of its input returns the stage's answer (`FinishAnswers`): that the
k smallest keys are determined by how many rows lie below each key is `LowsDecide`, and
that the sort is a stable permutation follows from its definition by ranks
(`SortByRank`).

Then the state. `RowsInv` relates the shared counter to the workers: unless the stage is
`Broken` or somebody is full, what all workers and the main thread hold, with what the
workers still have to push, weighs what the morsels below the counter do (`CountInv`); for
every sink but the aggregate it never weighs more, so no row is there twice. A worker is done only when no
morsel is left or its sink is done (`EndInv`), and the stop flag is set only by a
failure that nobody forgets: from the moment a worker fails to the moment the main thread
looks, the stage is `Broken` (`StopInv`). That last part is what the proof hinges on: a
worker that sees the stop flag is done with morsels unread, and it is the order of `record_error`
and of the join that keeps this from becoming an answer. TLC finds a state that
violates the invariant as soon as `Broken` is left out.

* `StagesAlways`: `Spec => []StagesRight`

Last, the order of an answer. `StagesRight` alone does not give it: a LIMIT may return any
rows of its input, and with several workers it does. `SliceInv` adds what makes ORDER BY
with LIMIT work: a TOP-K holds at most one batch, in every worker and after every merge
(`TopInv`), so the stage after it has one morsel of one batch and `Pool` starts one worker
for it (`Alone`); that worker, or the main thread after it, holds what pushing this one
batch gives, and has it still to push at most once (`LoneInv`); and what it returns is
again one batch (`PastInv`). Then the answer is computed as if by one thread: the LIMIT
cuts its offset off the sorted rows and the collecting sink keeps their order.

* `SliceAlways`: `Spec => [](SlicePlan(plan) => OrderedSlice)`

`SlicePlan` is the plan that `lower_plan` makes of a LIMIT over a SORT: TOP-K of limit plus
offset rows, the limit, and a stage that collects, with no filter that drops rows after
TOP-K. `Query` takes any chain of stages, so the theorem names the ones it is about;
`TopPlan` of `MCQuery` is one, and the property's own condition that the LIMIT is at most a
batch is the one of finding `query_order`.

**Only model-checked.** Liveness is out of the prover's reach. `AlwaysLoadable` without the
hypothesis above is a property of the run's bounds. `ColumnsNeverMix` and `TombstoneFollowsColumn` hold in their run without the
hypotheses of the theorems, since it has REVERT but no DROP and no expiry.
The modules of the sequential code use recursive operators, and what these compute is
checked over bounded inputs only.

## 5. Where the code and its documents disagree

* `revert_recreated`: REVERT finds the retired definition by name. After ALTER, DROP,
  CREATE of the same name and REVERT, the old table's definition is restored over the
  new table's segments, and field ids that two tables assigned independently are
  matched. `SPEC.md` promises that a column's data never mixes with another's. The
  other runs show that without re-creation it never does.
* `query_order`: the sorted batches of an ORDER BY (`BATCH_ROWS` rows each) are morsels
  of one more parallel pipeline, and what its workers collect is put together in
  worker order. With more than one batch and more than one thread the answer is a
  permutation of its batches; `SPEC.md` and decision 0015 promise an order. TOP-K
  returns one batch, so ORDER BY with a LIMIT of at most one batch is in order
  (`OrderedSlice`); with a larger LIMIT it is cut into batches again and is not.

* `cast_panic`: `float_to_decimal` accepts a rounded number in `-limit..limit`, which
  includes minus ten to the precision; no DECIMAL of that precision holds it, the builder
  refuses it and the cast unwraps the answer, of which its message says that it always
  fits.
* `bloom_equal`: a BLOOM index hashes the encoded bytes of a value, and `-0.0` and `0.0`,
  or decimals of different scales, are equal with different bytes. A row group is skipped
  although a row of it equals the literal; the comment on `might_contain` says that it is
  skipped only when none can. `ScanKeepsMatches` shows that everything else that prunes
  keeps every matching row.

Three more disagreements are pinned by properties of `data` that pass: each states what
the code does in the case where it differs from its document, and the inputs reach that
case, so a change of the code, for better or worse, shows.

* `parse_decimal` (`src/src/types/parse.rs:75,79`) takes the length of the fraction as a
  `u8`. Its comment (`parse.rs:47-48`) says "Extra fractional digits (would lose precision)
  or a value past `dt`'s precision is `None`". A fraction of 256 digits counts as none and
  is accepted by every scale: `1.` followed by 255 zeros and a 5 reads as `6.0` in a
  DECIMAL(3,1). Up to 255 digits the text is read exactly or refused. `DecimalTextExact`
  says both; longer fractions are read, or refused, as if they had their length modulo
  256 places.
* `encode_definition` (`manifest/codec.rs:264,272`) stores the bucket of PARTITION BY and
  the TTL as `as_nanos() as u64`. `TableSpec::validate` refuses only zero, and an interval of
  SQL may be longer than 2^64 ns (about 584 years): `'213504 days'` is 25 minutes after a
  reopen, and a duration of a multiple of 2^64 ns is the zero that `validate` refuses
  (`manifest/spec.rs:261`). `ManifestRoundTrip` says that a manifest comes back as written
  but for the high bits of these durations.
* `type_name` (`src/src/sql/parser.rs:323-335`) calls itself under `LIST<` without passing
  the depth guard. The head of the parser says that past `MAX_DEPTH` it "returns a
  `ParseError` instead of recursing further" (`parser.rs:9-15`, again at `:77-80`), and
  decision 0016 that "`MAX_DEPTH` caps nesting". The binder refuses a LIST of LISTs, but
  only after the parse; until then the stack is the only limit. `NestingBounded` says that
  the guard is exact for every other form, and that a type of more levels than the
  limit is accepted.

Four things that no run states but that a reader of the code should know:

* `RowBuilder::set_value` (`src/src/sql/ingest/mod.rs:115-119`) unwraps the push of a text
  into a companion column with "STRING always fits a STRING companion column", and
  `RowBuilder::new` finds the companion by its name alone. CREATE TABLE accepts a column
  `x::string` (quoted) of another type, and a value that does not fit `x` then panics.
  `SPEC.md` section 3 calls the companion "an ordinary STRING column", and `Ingest` takes
  it to be one.
* `write_many` of an empty list waits on a ticket that only a later write would resolve.
  The SQL layer checks for emptiness first. In `WritePath` such a caller is a member of
  `EmptyWriters`; with one of them `EveryCallReturns` does not hold.
* gc's window is one version shorter than decision 0014 says. `retention_views` shows that
  the code's window is the one that matches `prune`, and its mutant that a shorter one
  would be wrong.
* `HeldViewsReadable` excepts one case the code makes no promise about: `view_at` of a
  link that outlived its window because its removal failed.

## 6. Plan

Done: the store (`Manifest`, `TableStore`, `TableContents`, `WritePath`, `Retention`),
the execution of a query (`Sinks`, `Query`), the sequential code under `data`, and the
proofs above. What is left, in this order:

1. **An abstract specification of a pipeline** (each morsel is consumed at most once, and
   all are when the stage succeeds), which `Query` implements; trees of pipelines, with
   the build table's reservation shared by the probes.
2. **Append engine** (`engines/append.rs`): the merge planner against `validate_merge`;
   termination of repeated compaction.
3. **Backup** as a holder of a snapshot next to gc.
4. **Binder and planner** (`src/src/sql/{binder,planner}.rs`): name resolution, grouping
   checks, the choice of TOP-K, and their agreement with the evaluation of the statement.

## 7. Not modelled, and why

* Binder, planner and the dispatch of `execute`: they need a semantics of statements to
  be compared with; the parser ends at the tree, and `Query` and `Expressions` start from
  plans and typed expressions.
* Backup: hard links of the files of a held snapshot; what protects them while it runs is
  what protects a view in `Retention`. A backup made inside the store's own directory is
  outside the model (the orphan walk of `gc.rs` descends into every directory).
* The store lock is one `flock` call; the models assume one writer process.
* The I/O shim and the fail points are test instruments: `WritePath` and `Retention` model
  the operations they wrap.
* The engines' merge planner: `TableStore` takes any choice `validate_merge` allows. The
  sort of a merge is the standard library's, by the order `Types` models.
* Clocks that jump: gc measures its grace on the wall clock (`gc.rs`) and the code has no
  protection against a jump, so there is nothing to show. `StoreRefines` names the one
  place where a clock set back would show in the contents of a table (section 4).
* The estimates of sketches and the rounding of long floating-point sums are numeric.
* The bytes of numbers, the checksum and hash functions themselves.
* Benchmarks and test harnesses are tooling.

## 8. Running

    tlc -workers 2 -config store_migrate.cfg MCTableStore
    tlc -workers 2 -config data.cfg DataChecks
    tlapm StoreRows.tla

Each configuration belongs to the MC module of its component, and `data`, `cast_panic` and
`bloom_equal` to `DataChecks`. The passing runs take between a few seconds and three
minutes. The eight proof modules (`StoreProofs`, `StoreRows`, `StoreContents`,
`StoreColumns`, `WriteProofs`, `RetentionProofs`, `QueryProofs`, `QueryRows`) check in
full, each in a few minutes.
