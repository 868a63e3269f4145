---------------------------- MODULE StoreProofs ----------------------------
(***************************************************************************)
(* Segment ids in TableStore: reference counting, allocation and leaks.    *)
(* Every operator of Manifest that edits a manifest is shown to satisfy    *)
(* EditOK, what one edit may do to the ids in use; the inductive invariant *)
(* SafeInv then follows action by action, and with it the three properties *)
(* of the last section.  It needs the ids that flushes and workers hold    *)
(* besides those in the manifest: that garbage is unreferenced is only     *)
(* preserved by a commit whose new segments have ids never used before.    *)
(* Then the type invariant of TableStore, uniqueness of names included.    *)
(***************************************************************************)
EXTENDS TableStore, WellFoundedInduction, TLAPS

(* Max of a bounded nonempty set of naturals is in it and above all of it. *)
LEMMA MaxExists ==
    ASSUME NEW S \in SUBSET Nat, S # {}, NEW b \in Nat, \A x \in S : x <= b
    PROVE  /\ Max(S) \in S
           /\ \A x \in S : x <= Max(S)
<1> DEFINE T == {b - x : x \in S}
<1>1. T \subseteq Nat
  OBVIOUS
<1>2. T # {}
  OBVIOUS
<1> DEFINE R == OpToRel(<, Nat)
<1>3. IsWellFoundedOn(R, Nat)
  BY NatLessThanWellFounded
<1>4. \A p, q \in Nat : p < q => <<p, q>> \in R
  BY DEF OpToRel
<1> HIDE DEF T, R
<1>5. \E y \in T : \A z \in T : ~(<<z, y>> \in R)
  BY <1>1, <1>2, <1>3, WFMin
<1>6. PICK y \in T : \A z \in T : ~(<<z, y>> \in R)
  BY <1>5
<1>7. ASSUME NEW z \in T PROVE y <= z
  <2>1. y \in Nat /\ z \in Nat
    BY <1>1
  <2>2. ~(z < y)
    BY <2>1, <1>4, <1>6
  <2> QED
    BY <2>1, <2>2
<1>8. PICK x \in S : y = b - x
  BY DEF T
<1>9. \A z \in S : z <= x
  BY <1>7, <1>8 DEF T
<1> QED
  BY <1>9 DEF Max

-----------------------------------------------------------------------------
(* Edits.                                                                  *)

(* Every used id is below the counter.                                     *)
IdsBelow(m) == \A i \in Used(m) : i < m.next_segment_id

(* What an edit from m to n does to segment ids: it references only what m *)
(* references and the ids in new, drops nothing without listing it as      *)
(* garbage, lists as garbage only what m referenced, and moves the counter *)
(* above new, to at most b.                                                *)
EditOK(m, n, new, b) ==
    /\ IsManifest(n)
    /\ n.version = m.version
    /\ \A i : References(n, i) => References(m, i) \/ i \in new
    /\ \A i : References(m, i) => References(n, i) \/ i \in GarbageIds(n)
    /\ \A i \in GarbageIds(n) : \/ i \in GarbageIds(m)
                                \/ References(m, i) /\ ~References(n, i)
    /\ m.next_segment_id <= n.next_segment_id
    /\ n.next_segment_id <= b
    /\ \A i \in new : i < n.next_segment_id

(* The ids a manifest uses are those it references and those of its        *)
(* garbage.                                                                *)
LEMMA UsedIffReferenced ==
    ASSUME NEW m, NEW i
    PROVE  i \in Used(m) <=> References(m, i) \/ i \in GarbageIds(m)
<1>1. i \in SegIds(SegmentsIn(m)) <=> References(m, i)
  BY DEF SegIds, SegmentsIn, References
<1> QED
  BY <1>1 DEF Used

(* next_segment_id moves above every segment added, and no further than    *)
(* the allocator.                                                          *)
LEMMA BumpBounds ==
    ASSUME NEW next \in Nat, NEW b \in Nat, next <= b,
           NEW segs, \A s \in segs : IsSegment(s) /\ s.id < b
    PROVE  LET n == BumpSegmentId(next, segs)
           IN  /\ n \in Nat /\ next <= n /\ n <= b
               /\ \A s \in segs : s.id < n
<1> DEFINE S == {next} \union {s.id + 1 : s \in segs}
<1>1. S \in SUBSET Nat /\ \A x \in S : x <= b
  BY DEF IsSegment
<1>2. /\ Max(S) \in S
      /\ \A x \in S : x <= Max(S)
  BY <1>1, MaxExists
<1>3. next <= Max(S) /\ \A s \in segs : s.id + 1 <= Max(S)
  BY <1>2
<1>4. \A s \in segs : s.id \in Nat
  BY DEF IsSegment
<1>5. Max(S) \in Nat /\ Max(S) <= b
  BY <1>1, <1>2
<1> HIDE DEF S
<1>6. \A s \in segs : s.id < Max(S)
  BY <1>3, <1>4, <1>5
<1> QED
  BY <1>3, <1>5, <1>6 DEF BumpSegmentId, S

(* A table entry with other segments is still an entry.                    *)
LEMMA EntryWithSegments ==
    ASSUME NEW t, IsEntry(t), NEW S, \A s \in S : IsSegment(s)
    PROVE  LET u == [t EXCEPT !.segments = S]
           IN  /\ IsEntry(u)
               /\ u.segments = S
               /\ u.id = t.id /\ u.name = t.name /\ u.tombstones = t.tombstones
               /\ u.schema = t.schema /\ u.next_field_id = t.next_field_id
  BY DEF IsEntry

(* A table entry with other tombstones is still an entry.                  *)
LEMMA EntryWithTombstones ==
    ASSUME NEW t, IsEntry(t), NEW T
    PROVE  LET u == [t EXCEPT !.tombstones = T]
           IN  /\ IsEntry(u)
               /\ u.segments = t.segments
               /\ u.id = t.id /\ u.name = t.name /\ u.tombstones = T
               /\ u.schema = t.schema /\ u.next_field_id = t.next_field_id
  BY DEF IsEntry

(* What TRUNCATE leaves of a table.                                        *)
LEMMA EmptiedShape ==
    ASSUME NEW t, IsEntry(t)
    PROVE  LET u == Emptied(t)
           IN  IsEntry(u) /\ u.segments = {} /\ u.id = t.id /\ u.name = t.name
<1> DEFINE v == [t EXCEPT !.segments = {}]
<1>1. t = [id |-> t.id, name |-> t.name, schema |-> t.schema,
           next_field_id |-> t.next_field_id, order_by |-> t.order_by,
           segments |-> t.segments, tombstones |-> t.tombstones]
  BY DEF IsEntry
<1>2. \A S, T : [t EXCEPT !.segments = S, !.tombstones = T]
                  = [[t EXCEPT !.segments = S] EXCEPT !.tombstones = T]
  BY <1>1
<1>3. Emptied(t) = [v EXCEPT !.tombstones = {}]
  BY <1>2 DEF Emptied
<1>4. /\ IsEntry(v)
      /\ v.segments = {}
      /\ v.id = t.id /\ v.name = t.name
  BY EntryWithSegments
<1> HIDE DEF v
<1> QED
  BY <1>3, <1>4, EntryWithTombstones

(* Replacing a table changes the tables and nothing else.                  *)
LEMMA ReplaceShape ==
    ASSUME NEW m, IsManifest(m), NEW t \in m.tables, NEW u, IsEntry(u)
    PROVE  LET n == Replace(m, t, u)
           IN  /\ IsManifest(n)
               /\ n.tables = (m.tables \ {t}) \union {u}
               /\ n.jobs = m.jobs
               /\ n.retired = m.retired
               /\ n.garbage = m.garbage
               /\ n.version = m.version
               /\ n.next_segment_id = m.next_segment_id
  BY DEF IsManifest, Replace

(* Release changes the garbage list and nothing else, and lists what it    *)
(* was given and nothing references.                                       *)
LEMMA ReleaseShape ==
    ASSUME NEW m, IsManifest(m), NEW segs, \A s \in segs : IsSegment(s), NEW v \in Nat
    PROVE  LET n == Release(m, segs, v)
           IN  /\ IsManifest(n)
               /\ n.tables = m.tables
               /\ n.jobs = m.jobs
               /\ n.retired = m.retired
               /\ n.version = m.version
               /\ n.next_segment_id = m.next_segment_id
               /\ \A i : References(n, i) <=> References(m, i)
               /\ \A i : i \in GarbageIds(n) <=>
                    \/ i \in GarbageIds(m)
                    \/ i \in SegIds(segs) /\ ~References(m, i)
<1> DEFINE gone == {i \in SegIds(segs) : ~References(m, i) /\ i \notin GarbageIds(m)}
           added == {[id |-> i, removed_at_version |-> v] : i \in gone}
           n == Release(m, segs, v)
<1>1. n = [m EXCEPT !.garbage = m.garbage \union added]
  BY DEF Release
<1>2. \A g \in added : IsGarbage(g)
  BY DEF IsGarbage, SegIds, IsSegment
<1> HIDE DEF gone, n
<1>3. {g.id : g \in added} = gone
  <2>1. \A i \in gone : [id |-> i, removed_at_version |-> v] \in added
    OBVIOUS
  <2>2. \A g \in added : g.id \in gone
    OBVIOUS
  <2> HIDE DEF added
  <2>3. \A i \in gone : i \in {g.id : g \in added}
    <3> TAKE i \in gone
    <3>1. [id |-> i, removed_at_version |-> v].id = i
      OBVIOUS
    <3> QED
      BY <2>1, <3>1
  <2> QED
    BY <2>2, <2>3
<1> HIDE DEF added
<1>4. n.garbage = m.garbage \union added
  BY <1>1 DEF IsManifest
<1>5. /\ IsManifest(n)
      /\ n.tables = m.tables
      /\ n.jobs = m.jobs
      /\ n.retired = m.retired
      /\ n.version = m.version
      /\ n.next_segment_id = m.next_segment_id
  BY <1>1, <1>2 DEF IsManifest
<1>6. \A i : References(n, i) <=> References(m, i)
  BY <1>5 DEF References
<1>7. GarbageIds(n) = GarbageIds(m) \union gone
  BY <1>3, <1>4 DEF GarbageIds
<1>8. \A i : i \in GarbageIds(n) <=>
         \/ i \in GarbageIds(m)
         \/ i \in SegIds(segs) /\ ~References(m, i)
  BY <1>7 DEF gone
<1> QED
  BY <1>5, <1>6, <1>8 DEF n

(* What a manifest references once a table has been replaced.              *)
LEMMA ReplaceReferences ==
    ASSUME NEW m, NEW k, NEW t \in m.tables, NEW u,
           k.tables = (m.tables \ {t}) \union {u}, k.jobs = m.jobs, k.retired = m.retired,
           NEW i
    PROVE  /\ References(k, i) => References(m, i) \/ i \in SegIds(u.segments)
           /\ References(m, i) => References(k, i) \/ i \in SegIds(t.segments)
           /\ i \in SegIds(t.segments) => References(m, i)
           /\ i \in SegIds(u.segments) => References(k, i)
<1>1. \A x \in k.tables : x \in m.tables \/ x = u
  OBVIOUS
<1>2. \A x \in m.tables : x \in k.tables \/ x = t
  OBVIOUS
<1>3. u \in k.tables
  OBVIOUS
<1> QED
  BY <1>1, <1>2, <1>3 DEF References

(* An edit that keeps what is referenced and the garbage list is harmless. *)
LEMMA SameReferences ==
    ASSUME NEW m, IsManifest(m), NEW n, IsManifest(n), n.version = m.version,
           n.next_segment_id = m.next_segment_id, n.garbage = m.garbage,
           \A i : References(n, i) <=> References(m, i),
           NEW b \in Nat, m.next_segment_id <= b
    PROVE  EditOK(m, n, {}, b)
  BY DEF EditOK, GarbageIds, IsManifest

(* Taking segments out and releasing them is an edit that drops nothing    *)
(* silently: release lists as garbage exactly what nothing else            *)
(* references.                                                             *)
LEMMA ReleaseEdit ==
    ASSUME NEW m, IsManifest(m), NEW k, IsManifest(k), k.version = m.version,
           k.next_segment_id = m.next_segment_id, k.garbage = m.garbage,
           NEW segs, \A s \in segs : IsSegment(s) /\ References(m, s.id),
           \A i : References(k, i) => References(m, i),
           \A i : References(m, i) => References(k, i) \/ i \in SegIds(segs),
           NEW b \in Nat, m.next_segment_id <= b
    PROVE  EditOK(m, Release(k, segs, m.version + 1), {}, b)
<1> DEFINE n == Release(k, segs, m.version + 1)
<1>1. m.version + 1 \in Nat
  BY DEF IsManifest
<1>2. /\ IsManifest(n)
      /\ n.version = k.version
      /\ n.next_segment_id = k.next_segment_id
      /\ \A i : References(n, i) <=> References(k, i)
      /\ \A i : i \in GarbageIds(n) <=>
           \/ i \in GarbageIds(k)
           \/ i \in SegIds(segs) /\ ~References(k, i)
  BY <1>1, ReleaseShape
<1>3. \A i \in SegIds(segs) : References(m, i)
  BY DEF SegIds
<1>4. GarbageIds(k) = GarbageIds(m)
  BY DEF GarbageIds
<1> HIDE DEF n
<1>5. m.next_segment_id <= n.next_segment_id /\ n.next_segment_id <= b
  BY <1>2 DEF IsManifest
<1>6. EditOK(m, n, {}, b)
  BY <1>2, <1>3, <1>4, <1>5 DEF EditOK
<1> QED
  BY <1>6 DEF n

(* CREATE TABLE references nothing new.                                    *)
LEMMA CreateTableEdit ==
    ASSUME NEW m, IsManifest(m), NEW n \in Names, NEW columns,
           NEW b \in Nat, m.next_segment_id <= b
    PROVE  EditOK(m, CreateTable(m, n, columns), {}, b)
<1> DEFINE e == NewEntry(m.next_table_id, n, columns)
           k == CreateTable(m, n, columns)
<1>1. IsEntry(e) /\ e.segments = {}
  BY DEF NewEntry, IsEntry, IsManifest
<1>2. /\ IsManifest(k)
      /\ k.version = m.version
      /\ k.next_segment_id = m.next_segment_id
      /\ k.garbage = m.garbage
      /\ k.jobs = m.jobs
      /\ k.retired = m.retired
      /\ k.tables = m.tables \union {e}
  <2>1. k = [m EXCEPT !.tables = @ \union {e}, !.next_table_id = @ + 1]
    BY DEF CreateTable
  <2> HIDE DEF e, k
  <2>2. \A t \in m.tables \union {e} : IsEntry(t)
    BY <1>1 DEF IsManifest
  <2>3. m.next_table_id + 1 \in Nat
    BY DEF IsManifest
  <2> QED
    BY <2>1, <2>2, <2>3 DEF IsManifest
<1> HIDE DEF e, k
<1>3. \A i : References(k, i) <=> References(m, i)
  BY <1>1, <1>2 DEF References, SegIds
<1> QED
  BY <1>2, <1>3, SameReferences DEF k

(* DELETE references nothing new and drops nothing.                        *)
LEMMA AddTombstoneEdit ==
    ASSUME NEW m, IsManifest(m), NEW t \in m.tables, NEW c, NEW kills,
           NEW b \in Nat, m.next_segment_id <= b
    PROVE  EditOK(m, AddTombstone(m, t, c, kills), {}, b)
<1> DEFINE n == AddTombstone(m, t, c, kills)
<1>1. PICK x : n = Replace(m, t, [t EXCEPT !.tombstones = x])
  BY DEF AddTombstone
<1> DEFINE u == [t EXCEPT !.tombstones = x]
<1>2. IsEntry(t)
  BY DEF IsManifest
<1>3. IsEntry(u) /\ u.segments = t.segments
  BY <1>2 DEF IsEntry
<1> HIDE DEF n, u
<1>4. /\ IsManifest(n)
      /\ n.tables = (m.tables \ {t}) \union {u}
      /\ n.jobs = m.jobs
      /\ n.retired = m.retired
      /\ n.garbage = m.garbage
      /\ n.version = m.version
      /\ n.next_segment_id = m.next_segment_id
  BY <1>1, <1>3, ReplaceShape DEF u
<1>5. \A i : References(n, i) <=> References(m, i)
  BY <1>3, <1>4, ReplaceReferences
<1> QED
  BY <1>4, <1>5, SameReferences DEF n

(* TRUNCATE releases every segment of the table.                           *)
LEMMA TruncateEdit ==
    ASSUME NEW m, IsManifest(m), NEW t \in m.tables,
           NEW b \in Nat, m.next_segment_id <= b
    PROVE  EditOK(m, TruncateTable(m, t), {}, b)
<1> DEFINE u == Emptied(t)
           k == Replace(m, t, u)
<1>1. IsEntry(t)
  BY DEF IsManifest
<1>2. IsEntry(u) /\ u.segments = {}
  BY <1>1, EmptiedShape
<1> HIDE DEF u
<1>3. /\ IsManifest(k)
      /\ k.tables = (m.tables \ {t}) \union {u}
      /\ k.jobs = m.jobs
      /\ k.retired = m.retired
      /\ k.garbage = m.garbage
      /\ k.version = m.version
      /\ k.next_segment_id = m.next_segment_id
  BY <1>2, ReplaceShape
<1>4. \A s \in t.segments : IsSegment(s) /\ References(m, s.id)
  BY <1>1 DEF IsEntry, References, SegIds
<1> HIDE DEF k
<1>5. \A i : References(k, i) => References(m, i)
  BY <1>2, <1>3, ReplaceReferences DEF SegIds
<1>6. \A i : References(m, i) => References(k, i) \/ i \in SegIds(t.segments)
  BY <1>3, ReplaceReferences
<1>7. EditOK(m, Release(k, t.segments, m.version + 1), {}, b)
  BY <1>3, <1>4, <1>5, <1>6, ReleaseEdit
<1> QED
  BY <1>7 DEF TruncateTable, k, u

(* A compaction releases the segments it replaces.                         *)
LEMMA RemoveSegmentsEdit ==
    ASSUME NEW m, IsManifest(m), NEW t \in m.tables, NEW ids,
           NEW b \in Nat, m.next_segment_id <= b
    PROVE  LET n == RemoveSegments(m, t, ids)
           IN  /\ EditOK(m, n, {}, b)
               /\ \E u \in n.tables : u.id = t.id
<1> DEFINE gone == {s \in t.segments : s.id \in ids}
           u == [t EXCEPT !.segments = t.segments \ gone]
           k == Replace(m, t, u)
           n == Release(k, gone, m.version + 1)
<1>1. IsEntry(t)
  BY DEF IsManifest
<1>2. IsEntry(u) /\ u.segments = t.segments \ gone /\ u.id = t.id
  <2> DEFINE S == t.segments \ gone
  <2>1. \A s \in S : IsSegment(s)
    BY <1>1 DEF IsEntry
  <2> HIDE DEF S
  <2>2. LET v == [t EXCEPT !.segments = S]
        IN  IsEntry(v) /\ v.segments = S /\ v.id = t.id
    BY <1>1, <2>1, EntryWithSegments
  <2> QED
    BY <2>2 DEF S
<1>3. \A s \in gone : IsSegment(s) /\ References(m, s.id)
  BY <1>1 DEF IsEntry, References, SegIds
<1>4. n = RemoveSegments(m, t, ids)
  BY DEF RemoveSegments
<1>5. gone \subseteq t.segments
  OBVIOUS
<1> HIDE DEF gone, u, n
<1>6. /\ IsManifest(k)
      /\ k.tables = (m.tables \ {t}) \union {u}
      /\ k.jobs = m.jobs
      /\ k.retired = m.retired
      /\ k.garbage = m.garbage
      /\ k.version = m.version
      /\ k.next_segment_id = m.next_segment_id
  BY <1>2, ReplaceShape
<1> HIDE DEF k
<1>7. \A i : References(k, i) => References(m, i)
  <2>1. SegIds(u.segments) \subseteq SegIds(t.segments)
    BY <1>2 DEF SegIds
  <2> QED
    BY <1>6, <2>1, ReplaceReferences
<1>8. \A i : References(m, i) => References(k, i) \/ i \in SegIds(gone)
  <2>1. SegIds(t.segments) = SegIds(u.segments) \union SegIds(gone)
    BY <1>2, <1>5 DEF SegIds
  <2> QED
    BY <1>6, <2>1, ReplaceReferences
<1>9. EditOK(m, n, {}, b)
  BY <1>3, <1>6, <1>7, <1>8, ReleaseEdit DEF n
<1>10. n.tables = k.tables
  <2>1. m.version + 1 \in Nat
    BY DEF IsManifest
  <2>2. \A s \in gone : IsSegment(s)
    BY <1>3
  <2> QED
    BY <1>6, <2>1, <2>2, ReleaseShape DEF n
<1> QED
  BY <1>2, <1>4, <1>6, <1>9, <1>10

(* Used ids are naturals.                                                  *)
LEMMA UsedNat ==
    ASSUME NEW m, IsManifest(m)
    PROVE  /\ \A i : References(m, i) => i \in Nat
           /\ Used(m) \subseteq Nat
<1>1. \A e \in m.tables \union {r.entry : r \in m.retired} \union {j.target : j \in m.jobs} :
         \A s \in e.segments : s.id \in Nat
  BY DEF IsManifest, IsEntry, IsRetired, IsJob, IsSegment
<1>2. \A i : References(m, i) => i \in Nat
  BY <1>1 DEF References, SegIds
<1>3. \A i \in GarbageIds(m) : i \in Nat
  BY DEF GarbageIds, IsManifest, IsGarbage
<1> QED
  BY <1>2, <1>3, UsedIffReferenced

(* An edit keeps every used id below the counter.                          *)
LEMMA EditIds ==
    ASSUME NEW m, IsManifest(m), IdsBelow(m), NEW n, NEW new, NEW b, EditOK(m, n, new, b)
    PROVE  IdsBelow(n)
<1>1. \A i \in Used(n) : i \in Used(m) \/ i \in new
  BY UsedIffReferenced DEF EditOK
<1>2. \A i \in Used(m) : i < n.next_segment_id
  <2>1. m.next_segment_id \in Nat /\ n.next_segment_id \in Nat
    BY DEF EditOK, IsManifest
  <2>2. m.next_segment_id <= n.next_segment_id
    BY DEF EditOK
  <2>3. \A i \in Used(m) : i \in Nat /\ i < m.next_segment_id
    BY UsedNat DEF IdsBelow
  <2> QED
    BY <2>1, <2>2, <2>3
<1> QED
  BY <1>1, <1>2 DEF EditOK, IdsBelow

(* Two edits of one commit compose, when the second adds ids the first     *)
(* manifest did not use.                                                   *)
LEMMA EditChain ==
    ASSUME NEW m, IsManifest(m), NEW k, NEW n, NEW new, NEW b \in Nat,
           EditOK(m, k, {}, b), EditOK(k, n, new, b),
           n.garbage = k.garbage, new \intersect Used(m) = {}
    PROVE  EditOK(m, n, new, b)
<1>1. GarbageIds(n) = GarbageIds(k)
  BY DEF GarbageIds
<1>2. \A i : References(m, i) => i \notin new
  BY UsedIffReferenced
<1>3. \A i : References(n, i) => References(m, i) \/ i \in new
  BY DEF EditOK
<1>4. \A i : References(m, i) => References(n, i) \/ i \in GarbageIds(n)
  BY <1>1 DEF EditOK
<1>5. \A i \in GarbageIds(n) : \/ i \in GarbageIds(m)
                               \/ References(m, i) /\ ~References(n, i)
  BY <1>1, <1>2 DEF EditOK
<1>6. m.next_segment_id <= n.next_segment_id
  BY DEF EditOK, IsManifest
<1> QED
  BY <1>3, <1>4, <1>5, <1>6 DEF EditOK

(* AddSegments references the segments it adds and nothing else new.       *)
LEMMA AddSegmentsEdit ==
    ASSUME NEW m, IsManifest(m), IdsBelow(m), NEW t \in m.tables,
           NEW b \in Nat, m.next_segment_id <= b,
           NEW segs, \A s \in segs : IsSegment(s) /\ s.id < b
    PROVE  LET n == AddSegments(m, t, segs)
           IN  EditOK(m, n, SegIds(segs), b) /\ n.garbage = m.garbage
<1> DEFINE u == [t EXCEPT !.segments = t.segments \union segs]
           k == Replace(m, t, u)
           next == BumpSegmentId(k.next_segment_id, u.segments)
           n == [k EXCEPT !.next_segment_id = next]
<1>1. n = AddSegments(m, t, segs)
  BY DEF AddSegments
<1>2. IsEntry(t)
  BY DEF IsManifest
<1>3. IsEntry(u) /\ u.segments = t.segments \union segs
  <2>1. \A s \in t.segments \union segs : IsSegment(s)
    BY <1>2 DEF IsEntry
  <2> QED
    BY <1>2, <2>1, EntryWithSegments
<1> HIDE DEF u
<1>4. /\ IsManifest(k)
      /\ k.tables = (m.tables \ {t}) \union {u}
      /\ k.jobs = m.jobs
      /\ k.retired = m.retired
      /\ k.garbage = m.garbage
      /\ k.version = m.version
      /\ k.next_segment_id = m.next_segment_id
  BY <1>3, ReplaceShape
<1>5. \A s \in u.segments : IsSegment(s) /\ s.id < b
  <2>1. \A s \in t.segments : s.id \in Nat /\ s.id < m.next_segment_id
    <3>1. \A s \in t.segments : References(m, s.id)
      BY DEF References, SegIds
    <3> QED
      BY <3>1, UsedIffReferenced, UsedNat DEF IdsBelow
  <2>2. \A s \in t.segments : s.id < b
    BY <2>1 DEF IsManifest
  <2> QED
    BY <1>2, <1>3, <2>2 DEF IsEntry
<1>6. /\ next \in Nat /\ m.next_segment_id <= next /\ next <= b
      /\ \A s \in u.segments : s.id < next
  <2>1. m.next_segment_id \in Nat
    BY DEF IsManifest
  <2> QED
    BY <1>4, <1>5, <2>1, BumpBounds
<1> HIDE DEF k, next
<1>7. /\ IsManifest(n)
      /\ n.tables = k.tables
      /\ n.jobs = k.jobs
      /\ n.retired = k.retired
      /\ n.garbage = k.garbage
      /\ n.version = k.version
      /\ n.next_segment_id = next
  BY <1>4, <1>6 DEF IsManifest
<1> HIDE DEF n
<1>8. SegIds(u.segments) = SegIds(t.segments) \union SegIds(segs)
  BY <1>3 DEF SegIds
<1>9. \A i : References(n, i) => References(m, i) \/ i \in SegIds(segs)
  BY <1>4, <1>7, <1>8, ReplaceReferences
<1>10. \A i : References(m, i) => References(n, i)
  BY <1>4, <1>7, <1>8, ReplaceReferences
<1>11. \A i \in SegIds(segs) : i < next
  BY <1>3, <1>6 DEF SegIds
<1>12. GarbageIds(n) = GarbageIds(m)
  BY <1>4, <1>7 DEF GarbageIds
<1>13. EditOK(m, n, SegIds(segs), b)
  BY <1>4, <1>6, <1>7, <1>9, <1>10, <1>11, <1>12 DEF EditOK
<1> QED
  BY <1>1, <1>4, <1>7, <1>13

(* ALTER TABLE adds a job with an empty target.                            *)
LEMMA CreateJobEdit ==
    ASSUME NEW m, IsManifest(m), NEW t \in m.tables, NEW ops,
           NEW b \in Nat, m.next_segment_id <= b
    PROVE  EditOK(m, CreateJob(m, t, ops), {}, b)
<1> DEFINE j == NewJob(m, t, ops)
           n == CreateJob(m, t, ops)
<1>1. PICK a, c, d :
         j = [id |-> m.next_job_id, source |-> t.id, handled |-> {},
              target |-> [id |-> m.next_table_id, name |-> t.name, schema |-> a,
                          next_field_id |-> c, order_by |-> d,
                          segments |-> {}, tombstones |-> {}]]
  BY DEF NewJob
<1>2. IsEntry(t)
  BY DEF IsManifest
<1>3. IsEntry(j.target) /\ j.target.segments = {}
  <2>1. m.next_table_id \in Nat /\ t.name \in Names
    BY <1>2 DEF IsManifest, IsEntry
  <2> HIDE DEF j
  <2> QED
    BY <1>1, <2>1 DEF IsEntry
<1>4. IsJob(j)
  <2>1. m.next_job_id \in Nat /\ t.id \in Nat
    BY <1>2 DEF IsManifest, IsEntry
  <2> HIDE DEF j
  <2>2. j = [id |-> j.id, source |-> j.source, target |-> j.target, handled |-> j.handled]
    BY <1>1
  <2>3. j.id = m.next_job_id /\ j.source = t.id
    BY <1>1
  <2> QED
    BY <1>3, <2>1, <2>2, <2>3 DEF IsJob
<1>5. n = [m EXCEPT !.jobs = m.jobs \union {j}, !.next_job_id = m.next_job_id + 1,
                    !.next_table_id = m.next_table_id + 1]
  BY DEF CreateJob
<1> HIDE DEF j, n
<1>6. /\ IsManifest(n)
      /\ n.tables = m.tables
      /\ n.jobs = m.jobs \union {j}
      /\ n.retired = m.retired
      /\ n.garbage = m.garbage
      /\ n.version = m.version
      /\ n.next_segment_id = m.next_segment_id
  <2>1. \A i \in m.jobs \union {j} : IsJob(i)
    BY <1>4 DEF IsManifest
  <2>2. m.next_job_id + 1 \in Nat /\ m.next_table_id + 1 \in Nat
    BY DEF IsManifest
  <2> QED
    BY <1>5, <2>1, <2>2 DEF IsManifest
<1>7. \A i : References(n, i) <=> References(m, i)
  BY <1>3, <1>6 DEF References, SegIds
<1> QED
  BY <1>6, <1>7, SameReferences DEF n

(* A carried segment keeps its id.                                         *)
LEMMA CarriedShape ==
    ASSUME NEW m, IsManifest(m), NEW t \in m.tables, NEW j, NEW ids
    PROVE  \A s \in Carried(t, j, ids) : IsSegment(s) /\ s.id \in SegIds(t.segments)
<1>1. \A s \in t.segments : IsSegment(s)
  BY DEF IsManifest, IsEntry
<1>2. \A s \in t.segments : LET p == ProjectOnto(s, j.target.schema)
                            IN  IsSegment(p) /\ p.id = s.id
  BY <1>1 DEF ProjectOnto, IsSegment
<1> QED
  BY <1>2 DEF Carried, SegIds

(* An advanced job lists the carried and the rewritten segments besides    *)
(* its own.                                                                *)
LEMMA AdvancedShape ==
    ASSUME NEW m, IsManifest(m), NEW t \in m.tables, NEW j, IsJob(j), NEW reused, NEW rewritten,
           NEW segs, \A s \in segs : IsSegment(s)
    PROVE  LET k == Advanced(t, j, reused, rewritten, segs)
           IN  /\ IsJob(k)
               /\ k.id = j.id /\ k.source = j.source
               /\ k.target.name = j.target.name /\ k.target.id = j.target.id
               /\ k.target.segments = j.target.segments \union Carried(t, j, reused) \union segs
<1> DEFINE u == [j.target EXCEPT !.segments = j.target.segments \union Carried(t, j, reused) \union segs]
           h == j.handled \union reused \union rewritten
           k == Advanced(t, j, reused, rewritten, segs)
<1>1. /\ IsEntry(u)
      /\ u.segments = j.target.segments \union Carried(t, j, reused) \union segs
      /\ u.id = j.target.id /\ u.name = j.target.name
  <2>1. IsEntry(j.target)
    BY DEF IsJob
  <2>2. \A s \in j.target.segments \union Carried(t, j, reused) \union segs : IsSegment(s)
    BY <2>1, CarriedShape DEF IsEntry
  <2> QED
    BY <2>1, <2>2, EntryWithSegments
<1>2. k = [j EXCEPT !.target = u, !.handled = h]
  BY DEF Advanced
<1>3. j = [id |-> j.id, source |-> j.source, target |-> j.target, handled |-> j.handled]
  BY DEF IsJob
<1> HIDE DEF u, h, k
<1>4. k = [id |-> j.id, source |-> j.source, target |-> u, handled |-> h]
  BY <1>2, <1>3
<1>5. IsJob(k)
  BY <1>1, <1>4 DEF IsJob
<1> QED
  BY <1>1, <1>4, <1>5 DEF k

(* A job step references only rewritten segments and segments its source   *)
(* has.                                                                    *)
LEMMA AdvanceJobEdit ==
    ASSUME NEW m, IsManifest(m), IdsBelow(m), NEW t \in m.tables, NEW j \in m.jobs,
           NEW reused, NEW rewritten, NEW b \in Nat, m.next_segment_id <= b,
           NEW segs, \A s \in segs : IsSegment(s) /\ s.id < b
    PROVE  LET n == AdvanceJob(m, t, j, reused, rewritten, segs)
               k == Advanced(t, j, reused, rewritten, segs)
           IN  /\ EditOK(m, n, SegIds(segs), b)
               /\ n.garbage = m.garbage /\ n.tables = m.tables /\ n.retired = m.retired
               /\ n.jobs = (m.jobs \ {j}) \union {k}
<1> DEFINE k == Advanced(t, j, reused, rewritten, segs)
           next == BumpSegmentId(m.next_segment_id, k.target.segments)
           n == AdvanceJob(m, t, j, reused, rewritten, segs)
<1>1. n = [m EXCEPT !.jobs = (m.jobs \ {j}) \union {k}, !.next_segment_id = next]
  BY DEF AdvanceJob
<1>2. IsJob(j) /\ \A s \in j.target.segments : IsSegment(s)
  BY DEF IsManifest, IsJob, IsEntry
<1>3. /\ IsJob(k)
      /\ k.target.segments = j.target.segments \union Carried(t, j, reused) \union segs
  BY <1>2, AdvancedShape
<1> HIDE DEF k, n
<1>4. \A s \in j.target.segments \union Carried(t, j, reused) :
         IsSegment(s) /\ References(m, s.id)
  <2>1. \A s \in j.target.segments : IsSegment(s) /\ References(m, s.id)
    BY <1>2 DEF References, SegIds
  <2>2. \A s \in Carried(t, j, reused) : IsSegment(s) /\ References(m, s.id)
    BY CarriedShape DEF References
  <2> QED
    BY <2>1, <2>2
<1>5. \A s \in k.target.segments : IsSegment(s) /\ s.id < b
  <2>1. \A i : References(m, i) => i \in Nat /\ i < m.next_segment_id
    BY UsedIffReferenced, UsedNat DEF IdsBelow
  <2>2. \A i : References(m, i) => i < b
    BY <2>1 DEF IsManifest
  <2> QED
    BY <1>3, <1>4, <2>2
<1>6. /\ next \in Nat /\ m.next_segment_id <= next /\ next <= b
      /\ \A s \in k.target.segments : s.id < next
  <2>1. m.next_segment_id \in Nat
    BY DEF IsManifest
  <2> QED
    BY <1>5, <2>1, BumpBounds
<1> HIDE DEF next
<1>7. /\ IsManifest(n)
      /\ n.tables = m.tables
      /\ n.jobs = (m.jobs \ {j}) \union {k}
      /\ n.retired = m.retired
      /\ n.garbage = m.garbage
      /\ n.version = m.version
      /\ n.next_segment_id = next
  <2>1. \A i \in (m.jobs \ {j}) \union {k} : IsJob(i)
    BY <1>3 DEF IsManifest
  <2> QED
    BY <1>1, <1>6, <2>1 DEF IsManifest
<1>8. \A i \in SegIds(k.target.segments) : References(m, i) \/ i \in SegIds(segs)
  BY <1>3, <1>4 DEF SegIds
<1>9. \A i : References(n, i) => References(m, i) \/ i \in SegIds(segs)
  <2>1. \A x \in n.jobs : x \in m.jobs \/ x = k
    BY <1>7
  <2> QED
    BY <1>7, <1>8, <2>1 DEF References
<1>10. \A i : References(m, i) => References(n, i)
  <2>1. \A x \in m.jobs : x \in n.jobs \/ x = j
    BY <1>7
  <2>2. k \in n.jobs /\ SegIds(j.target.segments) \subseteq SegIds(k.target.segments)
    BY <1>3, <1>7 DEF SegIds
  <2> QED
    BY <1>7, <2>1, <2>2 DEF References
<1>11. \A i \in SegIds(segs) : i < next
  BY <1>3, <1>6 DEF SegIds
<1>12. GarbageIds(n) = GarbageIds(m)
  BY <1>7 DEF GarbageIds
<1>13. EditOK(m, n, SegIds(segs), b)
  BY <1>6, <1>7, <1>9, <1>10, <1>11, <1>12 DEF EditOK
<1> QED
  BY <1>7, <1>13 DEF k, n

(* A retired definition keeps its entry.                                   *)
LEMMA RetireShape ==
    ASSUME NEW m, IsManifest(m), NEW t, IsEntry(t), NEW successors,
           NEW reason \in {"swapped", "dropped", "reverted"}
    PROVE  LET r == Retire(m, t, reason, successors) IN IsRetired(r) /\ r.entry = t
  BY DEF Retire, IsRetired, IsManifest

(* A swap drops no reference: the source is retired and the target goes    *)
(* live.                                                                   *)
LEMMA SwapJobEdit ==
    ASSUME NEW m, IsManifest(m), NEW t \in m.tables, NEW j \in m.jobs,
           NEW b \in Nat, m.next_segment_id <= b
    PROVE  LET n == SwapJob(m, t, j) IN EditOK(m, n, {}, b) /\ n.garbage = m.garbage
<1> DEFINE u == [j.target EXCEPT
                  !.tombstones = RenameTombstones(t.tombstones, t.schema, j.target.schema)]
           r == Retire(m, t, "swapped", SegIds(u.segments))
           n == SwapJob(m, t, j)
<1>1. n = [m EXCEPT !.tables = (m.tables \ {t}) \union {u}, !.jobs = m.jobs \ {j},
                    !.retired = m.retired \union {r}]
  BY DEF SwapJob
<1>2. IsEntry(t) /\ IsEntry(j.target)
  BY DEF IsManifest, IsJob
<1>3. IsEntry(u) /\ u.segments = j.target.segments
  BY <1>2, EntryWithTombstones
<1> HIDE DEF u
<1>4. IsRetired(r) /\ r.entry = t
  BY <1>2, RetireShape
<1> HIDE DEF r, n
<1>5. /\ IsManifest(n)
      /\ n.tables = (m.tables \ {t}) \union {u}
      /\ n.jobs = m.jobs \ {j}
      /\ n.retired = m.retired \union {r}
      /\ n.garbage = m.garbage
      /\ n.version = m.version
      /\ n.next_segment_id = m.next_segment_id
  <2>1. /\ \A x \in (m.tables \ {t}) \union {u} : IsEntry(x)
        /\ \A x \in m.jobs \ {j} : IsJob(x)
        /\ \A x \in m.retired \union {r} : IsRetired(x)
    BY <1>3, <1>4 DEF IsManifest
  <2> QED
    BY <1>1, <2>1 DEF IsManifest
<1>6. \A i : References(n, i) => References(m, i)
  <2>1. \A x \in n.tables : x \in m.tables \/ x = u
    BY <1>5
  <2>2. \A x \in n.retired : x \in m.retired \/ x = r
    BY <1>5
  <2>3. \A x \in n.jobs : x \in m.jobs
    BY <1>5
  <2> QED
    BY <1>3, <1>4, <2>1, <2>2, <2>3 DEF References
<1>7. \A i : References(m, i) => References(n, i)
  <2>1. \A x \in m.tables : x \in n.tables \/ x = r.entry
    BY <1>4, <1>5
  <2>2. \A x \in m.retired \union {r} : x \in n.retired
    BY <1>5
  <2>3. \A x \in m.jobs : x \in n.jobs \/ x = j
    BY <1>5
  <2>4. u \in n.tables /\ r \in n.retired
    BY <1>5
  <2> QED
    BY <1>3, <2>1, <2>2, <2>3, <2>4 DEF References
<1> QED
  BY <1>5, <1>6, <1>7, SameReferences DEF n

(* Cancelling a job releases its target's segments.                        *)
LEMMA CancelJobEdit ==
    ASSUME NEW m, IsManifest(m), NEW j \in m.jobs, NEW b \in Nat, m.next_segment_id <= b
    PROVE  EditOK(m, CancelJob(m, j), {}, b)
<1> DEFINE k == [m EXCEPT !.jobs = m.jobs \ {j}]
<1>1. CancelJob(m, j) = Release(k, j.target.segments, m.version + 1)
  BY DEF CancelJob
<1>2. /\ IsManifest(k)
      /\ k.tables = m.tables
      /\ k.jobs = m.jobs \ {j}
      /\ k.retired = m.retired
      /\ k.garbage = m.garbage
      /\ k.version = m.version
      /\ k.next_segment_id = m.next_segment_id
  BY DEF IsManifest
<1> HIDE DEF k
<1>3. \A s \in j.target.segments : IsSegment(s) /\ References(m, s.id)
  BY DEF IsManifest, IsJob, IsEntry, References, SegIds
<1>4. \A i : References(k, i) => References(m, i)
  BY <1>2 DEF References
<1>5. \A i : References(m, i) => References(k, i) \/ i \in SegIds(j.target.segments)
  <2>1. \A x \in m.jobs : x \in k.jobs \/ x = j
    BY <1>2
  <2> QED
    BY <1>2, <2>1 DEF References
<1> QED
  BY <1>1, <1>2, <1>3, <1>4, <1>5, ReleaseEdit

(* DROP keeps every reference in the retired definition.                   *)
LEMMA DropTableEdit ==
    ASSUME NEW m, IsManifest(m), NEW t \in m.tables, NEW b \in Nat, m.next_segment_id <= b
    PROVE  EditOK(m, DropTable(m, t), {}, b)
<1> DEFINE r == Retire(m, t, "dropped", {})
           n == DropTable(m, t)
<1>1. n = [m EXCEPT !.tables = m.tables \ {t}, !.retired = m.retired \union {r}]
  BY DEF DropTable
<1>2. IsRetired(r) /\ r.entry = t
  BY RetireShape DEF IsManifest
<1> HIDE DEF r, n
<1>3. /\ IsManifest(n)
      /\ n.tables = m.tables \ {t}
      /\ n.jobs = m.jobs
      /\ n.retired = m.retired \union {r}
      /\ n.garbage = m.garbage
      /\ n.version = m.version
      /\ n.next_segment_id = m.next_segment_id
  <2>1. \A x \in m.retired \union {r} : IsRetired(x)
    BY <1>2 DEF IsManifest
  <2> QED
    BY <1>1, <2>1 DEF IsManifest
<1>4. \A i : References(n, i) <=> References(m, i)
  <2>1. \A x \in m.tables : x \in n.tables \/ x = r.entry
    BY <1>2, <1>3
  <2>2. \A x \in n.retired : x \in m.retired \/ x = r
    BY <1>3
  <2>3. /\ r \in n.retired /\ r.entry \in m.tables
        /\ n.tables \subseteq m.tables /\ m.retired \subseteq n.retired
    BY <1>2, <1>3
  <2> QED
    BY <1>3, <2>1, <2>2, <2>3 DEF References
<1> QED
  BY <1>3, <1>4, SameReferences DEF n

(* UNDROP brings back the references of the retired definition.            *)
LEMMA UndropTableEdit ==
    ASSUME NEW m, IsManifest(m), NEW r \in m.retired, NEW b \in Nat, m.next_segment_id <= b
    PROVE  EditOK(m, UndropTable(m, r), {}, b)
<1> DEFINE n == UndropTable(m, r)
<1>1. n = [m EXCEPT !.tables = m.tables \union {r.entry}, !.retired = m.retired \ {r}]
  BY DEF UndropTable
<1> HIDE DEF n
<1>2. /\ IsManifest(n)
      /\ n.tables = m.tables \union {r.entry}
      /\ n.jobs = m.jobs
      /\ n.retired = m.retired \ {r}
      /\ n.garbage = m.garbage
      /\ n.version = m.version
      /\ n.next_segment_id = m.next_segment_id
  <2>1. \A x \in m.tables \union {r.entry} : IsEntry(x)
    BY DEF IsManifest, IsRetired
  <2> QED
    BY <1>1, <2>1 DEF IsManifest
<1>3. \A i : References(n, i) <=> References(m, i)
  <2>1. \A x \in n.tables : x \in m.tables \/ x = r.entry
    BY <1>2
  <2>2. \A x \in m.retired : x \in n.retired \/ x = r
    BY <1>2
  <2>3. r.entry \in n.tables /\ m.tables \subseteq n.tables /\ n.retired \subseteq m.retired
    BY <1>2
  <2> QED
    BY <1>2, <2>1, <2>2, <2>3 DEF References
<1> QED
  BY <1>2, <1>3, SameReferences DEF n

(* A restored table lists the old segments and those written since the     *)
(* swap.                                                                   *)
LEMMA RestoredShape ==
    ASSUME NEW m, IsManifest(m), NEW r \in m.retired, NEW cur \in m.tables
    PROVE  LET u == Restored(r, cur)
           IN  /\ IsEntry(u)
               /\ u.id = r.entry.id /\ u.name = r.entry.name
               /\ SegIds(r.entry.segments) \subseteq SegIds(u.segments)
               /\ SegIds(u.segments) \subseteq SegIds(r.entry.segments) \union SegIds(cur.segments)
<1> DEFINE u == Restored(r, cur)
           P == {ProjectOnto(s, r.entry.schema) : s \in Since(r, cur)}
<1>1. IsEntry(r.entry) /\ IsEntry(cur)
  BY DEF IsManifest, IsRetired
<1>2. \A s \in P : IsSegment(s) /\ s.id \in SegIds(cur.segments)
  <2>1. \A s \in cur.segments : LET p == ProjectOnto(s, r.entry.schema)
                                IN  IsSegment(p) /\ p.id = s.id
    BY <1>1 DEF ProjectOnto, IsSegment, IsEntry
  <2> QED
    BY <2>1 DEF Since, SegIds
<1>3. PICK nf, tomb :
         u = [id |-> r.entry.id, name |-> r.entry.name, schema |-> r.entry.schema,
              order_by |-> r.entry.order_by, next_field_id |-> nf,
              segments |-> r.entry.segments \union P, tombstones |-> tomb]
  BY DEF Restored
<1> HIDE DEF u, P
<1>4. u.segments = r.entry.segments \union P /\ u.id = r.entry.id /\ u.name = r.entry.name
  BY <1>3
<1>5. IsEntry(u)
  <2>1. u = [id |-> u.id, name |-> u.name, schema |-> u.schema,
             next_field_id |-> u.next_field_id, order_by |-> u.order_by,
             segments |-> u.segments, tombstones |-> u.tombstones]
    BY <1>3
  <2>2. \A s \in u.segments : IsSegment(s)
    BY <1>1, <1>2, <1>4 DEF IsEntry
  <2>3. u.id \in Nat /\ u.name \in Names
    BY <1>1, <1>4 DEF IsEntry
  <2> QED
    BY <2>1, <2>2, <2>3 DEF IsEntry
<1>6. /\ SegIds(r.entry.segments) \subseteq SegIds(u.segments)
      /\ SegIds(u.segments) \subseteq SegIds(r.entry.segments) \union SegIds(cur.segments)
  BY <1>2, <1>4 DEF SegIds
<1> QED
  BY <1>4, <1>5, <1>6 DEF u

(* REVERT drops no reference: the replaced definition is retired.          *)
LEMMA RevertTableEdit ==
    ASSUME NEW m, IsManifest(m), NEW r \in m.retired, NEW cur \in m.tables,
           NEW b \in Nat, m.next_segment_id <= b
    PROVE  EditOK(m, RevertTable(m, r, cur), {}, b)
<1> DEFINE u == Restored(r, cur)
           q == Retire(m, cur, "reverted", {})
           n == RevertTable(m, r, cur)
<1>1. n = [m EXCEPT !.tables = (m.tables \ {cur}) \union {u},
                    !.retired = (m.retired \ {r}) \union {q}]
  BY DEF RevertTable
<1>2. IsRetired(q) /\ q.entry = cur
  BY RetireShape DEF IsManifest
<1>3. /\ IsEntry(u)
      /\ SegIds(r.entry.segments) \subseteq SegIds(u.segments)
      /\ SegIds(u.segments) \subseteq SegIds(r.entry.segments) \union SegIds(cur.segments)
  BY RestoredShape
<1> HIDE DEF u, q, n
<1>4. /\ IsManifest(n)
      /\ n.tables = (m.tables \ {cur}) \union {u}
      /\ n.jobs = m.jobs
      /\ n.retired = (m.retired \ {r}) \union {q}
      /\ n.garbage = m.garbage
      /\ n.version = m.version
      /\ n.next_segment_id = m.next_segment_id
  <2>1. /\ \A x \in (m.tables \ {cur}) \union {u} : IsEntry(x)
        /\ \A x \in (m.retired \ {r}) \union {q} : IsRetired(x)
    BY <1>2, <1>3 DEF IsManifest
  <2> QED
    BY <1>1, <2>1 DEF IsManifest
<1>5. \A i : References(n, i) => References(m, i)
  <2>1. \A x \in n.tables : x \in m.tables \/ x = u
    BY <1>4
  <2>2. \A x \in n.retired : x \in m.retired \/ x = q
    BY <1>4
  <2> QED
    BY <1>2, <1>3, <1>4, <2>1, <2>2 DEF References
<1>6. \A i : References(m, i) => References(n, i)
  <2>1. \A x \in m.tables : x \in n.tables \/ x = q.entry
    BY <1>2, <1>4
  <2>2. \A x \in m.retired : x \in n.retired \/ x = r
    BY <1>4
  <2>3. u \in n.tables /\ q \in n.retired
    BY <1>4
  <2> QED
    BY <1>3, <1>4, <2>1, <2>2, <2>3 DEF References
<1> QED
  BY <1>4, <1>5, <1>6, SameReferences DEF n

(* Expiry releases the segments of the definitions it forgets.             *)
LEMMA ExpireRetiredEdit ==
    ASSUME NEW m, IsManifest(m), NEW expired \in SUBSET m.retired,
           NEW b \in Nat, m.next_segment_id <= b
    PROVE  EditOK(m, ExpireRetired(m, expired), {}, b)
<1> DEFINE k == [m EXCEPT !.retired = m.retired \ expired]
           segs == UNION {r.entry.segments : r \in expired}
<1>1. ExpireRetired(m, expired) = Release(k, segs, m.version + 1)
  BY DEF ExpireRetired
<1>2. /\ IsManifest(k)
      /\ k.tables = m.tables
      /\ k.jobs = m.jobs
      /\ k.retired = m.retired \ expired
      /\ k.garbage = m.garbage
      /\ k.version = m.version
      /\ k.next_segment_id = m.next_segment_id
  BY DEF IsManifest
<1> HIDE DEF k
<1>3. ASSUME NEW r \in expired, NEW s \in r.entry.segments
      PROVE  IsSegment(s) /\ References(m, s.id)
  <2>1. r \in m.retired
    OBVIOUS
  <2>2. IsEntry(r.entry)
    BY <2>1 DEF IsManifest, IsRetired
  <2>3. IsSegment(s)
    BY <2>2 DEF IsEntry
  <2>4. s.id \in SegIds(r.entry.segments)
    BY DEF SegIds
  <2> QED
    BY <2>1, <2>3, <2>4 DEF References
<1>4. \A s \in segs : IsSegment(s) /\ References(m, s.id)
  BY <1>3
<1>5. \A i : References(k, i) => References(m, i)
  BY <1>2 DEF References
<1>6. \A i : References(m, i) => References(k, i) \/ i \in SegIds(segs)
  <2>1. \A x \in m.retired : x \in k.retired \/ x \in expired
    BY <1>2
  <2>2. \A x \in expired : \A s \in x.entry.segments : s \in segs
    OBVIOUS
  <2>3. \A x \in expired : SegIds(x.entry.segments) \subseteq SegIds(segs)
    BY <2>2 DEF SegIds
  <2> HIDE DEF segs
  <2> QED
    BY <1>2, <2>1, <2>3 DEF References
<1> HIDE DEF segs
<1> QED
  BY <1>1, <1>2, <1>4, <1>5, <1>6, ReleaseEdit

(* gc's last commit only shortens the garbage list.                        *)
LEMMA ForgetGarbageEdit ==
    ASSUME NEW m, IsManifest(m), NEW ids, NEW b \in Nat, m.next_segment_id <= b,
           \A i \in GarbageIds(m) : ~References(m, i)
    PROVE  EditOK(m, ForgetGarbage(m, ids), {}, b)
<1> DEFINE n == ForgetGarbage(m, ids)
<1>1. /\ IsManifest(n)
      /\ n.tables = m.tables
      /\ n.jobs = m.jobs
      /\ n.retired = m.retired
      /\ n.garbage = {g \in m.garbage : g.id \notin ids}
      /\ n.version = m.version
      /\ n.next_segment_id = m.next_segment_id
  BY DEF ForgetGarbage, IsManifest
<1> HIDE DEF n
<1>2. \A i : References(n, i) <=> References(m, i)
  BY <1>1 DEF References
<1>3. GarbageIds(n) \subseteq GarbageIds(m)
  BY <1>1 DEF GarbageIds
<1>4. m.next_segment_id <= n.next_segment_id /\ n.next_segment_id <= b
  BY <1>1 DEF IsManifest
<1> QED
  BY <1>1, <1>2, <1>3, <1>4 DEF EditOK, n

(* A commit raises the version and changes nothing else.                   *)
LEMMA NextVersionShape ==
    ASSUME NEW m, IsManifest(m)
    PROVE  LET n == NextVersion(m)
           IN  /\ IsManifest(n)
               /\ n.tables = m.tables
               /\ n.jobs = m.jobs
               /\ n.retired = m.retired
               /\ n.garbage = m.garbage
               /\ n.version = m.version + 1
               /\ n.next_segment_id = m.next_segment_id
               /\ n.next_table_id = m.next_table_id
               /\ n.next_job_id = m.next_job_id
  BY DEF NextVersion, IsManifest

(* A segment with another seq is still a segment.                          *)
LEMMA SegmentWithSeq ==
    ASSUME NEW s, IsSegment(s), NEW q
    PROVE  LET u == [s EXCEPT !.seq = q] IN IsSegment(u) /\ u.id = s.id
  BY DEF IsSegment

(* A flush references the flusher's segments and nothing else new.         *)
LEMMA AddFlushedEdit ==
    ASSUME IsManifest(manifest), IdsBelow(manifest),
           NEW b \in Nat, manifest.next_segment_id <= b,
           \A p \in flushing : IsSegment(p.seg) /\ p.seg.id < b
    PROVE  \E new \in SUBSET FlushIds : EditOK(manifest, AddFlushed, new, b)
<1> DEFINE m == manifest
           n == AddFlushed
           segs == UNION {FlushedInto(t) : t \in m.tables}
           next == BumpSegmentId(m.next_segment_id, segs)
<1>1. n = [m EXCEPT !.tables = {Grown(t) : t \in m.tables}, !.next_segment_id = next]
  BY DEF AddFlushed
<1>2. \A t : \A s \in FlushedInto(t) : IsSegment(s) /\ s.id < b /\ s.id \in FlushIds
  <2>1. \A p \in flushing : LET s == [p.seg EXCEPT !.seq = m.version + 1]
                            IN  IsSegment(s) /\ s.id = p.seg.id
    BY SegmentWithSeq
  <2> QED
    BY <2>1 DEF FlushedInto, FlushIds
<1>3. \A s \in segs : IsSegment(s) /\ s.id < b /\ s.id \in FlushIds
  BY <1>2
<1>4. \A t \in m.tables : /\ IsEntry(Grown(t))
                          /\ Grown(t).segments = t.segments \union FlushedInto(t)
  <2> TAKE t \in m.tables
  <2>1. IsEntry(t)
    BY DEF IsManifest
  <2>2. \A s \in t.segments \union FlushedInto(t) : IsSegment(s)
    BY <1>2, <2>1 DEF IsEntry
  <2> QED
    BY <2>1, <2>2, EntryWithSegments DEF Grown
<1>5. /\ next \in Nat /\ m.next_segment_id <= next /\ next <= b
      /\ \A s \in segs : s.id < next
  <2>1. m.next_segment_id \in Nat
    BY DEF IsManifest
  <2> HIDE DEF segs
  <2> QED
    BY <1>3, <2>1, BumpBounds
<1>6. /\ \A t \in m.tables : FlushedInto(t) \subseteq segs
      /\ SegIds(segs) \subseteq FlushIds
  BY <1>3 DEF SegIds
<1> HIDE DEF n, segs, next
<1>7. /\ IsManifest(n)
      /\ n.tables = {Grown(t) : t \in m.tables}
      /\ n.jobs = m.jobs
      /\ n.retired = m.retired
      /\ n.garbage = m.garbage
      /\ n.version = m.version
      /\ n.next_segment_id = next
  <2>1. \A x \in {Grown(t) : t \in m.tables} : IsEntry(x)
    BY <1>4
  <2> QED
    BY <1>1, <1>5, <2>1 DEF IsManifest
<1>8. \A t \in m.tables : /\ SegIds(Grown(t).segments) \subseteq SegIds(t.segments) \union SegIds(segs)
                          /\ SegIds(t.segments) \subseteq SegIds(Grown(t).segments)
  BY <1>4, <1>6 DEF SegIds
<1>9. \A i : References(n, i) => References(m, i) \/ i \in SegIds(segs)
  BY <1>7, <1>8 DEF References
<1>10. \A i : References(m, i) => References(n, i)
  <2>1. \A t \in m.tables : Grown(t) \in n.tables
    BY <1>7
  <2> QED
    BY <1>7, <1>8, <2>1 DEF References
<1>11. \A i \in SegIds(segs) : i < next
  BY <1>5 DEF SegIds
<1>12. GarbageIds(n) = GarbageIds(m)
  BY <1>7 DEF GarbageIds
<1>13. EditOK(m, n, SegIds(segs), b)
  BY <1>5, <1>7, <1>9, <1>10, <1>11, <1>12 DEF EditOK
<1> QED
  BY <1>6, <1>13 DEF n

-----------------------------------------------------------------------------
(* The inductive invariant.                                                *)

(* A segment whose id was handed out and is not in use.                    *)
Fresh(s, m, b) == IsSegment(s) /\ s.id < b /\ s.id \notin Used(m)

(* m is the manifest, b the allocator, fl what the flusher holds and wk    *)
(* what the workers hold.                                                  *)
Safe(m, b, fl, wk) ==
    /\ IsManifest(m)
    /\ b \in Nat /\ m.next_segment_id <= b
    /\ IdsBelow(m)
    /\ \A i \in GarbageIds(m) : ~References(m, i)
    /\ \A p \in fl : Fresh(p.seg, m, b)
    /\ wk = [w \in Workers |-> wk[w]]
    /\ \A w \in Workers : \A s \in WorkSegs(wk[w]) :
         Fresh(s, m, b) /\ \A p \in fl : s.id # p.seg.id
    /\ \A v, w \in Workers : \A s \in WorkSegs(wk[v]), u \in WorkSegs(wk[w]) :
         s.id = u.id => v = w

SafeInv == Safe(manifest, next_id, flushing, work)

(* A commit that turns prepared segments into referenced ones: whatever    *)
(* was prepared and is not committed is still fresh.                       *)
LEMMA CommitStep ==
    ASSUME NEW m, NEW b, NEW fl, NEW wk, Safe(m, b, fl, wk),
           NEW n, NEW new, EditOK(m, n, new, b), new \intersect Used(m) = {},
           NEW fl2 \in SUBSET fl, \A p \in fl2 : p.seg.id \notin new,
           NEW wk2, wk2 = [w \in Workers |-> wk2[w]],
           \A w \in Workers : /\ WorkSegs(wk2[w]) \subseteq WorkSegs(wk[w])
                              /\ \A s \in WorkSegs(wk2[w]) : s.id \notin new
    PROVE  /\ Safe(NextVersion(n), b, fl2, wk2)
           /\ \A i : References(m, i) =>
                References(NextVersion(n), i) \/ i \in GarbageIds(NextVersion(n))
<1> DEFINE q == NextVersion(n)
<1>1. IsManifest(m) /\ b \in Nat /\ IdsBelow(m)
  BY DEF Safe
<1>2. IsManifest(n) /\ n.next_segment_id <= b
  BY DEF EditOK
<1>3. /\ IsManifest(q)
      /\ q.tables = n.tables
      /\ q.jobs = n.jobs
      /\ q.retired = n.retired
      /\ q.garbage = n.garbage
      /\ q.next_segment_id = n.next_segment_id
  BY <1>2, NextVersionShape
<1> HIDE DEF q
<1>4. \A i : References(q, i) <=> References(n, i)
  BY <1>3 DEF References
<1>5. GarbageIds(q) = GarbageIds(n)
  BY <1>3 DEF GarbageIds
<1>6. \A i : i \in Used(q) <=> i \in Used(n)
  BY <1>4, <1>5, UsedIffReferenced
<1>7. IdsBelow(q)
  <2>1. IdsBelow(n)
    BY <1>1, EditIds
  <2> QED
    BY <1>3, <1>6, <2>1 DEF IdsBelow
<1>8. \A i \in GarbageIds(q) : ~References(q, i)
  <2>1. \A i : References(m, i) => i \notin new
    BY UsedIffReferenced
  <2>2. \A i \in GarbageIds(m) : i \notin new /\ ~References(m, i)
    BY UsedIffReferenced DEF Safe
  <2> QED
    BY <1>4, <1>5, <2>1, <2>2 DEF EditOK
<1>9. \A i \in Used(q) : i \in Used(m) \/ i \in new
  BY <1>6, UsedIffReferenced DEF EditOK
<1>10. \A s : Fresh(s, m, b) /\ s.id \notin new => Fresh(s, q, b)
  BY <1>9 DEF Fresh
<1>11. \A p \in fl2 : Fresh(p.seg, q, b)
  BY <1>10 DEF Safe
<1>12. \A w \in Workers : \A s \in WorkSegs(wk2[w]) :
         Fresh(s, q, b) /\ \A p \in fl2 : s.id # p.seg.id
  BY <1>10 DEF Safe
<1>13. \A v, w \in Workers : \A s \in WorkSegs(wk2[v]), u \in WorkSegs(wk2[w]) :
         s.id = u.id => v = w
  BY DEF Safe
<1>14. Safe(q, b, fl2, wk2)
  BY <1>1, <1>2, <1>3, <1>7, <1>8, <1>11, <1>12, <1>13 DEF Safe
<1>15. \A i : References(m, i) => References(q, i) \/ i \in GarbageIds(q)
  BY <1>4, <1>5 DEF EditOK
<1> QED
  BY <1>14, <1>15 DEF q

(* A step drops no reference without listing it as garbage.                *)
Unleaked ==
    \A i : References(manifest, i) =>
             References(manifest', i) \/ i \in GarbageIds(manifest')

(* A commit that adds no segment and takes nothing from the flusher or the *)
(* workers keeps the invariant.                                            *)
LEMMA PlainCommit ==
    ASSUME SafeInv, NEW n, EditOK(manifest, n, {}, next_id), manifest' = NextVersion(n),
           UNCHANGED <<next_id, flushing, work>>
    PROVE  SafeInv' /\ Unleaked
<1>1. /\ Safe(NextVersion(n), next_id, flushing, work)
      /\ \A i : References(manifest, i) =>
                References(NextVersion(n), i) \/ i \in GarbageIds(NextVersion(n))
  <2>1. Safe(manifest, next_id, flushing, work)
    BY DEF SafeInv
  <2>2. work = [w \in Workers |-> work[w]]
    BY DEF SafeInv, Safe
  <2> QED
    BY <2>1, <2>2, CommitStep
<1> QED
  BY <1>1 DEF SafeInv, Unleaked

(* An empty store satisfies the invariant.                                 *)
LEMMA SafeInit == Init => SafeInv
<1> SUFFICES ASSUME Init PROVE SafeInv
  OBVIOUS
<1>1. IsManifest(manifest) /\ manifest.next_segment_id = 0
  BY DEF Init, EmptyManifest, IsManifest
<1>2. \A i : ~References(manifest, i) /\ i \notin GarbageIds(manifest)
  BY DEF Init, EmptyManifest, References, GarbageIds
<1>3. IdsBelow(manifest)
  BY <1>2, UsedIffReferenced DEF IdsBelow
<1>4. \A w \in Workers : WorkSegs(work[w]) = {}
  BY DEF Init, NoWork, WorkSegs
<1>5. next_id = 0 /\ flushing = {} /\ work = [w \in Workers |-> work[w]]
  BY DEF Init, EmptyManifest, Idle
<1> QED
  BY <1>1, <1>2, <1>3, <1>4, <1>5 DEF SafeInv, Safe

(* Ids are handed out at and above the counter, so they are fresh.         *)
LEMMA PrepareStep ==
    ASSUME NEW m, NEW b, NEW fl, NEW wk, Safe(m, b, fl, wk),
           NEW b2 \in Nat, b <= b2,
           NEW fl2, \A p \in fl2 : p \in fl \/ (IsSegment(p.seg) /\ b <= p.seg.id /\ p.seg.id < b2),
           NEW wk2, wk2 = [w \in Workers |-> wk2[w]],
           \A w \in Workers : \A s \in WorkSegs(wk2[w]) :
              s \in WorkSegs(wk[w]) \/ (IsSegment(s) /\ b <= s.id /\ s.id < b2),
           \A w \in Workers : \A s \in WorkSegs(wk2[w]), p \in fl2 : ~(b <= s.id /\ b <= p.seg.id),
           \A v, w \in Workers : \A s \in WorkSegs(wk2[v]), u \in WorkSegs(wk2[w]) :
              b <= s.id /\ b <= u.id => v = w
    PROVE  Safe(m, b2, fl2, wk2)
<1>1. /\ IsManifest(m)
      /\ b \in Nat /\ m.next_segment_id \in Nat /\ m.next_segment_id <= b
      /\ IdsBelow(m)
  BY DEF Safe, IsManifest
<1>2. \A s : IsSegment(s) /\ b <= s.id /\ s.id < b2 => Fresh(s, m, b2)
  <2>1. \A i \in Used(m) : i \in Nat /\ i < b
    BY <1>1, UsedNat DEF IdsBelow
  <2>2. \A i \in Nat : b <= i => i \notin Used(m)
    BY <1>1, <2>1
  <2> QED
    BY <2>2 DEF Fresh, IsSegment
<1>3. \A s : Fresh(s, m, b) => Fresh(s, m, b2) /\ s.id \in Nat /\ ~(b <= s.id)
  BY <1>1 DEF Fresh, IsSegment
<1>4. \A p \in fl2 : Fresh(p.seg, m, b2)
  BY <1>2, <1>3 DEF Safe
<1>5. \A w \in Workers : \A s \in WorkSegs(wk2[w]) : Fresh(s, m, b2)
  BY <1>2, <1>3 DEF Safe
<1>6. \A w \in Workers : \A s \in WorkSegs(wk2[w]), p \in fl2 : s.id # p.seg.id
  <2> TAKE w \in Workers
  <2> TAKE s \in WorkSegs(wk2[w]), p \in fl2
  <2>1. CASE s \in WorkSegs(wk[w]) /\ p \in fl
    BY <2>1 DEF Safe
  <2>2. CASE s \in WorkSegs(wk[w]) /\ b <= p.seg.id
    BY <1>3, <2>2 DEF Safe
  <2>3. CASE b <= s.id /\ p \in fl
    BY <1>3, <2>3 DEF Safe
  <2> QED
    BY <2>1, <2>2, <2>3
<1>7. \A v, w \in Workers : \A s \in WorkSegs(wk2[v]), u \in WorkSegs(wk2[w]) :
         s.id = u.id => v = w
  <2> TAKE v, w \in Workers
  <2> TAKE s \in WorkSegs(wk2[v]), u \in WorkSegs(wk2[w])
  <2>1. CASE s \in WorkSegs(wk[v]) /\ u \in WorkSegs(wk[w])
    BY <2>1 DEF Safe
  <2>2. CASE s \in WorkSegs(wk[v]) /\ b <= u.id
    BY <1>3, <2>2 DEF Safe
  <2>3. CASE b <= s.id /\ u \in WorkSegs(wk[w])
    BY <1>3, <2>3 DEF Safe
  <2> QED
    BY <2>1, <2>2, <2>3
<1>8. m.next_segment_id <= b2
  BY <1>1
<1>9. \A i \in GarbageIds(m) : ~References(m, i)
  BY DEF Safe
<1> QED
  BY <1>1, <1>4, <1>5, <1>6, <1>7, <1>8, <1>9 DEF Safe

(* The segments each kind of prepared work holds.                          *)
LEMMA WorkSegsOf ==
    /\ WorkSegs(NoWork) = {}
    /\ \A t, r, a : WorkSegs([kind |-> "merge", table |-> t, removes |-> r, adds |-> a]) = a
    /\ \A j, u, r, a : WorkSegs([kind |-> "advance", job |-> j, reused |-> u,
                                 rewritten |-> r, segments |-> a]) = a
  BY DEF WorkSegs, NoWork

-----------------------------------------------------------------------------
(* Each action keeps the invariant and leaks no segment.                   *)

(* CREATE TABLE keeps the invariant and loses no segment.                  *)
LEMMA CreateSafe ==
    ASSUME SafeInv, NEW n \in Names, NEW columns, Create(n, columns)
    PROVE  SafeInv' /\ Unleaked
<1>1. EditOK(manifest, CreateTable(manifest, n, columns), {}, next_id)
  BY CreateTableEdit DEF SafeInv, Safe
<1> QED
  BY <1>1, PlainCommit DEF Create, CommitTo, buffer

(* DELETE keeps the invariant and loses no segment.                        *)
LEMMA DeleteSafe ==
    ASSUME SafeInv, NEW n, NEW c, NEW kills, Delete(n, c, kills)
    PROVE  SafeInv' /\ Unleaked
<1>1. PICK t \in manifest.tables : CommitTo(AddTombstone(manifest, t, c, kills))
  BY DEF Delete
<1>2. EditOK(manifest, AddTombstone(manifest, t, c, kills), {}, next_id)
  BY AddTombstoneEdit DEF SafeInv, Safe
<1> QED
  BY <1>1, <1>2, PlainCommit DEF Delete, CommitTo, buffer

(* TRUNCATE keeps the invariant and loses no segment.                      *)
LEMMA TruncateSafe ==
    ASSUME SafeInv, NEW n, Truncate(n)
    PROVE  SafeInv' /\ Unleaked
<1>1. PICK t \in manifest.tables : CommitTo(TruncateTable(manifest, t))
  BY DEF Truncate
<1>2. EditOK(manifest, TruncateTable(manifest, t), {}, next_id)
  BY TruncateEdit DEF SafeInv, Safe
<1> QED
  BY <1>1, <1>2, PlainCommit DEF Truncate, CommitTo, buffer

(* ALTER TABLE keeps the invariant and loses no segment.                   *)
LEMMA AlterSafe ==
    ASSUME SafeInv, NEW n, NEW ops, Alter(n, ops)
    PROVE  SafeInv' /\ Unleaked
<1>1. PICK t \in manifest.tables : CommitTo(CreateJob(manifest, t, ops))
  BY DEF Alter
<1>2. EditOK(manifest, CreateJob(manifest, t, ops), {}, next_id)
  BY CreateJobEdit DEF SafeInv, Safe
<1> QED
  BY <1>1, <1>2, PlainCommit DEF Alter, CommitTo, buffer

(* Cancelling a job keeps the invariant and loses no segment.              *)
LEMMA CancelSafe ==
    ASSUME SafeInv, NEW j \in manifest.jobs, Cancel(j)
    PROVE  SafeInv' /\ Unleaked
<1>1. EditOK(manifest, CancelJob(manifest, j), {}, next_id)
  BY CancelJobEdit DEF SafeInv, Safe
<1> QED
  BY <1>1, PlainCommit DEF Cancel, CommitTo, buffer

(* REVERT keeps the invariant and loses no segment.                        *)
LEMMA RevertSafe ==
    ASSUME SafeInv, NEW n, Revert(n)
    PROVE  SafeInv' /\ Unleaked
<1>1. PICK cur \in manifest.tables, r \in manifest.retired :
         CommitTo(RevertTable(manifest, r, cur))
  BY DEF Revert
<1>2. EditOK(manifest, RevertTable(manifest, r, cur), {}, next_id)
  BY RevertTableEdit DEF SafeInv, Safe
<1> QED
  BY <1>1, <1>2, PlainCommit DEF Revert, CommitTo

(* DROP keeps the invariant and loses no segment.                          *)
LEMMA DropSafe ==
    ASSUME SafeInv, NEW n, Drop(n)
    PROVE  SafeInv' /\ Unleaked
<1>1. PICK t \in manifest.tables : CommitTo(DropTable(manifest, t))
  BY DEF Drop
<1>2. EditOK(manifest, DropTable(manifest, t), {}, next_id)
  BY DropTableEdit DEF SafeInv, Safe
<1> QED
  BY <1>1, <1>2, PlainCommit DEF Drop, CommitTo, buffer

(* UNDROP keeps the invariant and loses no segment.                        *)
LEMMA UndropSafe ==
    ASSUME SafeInv, NEW n, Undrop(n)
    PROVE  SafeInv' /\ Unleaked
<1>1. PICK r \in manifest.retired : CommitTo(UndropTable(manifest, r))
  BY DEF Undrop
<1>2. EditOK(manifest, UndropTable(manifest, r), {}, next_id)
  BY UndropTableEdit DEF SafeInv, Safe
<1> QED
  BY <1>1, <1>2, PlainCommit DEF Undrop, CommitTo, buffer

(* Expiry keeps the invariant and loses no segment.                        *)
LEMMA ExpireSafe ==
    ASSUME SafeInv, NEW expired \in SUBSET manifest.retired, Expire(expired)
    PROVE  SafeInv' /\ Unleaked
<1>1. EditOK(manifest, ExpireRetired(manifest, expired), {}, next_id)
  BY ExpireRetiredEdit DEF SafeInv, Safe
<1> QED
  BY <1>1, PlainCommit DEF Expire, CommitTo, buffer

(* gc's last commit keeps the invariant and loses no segment.              *)
LEMMA ForgetSafe ==
    ASSUME SafeInv, NEW ids, Forget(ids)
    PROVE  SafeInv' /\ Unleaked
<1>1. EditOK(manifest, ForgetGarbage(manifest, ids), {}, next_id)
  BY ForgetGarbageEdit DEF SafeInv, Safe
<1> QED
  BY <1>1, PlainCommit DEF Forget, CommitTo, buffer

(* The swap of a job keeps the invariant and loses no segment.             *)
LEMMA JobSwapSafe ==
    ASSUME SafeInv, NEW j \in manifest.jobs, JobSwap(j)
    PROVE  SafeInv' /\ Unleaked
<1>1. PICK t \in manifest.tables :
         LET m == AdvanceJob(manifest, t, j, SegIds(Gap(t, j)), {}, {})
             k == CHOOSE k \in m.jobs : k.id = j.id
         IN  CommitTo(SwapJob(m, t, k))
  BY DEF JobSwap
<1> DEFINE m == AdvanceJob(manifest, t, j, SegIds(Gap(t, j)), {}, {})
           a == Advanced(t, j, SegIds(Gap(t, j)), {}, {})
           k == CHOOSE k \in m.jobs : k.id = j.id
<1>2. /\ IsManifest(manifest) /\ IdsBelow(manifest) /\ IsJob(j)
      /\ next_id \in Nat /\ manifest.next_segment_id <= next_id
  BY DEF SafeInv, Safe, IsManifest
<1>3. /\ EditOK(manifest, m, SegIds({}), next_id)
      /\ m.garbage = manifest.garbage /\ m.tables = manifest.tables
      /\ m.jobs = (manifest.jobs \ {j}) \union {a}
  <2>1. \A s \in {} : IsSegment(s) /\ s.id < next_id
    OBVIOUS
  <2> QED
    BY <1>2, <2>1, AdvanceJobEdit
<1>4. SegIds({}) = {}
  BY DEF SegIds
<1>5. a.id = j.id
  BY <1>2, AdvancedShape
<1> HIDE DEF a
<1>6. k \in m.jobs
  <2>1. \E x \in m.jobs : x.id = j.id
    BY <1>3, <1>5
  <2> HIDE DEF m
  <2> QED
    BY <2>1
<1> HIDE DEF k, m
<1>7. EditOK(manifest, m, {}, next_id)
  BY <1>3, <1>4
<1>8. IsManifest(m) /\ m.next_segment_id <= next_id
  BY <1>7 DEF EditOK
<1>9. EditOK(m, SwapJob(m, t, k), {}, next_id) /\ SwapJob(m, t, k).garbage = m.garbage
  BY <1>2, <1>3, <1>6, <1>8, SwapJobEdit
<1>10. EditOK(manifest, SwapJob(m, t, k), {}, next_id)
  BY <1>2, <1>7, <1>9, EditChain
<1>11. manifest' = NextVersion(SwapJob(m, t, k))
  BY <1>1 DEF CommitTo, m, k
<1> QED
  BY <1>10, <1>11, PlainCommit DEF JobSwap

(* A flush's commit keeps the invariant and loses no segment.              *)
LEMMA FlushCommitSafe ==
    ASSUME SafeInv, FlushCommit
    PROVE  SafeInv' /\ Unleaked
<1>1. /\ Safe(manifest, next_id, flushing, work)
      /\ IsManifest(manifest) /\ IdsBelow(manifest)
      /\ next_id \in Nat /\ manifest.next_segment_id <= next_id
      /\ \A p \in flushing : Fresh(p.seg, manifest, next_id)
      /\ work = [w \in Workers |-> work[w]]
      /\ \A w \in Workers : \A s \in WorkSegs(work[w]) : \A p \in flushing : s.id # p.seg.id
  BY DEF SafeInv, Safe
<1>2. PICK new \in SUBSET FlushIds : EditOK(manifest, AddFlushed, new, next_id)
  BY <1>1, AddFlushedEdit DEF Fresh
<1>3. new \intersect Used(manifest) = {}
  BY <1>1 DEF FlushIds, Fresh
<1>4. \A w \in Workers : \A s \in WorkSegs(work[w]) : s.id \notin new
  BY <1>1 DEF FlushIds
<1>5. /\ Safe(NextVersion(AddFlushed), next_id, {}, work)
      /\ \A i : References(manifest, i) =>
           References(NextVersion(AddFlushed), i) \/ i \in GarbageIds(NextVersion(AddFlushed))
  BY <1>1, <1>2, <1>3, <1>4, CommitStep
<1>6. /\ manifest' = NextVersion(AddFlushed) /\ flushing' = {}
      /\ next_id' = next_id /\ work' = work
  BY DEF FlushCommit, CommitTo, Idle
<1> QED
  BY <1>5, <1>6 DEF SafeInv, Unleaked

(* A worker commits what it prepared.                                      *)
LEMMA WorkerCommit ==
    ASSUME SafeInv, NEW w \in Workers, NEW n,
           EditOK(manifest, n, SegIds(WorkSegs(work[w])), next_id),
           manifest' = NextVersion(n), work' = [work EXCEPT ![w] = NoWork],
           UNCHANGED <<next_id, flushing>>
    PROVE  SafeInv' /\ Unleaked
<1> DEFINE new == SegIds(WorkSegs(work[w]))
<1>1. /\ Safe(manifest, next_id, flushing, work)
      /\ work = [v \in Workers |-> work[v]]
      /\ \A v \in Workers : \A s \in WorkSegs(work[v]) :
           Fresh(s, manifest, next_id) /\ \A p \in flushing : s.id # p.seg.id
      /\ \A u, v \in Workers : \A s \in WorkSegs(work[u]), r \in WorkSegs(work[v]) :
           s.id = r.id => u = v
  BY DEF SafeInv, Safe
<1>2. /\ work' = [v \in Workers |-> work'[v]]
      /\ work'[w] = NoWork
      /\ \A v \in Workers : v # w => work'[v] = work[v]
  BY <1>1
<1>3. new \intersect Used(manifest) = {}
  BY <1>1 DEF Fresh, SegIds
<1>4. \A p \in flushing : p.seg.id \notin new
  BY <1>1 DEF SegIds
<1>5. \A v \in Workers : /\ WorkSegs(work'[v]) \subseteq WorkSegs(work[v])
                         /\ \A s \in WorkSegs(work'[v]) : s.id \notin new
  <2> TAKE v \in Workers
  <2>1. CASE v = w
    BY <1>2, <2>1, WorkSegsOf
  <2>2. CASE v # w
    BY <1>1, <1>2, <2>2 DEF SegIds
  <2> QED
    BY <2>1, <2>2
<1> HIDE DEF new
<1>6. EditOK(manifest, n, new, next_id)
  BY DEF new
<1> DEFINE after == work'
<1>7. /\ after = [v \in Workers |-> after[v]]
      /\ \A v \in Workers : /\ WorkSegs(after[v]) \subseteq WorkSegs(work[v])
                            /\ \A s \in WorkSegs(after[v]) : s.id \notin new
  BY <1>2, <1>5
<1> HIDE DEF after
<1>8. /\ Safe(NextVersion(n), next_id, flushing, after)
      /\ \A i : References(manifest, i) =>
           References(NextVersion(n), i) \/ i \in GarbageIds(NextVersion(n))
  <2>1. Safe(manifest, next_id, flushing, work)
    BY <1>1
  <2>2. flushing \in SUBSET flushing
    OBVIOUS
  <2> QED
    BY <2>1, <2>2, <1>3, <1>4, <1>6, <1>7, CommitStep
<1> QED
  BY <1>8 DEF SafeInv, Unleaked, after

(* A compaction's commit keeps the invariant and loses no segment.         *)
LEMMA CompactCommitSafe ==
    ASSUME SafeInv, NEW w \in Workers, CompactCommit(w)
    PROVE  SafeInv' /\ Unleaked
<1>1. PICK t \in manifest.tables :
         LET m == RemoveSegments(manifest, t, work[w].removes)
             u == CHOOSE u \in m.tables : u.id = t.id
         IN  CommitTo(AddSegments(m, u, work[w].adds))
  BY DEF CompactCommit
<1> DEFINE m == RemoveSegments(manifest, t, work[w].removes)
           u == CHOOSE u \in m.tables : u.id = t.id
           adds == work[w].adds
           n == AddSegments(m, u, adds)
<1>2. /\ IsManifest(manifest) /\ IdsBelow(manifest)
      /\ next_id \in Nat /\ manifest.next_segment_id <= next_id
  BY DEF SafeInv, Safe
<1>3. adds = WorkSegs(work[w])
  BY DEF CompactCommit, WorkSegs
<1>4. \A s \in adds : IsSegment(s) /\ s.id < next_id /\ s.id \notin Used(manifest)
  BY <1>3 DEF SafeInv, Safe, Fresh
<1>5. EditOK(manifest, m, {}, next_id) /\ \E x \in m.tables : x.id = t.id
  BY <1>2, RemoveSegmentsEdit
<1> HIDE DEF m, adds
<1>6. u \in m.tables
  BY <1>5
<1> HIDE DEF u
<1>7. IsManifest(m) /\ IdsBelow(m) /\ m.next_segment_id <= next_id
  <2>1. IdsBelow(m)
    BY <1>2, <1>5, EditIds
  <2> QED
    BY <1>5, <2>1 DEF EditOK
<1>8. EditOK(m, n, SegIds(adds), next_id) /\ n.garbage = m.garbage
  BY <1>2, <1>4, <1>6, <1>7, AddSegmentsEdit
<1> HIDE DEF n
<1>9. SegIds(adds) \intersect Used(manifest) = {}
  BY <1>4 DEF SegIds
<1>10. EditOK(manifest, n, SegIds(adds), next_id)
  BY <1>2, <1>5, <1>8, <1>9, EditChain
<1>11. manifest' = NextVersion(n)
  BY <1>1 DEF CommitTo, n, m, u, adds
<1> QED
  BY <1>3, <1>10, <1>11, WorkerCommit DEF CompactCommit, buffer

(* A job step's commit keeps the invariant and loses no segment.           *)
LEMMA JobAdvanceSafe ==
    ASSUME SafeInv, NEW w \in Workers, JobAdvance(w)
    PROVE  SafeInv' /\ Unleaked
<1>1. PICK j \in manifest.jobs, t \in manifest.tables :
         CommitTo(AdvanceJob(manifest, t, j, work[w].reused, work[w].rewritten,
                             work[w].segments))
  BY DEF JobAdvance
<1> DEFINE segs == work[w].segments
           n == AdvanceJob(manifest, t, j, work[w].reused, work[w].rewritten, segs)
<1>2. /\ IsManifest(manifest) /\ IdsBelow(manifest)
      /\ next_id \in Nat /\ manifest.next_segment_id <= next_id
  BY DEF SafeInv, Safe
<1>3. segs = WorkSegs(work[w])
  BY DEF JobAdvance, WorkSegs
<1>4. \A s \in segs : IsSegment(s) /\ s.id < next_id
  BY <1>3 DEF SafeInv, Safe, Fresh
<1>5. EditOK(manifest, n, SegIds(segs), next_id)
  BY <1>2, <1>4, AdvanceJobEdit
<1>6. manifest' = NextVersion(n)
  BY <1>1 DEF CommitTo
<1> HIDE DEF n, segs
<1> QED
  BY <1>3, <1>5, <1>6, WorkerCommit DEF JobAdvance, buffer

(* Writing the segments of a flush keeps the invariant and loses no        *)
(* segment.                                                                *)
LEMMA FlushWriteSafe ==
    ASSUME SafeInv, FlushWrite
    PROVE  SafeInv' /\ Unleaked
<1> DEFINE names == {b.table : b \in in_flight}
<1>0. PICK next \in next_id + 1 .. MaxId + 1 : \E id \in [names -> next_id .. next - 1] :
         /\ flushing' = {[table |-> t.name, seg |-> FlushedSegment(t, id[t.name])]
                           : t \in {t \in manifest.tables : t.name \in names}}
         /\ next_id' = next
  BY DEF FlushWrite
<1>1. PICK id \in [names -> next_id .. next - 1] :
         /\ flushing' = {[table |-> t.name, seg |-> FlushedSegment(t, id[t.name])]
                           : t \in {t \in manifest.tables : t.name \in names}}
         /\ next_id' = next
  BY <1>0
<1>2. Safe(manifest, next_id, flushing, work) /\ next_id \in Nat
  BY DEF SafeInv, Safe
<1>3. next \in Nat /\ next_id <= next
  BY <1>2, StoreAssumption DEF StoreAssumption
<1>4. \A t : t.name \in names => LET s == FlushedSegment(t, id[t.name])
                                 IN  IsSegment(s) /\ next_id <= s.id /\ s.id < next
  <2> TAKE t
  <2> HAVE t.name \in names
  <2>1. id[t.name] \in Nat /\ next_id <= id[t.name] /\ id[t.name] < next
    BY <1>2, <1>3
  <2> QED
    BY <2>1 DEF FlushedSegment, IsSegment
<1> HIDE DEF names
<1>5. \A p \in flushing' : IsSegment(p.seg) /\ next_id <= p.seg.id /\ p.seg.id < next
  BY <1>1, <1>4
<1>6. \A w \in Workers : \A s \in WorkSegs(work[w]) : ~(next_id <= s.id)
  BY <1>2 DEF Safe, Fresh, IsSegment
<1>7. work = [w \in Workers |-> work[w]]
  BY <1>2 DEF Safe
<1> DEFINE after == flushing'
<1>8. \A p \in after : IsSegment(p.seg) /\ next_id <= p.seg.id /\ p.seg.id < next
  BY <1>5
<1> HIDE DEF after
<1>9. Safe(manifest, next, after, work)
  BY <1>2, <1>3, <1>6, <1>7, <1>8, PrepareStep
<1> QED
  BY <1>1, <1>9 DEF SafeInv, Unleaked, FlushWrite, after

(* A failed flush keeps the invariant and loses no segment.                *)
LEMMA FlushFailSafe ==
    ASSUME SafeInv, FlushFail
    PROVE  SafeInv' /\ Unleaked
<1>1. Safe(manifest, next_id, {}, work)
  BY DEF SafeInv, Safe
<1> QED
  BY <1>1 DEF FlushFail, SafeInv, Unleaked, Idle

(* A worker gets segments with ids from the allocator, or lets go of what  *)
(* it has.                                                                 *)
LEMMA WorkerPrepare ==
    ASSUME SafeInv, NEW w \in Workers, NEW x, work' = [work EXCEPT ![w] = x],
           next_id' \in Nat, next_id <= next_id',
           \A s \in WorkSegs(x) : IsSegment(s) /\ next_id <= s.id /\ s.id < next_id',
           UNCHANGED <<manifest, flushing>>
    PROVE  SafeInv' /\ Unleaked
<1>1. Safe(manifest, next_id, flushing, work) /\ next_id \in Nat
  BY DEF SafeInv, Safe
<1>2. work = [v \in Workers |-> work[v]]
  BY <1>1 DEF Safe
<1>3. /\ \A p \in flushing : ~(next_id <= p.seg.id)
      /\ \A v \in Workers : \A s \in WorkSegs(work[v]) : ~(next_id <= s.id)
  <2>1. \A s : Fresh(s, manifest, next_id) => ~(next_id <= s.id)
    BY <1>1 DEF Fresh, IsSegment
  <2> QED
    BY <1>1, <2>1 DEF Safe
<1> DEFINE after == work'
           next == next_id'
<1>4. /\ after = [v \in Workers |-> after[v]]
      /\ after[w] = x
      /\ \A v \in Workers : v # w => after[v] = work[v]
  BY <1>2
<1>5. next \in Nat /\ next_id <= next
  OBVIOUS
<1>6. \A s \in WorkSegs(x) : IsSegment(s) /\ next_id <= s.id /\ s.id < next
  OBVIOUS
<1> HIDE DEF after, next
<1>7. \A v \in Workers : \A s \in WorkSegs(after[v]) :
         s \in WorkSegs(work[v]) \/ (IsSegment(s) /\ next_id <= s.id /\ s.id < next)
  BY <1>4, <1>6
<1>8. \A v \in Workers : \A s \in WorkSegs(after[v]), p \in flushing :
         ~(next_id <= s.id /\ next_id <= p.seg.id)
  BY <1>3
<1>9. \A u, v \in Workers : \A s \in WorkSegs(after[u]), r \in WorkSegs(after[v]) :
         next_id <= s.id /\ next_id <= r.id => u = v
  BY <1>3, <1>4
<1>10. Safe(manifest, next, flushing, after)
  BY <1>1, <1>4, <1>5, <1>7, <1>8, <1>9, PrepareStep
<1> QED
  BY <1>10 DEF SafeInv, Unleaked, after, next

(* Preparing a compaction keeps the invariant and loses no segment.        *)
LEMMA CompactPrepareSafe ==
    ASSUME SafeInv, NEW w \in Workers, NEW n, CompactPrepare(w, n)
    PROVE  SafeInv' /\ Unleaked
<1>0. PICK t \in manifest.tables : \E inputs \in SUBSET t.segments :
         work' = [work EXCEPT ![w] =
           [kind |-> "merge", table |-> n, removes |-> SegIds(inputs),
            adds |-> {MergedSegment(t, inputs, next_id)}]]
  BY DEF CompactPrepare
<1>1. PICK inputs \in SUBSET t.segments :
         work' = [work EXCEPT ![w] =
           [kind |-> "merge", table |-> n, removes |-> SegIds(inputs),
            adds |-> {MergedSegment(t, inputs, next_id)}]]
  BY <1>0
<1> DEFINE s == MergedSegment(t, inputs, next_id)
           x == [kind |-> "merge", table |-> n, removes |-> SegIds(inputs), adds |-> {s}]
<1>2. next_id \in Nat /\ next_id' = next_id + 1 /\ UNCHANGED <<manifest, flushing>>
  BY DEF SafeInv, Safe, CompactPrepare, buffer
<1>3. IsSegment(s) /\ s.id = next_id
  BY <1>2 DEF MergedSegment, IsSegment
<1> HIDE DEF s
<1>4. WorkSegs(x) = {s}
  BY WorkSegsOf
<1>5. work' = [work EXCEPT ![w] = x]
  BY <1>1 DEF s
<1> HIDE DEF x
<1>6. \A u \in WorkSegs(x) : IsSegment(u) /\ next_id <= u.id /\ u.id < next_id'
  BY <1>2, <1>3, <1>4
<1>7. next_id' \in Nat /\ next_id <= next_id'
  BY <1>2
<1> QED
  BY <1>2, <1>5, <1>6, <1>7, WorkerPrepare

(* Giving up prepared work keeps the invariant and loses no segment.       *)
LEMMA AbandonSafe ==
    ASSUME SafeInv, NEW w \in Workers, Abandon(w)
    PROVE  SafeInv' /\ Unleaked
<1>1. next_id' \in Nat /\ next_id <= next_id'
  BY DEF SafeInv, Safe, Abandon
<1>2. \A s \in WorkSegs(NoWork) : IsSegment(s) /\ next_id <= s.id /\ s.id < next_id'
  BY WorkSegsOf
<1>3. work' = [work EXCEPT ![w] = NoWork] /\ UNCHANGED <<manifest, flushing>>
  BY DEF Abandon, buffer
<1> QED
  BY <1>1, <1>2, <1>3, WorkerPrepare

(* Preparing a job step keeps the invariant and loses no segment.          *)
LEMMA JobPrepareSafe ==
    ASSUME SafeInv, NEW w \in Workers, NEW j, JobPrepare(w, j)
    PROVE  SafeInv' /\ Unleaked
<1>1. next_id \in Nat /\ UNCHANGED <<manifest, flushing>>
  BY DEF SafeInv, Safe, JobPrepare, buffer
<1>2. PICK t \in manifest.tables :
         LET chosen == Chosen(Gap(t, j))
         IN  \/ \E next \in next_id + 1 .. MaxId + 1 :
                \E id \in [chosen -> next_id .. next - 1] :
                  /\ work' = [work EXCEPT ![w] =
                       [kind |-> "advance", job |-> j.id, reused |-> {},
                        rewritten |-> SegIds(chosen),
                        segments |-> {RewrittenSegment(s, j.target.schema, id[s])
                                        : s \in chosen}]]
                  /\ next_id' = next
             \/ /\ work' = [work EXCEPT ![w] =
                     [kind |-> "advance", job |-> j.id, reused |-> SegIds(chosen),
                      rewritten |-> {}, segments |-> {}]]
                /\ UNCHANGED next_id
  BY DEF JobPrepare
<1> DEFINE chosen == Chosen(Gap(t, j))
<1> HIDE DEF chosen
<1>3. ASSUME NEW next \in next_id + 1 .. MaxId + 1,
             NEW id \in [chosen -> next_id .. next - 1],
             work' = [work EXCEPT ![w] =
                       [kind |-> "advance", job |-> j.id, reused |-> {},
                        rewritten |-> SegIds(chosen),
                        segments |-> {RewrittenSegment(s, j.target.schema, id[s])
                                        : s \in chosen}]],
             next_id' = next
      PROVE  SafeInv' /\ Unleaked
  <2> DEFINE segs == {RewrittenSegment(s, j.target.schema, id[s]) : s \in chosen}
             x == [kind |-> "advance", job |-> j.id, reused |-> {},
                   rewritten |-> SegIds(chosen), segments |-> segs]
  <2>1. next \in Nat /\ next_id <= next
    BY <1>1, StoreAssumption DEF StoreAssumption
  <2>2. \A u \in segs : IsSegment(u) /\ next_id <= u.id /\ u.id < next
    <3>1. \A s \in chosen : id[s] \in Nat /\ next_id <= id[s] /\ id[s] < next
      BY <1>1, <2>1
    <3>2. \A s, i : i \in Nat => LET u == RewrittenSegment(s, j.target.schema, i)
                                IN  IsSegment(u) /\ u.id = i
      BY DEF RewrittenSegment, IsSegment
    <3> QED
      BY <3>1, <3>2
  <2> HIDE DEF segs
  <2>3. WorkSegs(x) = segs
    BY WorkSegsOf
  <2>4. work' = [work EXCEPT ![w] = x]
    BY <1>3 DEF segs
  <2> HIDE DEF x
  <2> QED
    BY <1>1, <1>3, <2>1, <2>2, <2>3, <2>4, WorkerPrepare
<1>4. ASSUME work' = [work EXCEPT ![w] =
                     [kind |-> "advance", job |-> j.id, reused |-> SegIds(chosen),
                      rewritten |-> {}, segments |-> {}]],
             UNCHANGED next_id
      PROVE  SafeInv' /\ Unleaked
  <2> DEFINE x == [kind |-> "advance", job |-> j.id, reused |-> SegIds(chosen),
                   rewritten |-> {}, segments |-> {}]
  <2>1. WorkSegs(x) = {}
    BY WorkSegsOf
  <2>2. work' = [work EXCEPT ![w] = x]
    BY <1>4
  <2>3. next_id' \in Nat /\ next_id <= next_id'
    BY <1>1, <1>4
  <2> HIDE DEF x
  <2> QED
    BY <1>1, <1>4, <2>1, <2>2, <2>3, WorkerPrepare
<1> QED
  BY <1>2, <1>3, <1>4 DEF chosen

(* A crash and an open keeps the invariant and loses no segment.           *)
LEMMA ReopenSafe ==
    ASSUME SafeInv, Reopen
    PROVE  SafeInv' /\ Unleaked
<1>1. /\ manifest.next_segment_id \in Nat
      /\ IsManifest(manifest) /\ IdsBelow(manifest)
      /\ \A i \in GarbageIds(manifest) : ~References(manifest, i)
  BY DEF SafeInv, Safe, IsManifest
<1> DEFINE after == [w \in Workers |-> NoWork]
<1>2. \A w \in Workers : WorkSegs(after[w]) = {}
  BY WorkSegsOf
<1>3. Safe(manifest, manifest.next_segment_id, {}, after)
  BY <1>1, <1>2 DEF Safe
<1> QED
  BY <1>3 DEF Reopen, SafeInv, Unleaked, Idle

(* A step outside all of this state keeps the invariant.                   *)
LEMMA StutterSafe ==
    ASSUME SafeInv, UNCHANGED <<manifest, next_id, flushing, work>>
    PROVE  SafeInv' /\ Unleaked
  BY DEF SafeInv, Unleaked

(* Every step keeps the invariant and loses no segment.                    *)
LEMMA NextSafe ==
    ASSUME SafeInv, [Next]_vars
    PROVE  SafeInv' /\ Unleaked
<1>1. ASSUME NEW n \in Names, NEW columns \in ColumnLists, Create(n, columns)
      PROVE  SafeInv' /\ Unleaked
  BY <1>1, CreateSafe
<1>2. ASSUME NEW n \in Names, Truncate(n) \/ Revert(n) \/ Drop(n) \/ Undrop(n)
      PROVE  SafeInv' /\ Unleaked
  BY <1>2, TruncateSafe, RevertSafe, DropSafe, UndropSafe
<1>3. ASSUME NEW n \in Names, NEW r \in Rows, Write(n, r)
      PROVE  SafeInv' /\ Unleaked
  BY <1>3, StutterSafe DEF Write
<1>4. ASSUME NEW n \in Names, NEW c, NEW kills \in Predicates, Delete(n, c, kills)
      PROVE  SafeInv' /\ Unleaked
  BY <1>4, DeleteSafe
<1>5. ASSUME NEW n \in Names, NEW ops \in AlterOps, Alter(n, ops)
      PROVE  SafeInv' /\ Unleaked
  BY <1>5, AlterSafe
<1>6. ASSUME NEW n \in Names, NEW w \in Workers, CompactPrepare(w, n)
      PROVE  SafeInv' /\ Unleaked
  BY <1>6, CompactPrepareSafe
<1>7. CASE FlushTake
  BY <1>7, StutterSafe DEF FlushTake
<1>8. CASE FlushWrite
  BY <1>8, FlushWriteSafe
<1>9. CASE FlushCommit
  BY <1>9, FlushCommitSafe
<1>10. CASE FlushFail
  BY <1>10, FlushFailSafe
<1>11. ASSUME NEW w \in Workers, CompactCommit(w) \/ JobAdvance(w) \/ Abandon(w)
       PROVE  SafeInv' /\ Unleaked
  BY <1>11, CompactCommitSafe, JobAdvanceSafe, AbandonSafe
<1>12. ASSUME NEW j \in manifest.jobs, JobSwap(j) \/ Cancel(j)
       PROVE  SafeInv' /\ Unleaked
  BY <1>12, JobSwapSafe, CancelSafe
<1>13. ASSUME NEW j \in manifest.jobs, NEW w \in Workers, JobPrepare(w, j)
       PROVE  SafeInv' /\ Unleaked
  BY <1>13, JobPrepareSafe
<1>14. ASSUME NEW expired \in SUBSET manifest.retired, Expire(expired)
       PROVE  SafeInv' /\ Unleaked
  BY <1>14, ExpireSafe
<1>15. ASSUME NEW ids \in SUBSET GarbageIds(manifest), Forget(ids)
       PROVE  SafeInv' /\ Unleaked
  BY <1>15, ForgetSafe
<1>16. CASE Reopen
  BY <1>16, ReopenSafe
<1>17. CASE UNCHANGED vars
  BY <1>17, StutterSafe DEF vars
<1> QED
  BY <1>1, <1>2, <1>3, <1>4, <1>5, <1>6, <1>7, <1>8, <1>9, <1>10, <1>11, <1>12,
     <1>13, <1>14, <1>15, <1>16, <1>17 DEF Next

(* The invariant implies the freshness the runs check.                     *)
LEMMA SafeIsFresh == SafeInv => FreshIds
<1> SUFFICES ASSUME SafeInv PROVE FreshIds
  OBVIOUS
<1>1. FlushIds \intersect Used(manifest) = {}
  BY DEF SafeInv, Safe, Fresh, FlushIds
<1>2. \A w \in Workers : WorkIds(w) \intersect (Used(manifest) \union FlushIds) = {}
  BY DEF SafeInv, Safe, Fresh, FlushIds, WorkIds, SegIds
<1>3. \A v, w \in Workers : WorkIds(v) \intersect WorkIds(w) # {} => v = w
  <2>1. \A v, w \in Workers : \A s \in WorkSegs(work[v]), u \in WorkSegs(work[w]) :
           s.id = u.id => v = w
    BY DEF SafeInv, Safe
  <2> QED
    BY <2>1 DEF WorkIds, SegIds
<1>4. \A i \in Used(manifest) : i < manifest.next_segment_id
  BY DEF SafeInv, Safe, IdsBelow
<1> QED
  BY <1>1, <1>2, <1>3, <1>4 DEF FreshIds

(* The inductive invariant: in every reachable state the ids in use are    *)
(* below the counter of the manifest, the garbage list and the references  *)
(* are disjoint, and every segment the flusher or a worker has prepared    *)
(* has an id of its own that the manifest does not use.                    *)
THEOREM SafeAlways == Spec => []SafeInv
<1>1. SafeInv /\ [Next]_vars => SafeInv'
  BY NextSafe
<1> QED
  BY <1>1, SafeInit, PTL DEF Spec

(* gc never deletes a file that a live table, a retired definition or a    *)
(* job lists (Manifest::references_segment, release), for any number of    *)
(* tables, workers and commits.                                            *)
THEOREM GarbageAlwaysUnreferenced == Spec => []GarbageUnreferenced
<1>1. SafeInv => GarbageUnreferenced
  BY DEF SafeInv, Safe, GarbageUnreferenced
<1> QED
  BY <1>1, SafeAlways, PTL

(* No two segments ever get the same id, whatever order their commits take *)
(* and whatever a crash loses (Shared::next_id, seeded from                *)
(* next_segment_id at an open).                                            *)
THEOREM IdsAlwaysFresh == Spec => []FreshIds
  BY SafeIsFresh, SafeAlways, PTL

(* A segment that stops being referenced is on the garbage list of the     *)
(* very commit that dropped it (release), so no file is forgotten.         *)
THEOREM SegmentsNeverLeak == Spec => NoSegmentLeaks
<1>1. SafeInv /\ [Next]_vars =>
        \A s \in SegmentsIn(manifest) :
          References(manifest', s.id) \/ s.id \in GarbageIds(manifest')
  <2> SUFFICES ASSUME SafeInv, [Next]_vars, NEW s \in SegmentsIn(manifest)
               PROVE  References(manifest', s.id) \/ s.id \in GarbageIds(manifest')
    OBVIOUS
  <2>1. References(manifest, s.id)
    BY DEF References, SegmentsIn, SegIds
  <2> QED
    BY <2>1, NextSafe DEF Unleaked
<1> QED
  BY <1>1, SafeAlways, PTL DEF Spec, NoSegmentLeaks

-----------------------------------------------------------------------------
(* Type correctness.  That names, table ids and job ids are unique is not  *)
(* inductive by itself: a swap, an undrop or a revert brings an entry from *)
(* a job or from the retired definitions into the tables, so the ids must  *)
(* be distinct across all three, and a job's target must have the name of  *)
(* a live source.                                                          *)

(* T, R and J are the tables, retired definitions and jobs; nt and nj the  *)
(* counters of table and job ids.                                          *)
TablesUnique(T, R, J, nt) ==
    /\ nt \in Nat
    /\ \A t \in T : t.id \in Nat /\ t.id < nt
    /\ \A r \in R : r.entry.id \in Nat /\ r.entry.id < nt
    /\ \A j \in J : j.target.id \in Nat /\ j.target.id < nt
    /\ \A t, u \in T : (t.name = u.name \/ t.id = u.id) => t = u
    /\ \A r, q \in R : r.entry.id = q.entry.id => r = q
    /\ \A t \in T, r \in R : t.id # r.entry.id
    /\ \A t \in T, j \in J : t.id # j.target.id
    /\ \A r \in R, j \in J : r.entry.id # j.target.id
JobsUnique(T, J, nj) ==
    /\ nj \in Nat
    /\ \A j \in J : j.id \in Nat /\ j.id < nj
    /\ \A i, j \in J : (i.id = j.id \/ i.source = j.source \/ i.target.id = j.target.id) => i = j
    /\ \A j \in J : \E t \in T : t.id = j.source /\ t.name = j.target.name
Unique(T, R, J, nt, nj) == TablesUnique(T, R, J, nt) /\ JobsUnique(T, J, nj)
UniqueIn(m) == Unique(m.tables, m.retired, m.jobs, m.next_table_id, m.next_job_id)

-----------------------------------------------------------------------------
(* What the edits do to the three sets keeps them unique.                  *)

(* A table replaced by one of the same id and name.                        *)
LEMMA ReplaceUnique ==
    ASSUME NEW T, NEW R, NEW J, NEW nt, NEW nj, Unique(T, R, J, nt, nj),
           NEW t \in T, NEW u, u.id = t.id, u.name = t.name
    PROVE  Unique((T \ {t}) \union {u}, R, J, nt, nj)
<1>1. TablesUnique((T \ {t}) \union {u}, R, J, nt)
  BY DEF Unique, TablesUnique
<1>2. JobsUnique((T \ {t}) \union {u}, J, nj)
  BY DEF Unique, JobsUnique
<1> QED
  BY <1>1, <1>2 DEF Unique

(* CREATE TABLE: a new id, a name no table has.                            *)
LEMMA CreateUnique ==
    ASSUME NEW T, NEW R, NEW J, NEW nt, NEW nj, Unique(T, R, J, nt, nj),
           NEW e, e.id = nt, \A t \in T : t.name # e.name
    PROVE  Unique(T \union {e}, R, J, nt + 1, nj)
<1>1. TablesUnique(T \union {e}, R, J, nt + 1)
  BY DEF Unique, TablesUnique
<1>2. JobsUnique(T \union {e}, J, nj)
  BY DEF Unique, JobsUnique
<1> QED
  BY <1>1, <1>2 DEF Unique

(* ALTER TABLE: a new job with a new target on a table that has none.      *)
LEMMA NewJobUnique ==
    ASSUME NEW T, NEW R, NEW J, NEW nt, NEW nj, Unique(T, R, J, nt, nj),
           NEW t \in T, \A i \in J : i.source # t.id,
           NEW j, j.id = nj, j.source = t.id, j.target.id = nt, j.target.name = t.name
    PROVE  Unique(T, R, J \union {j}, nt + 1, nj + 1)
<1>1. TablesUnique(T, R, J \union {j}, nt + 1)
  BY DEF Unique, TablesUnique
<1>2. JobsUnique(T, J \union {j}, nj + 1)
  BY DEF Unique, JobsUnique, TablesUnique
<1> QED
  BY <1>1, <1>2 DEF Unique

(* A job advanced: its ids and its target's id and name stay.              *)
LEMMA AdvanceUnique ==
    ASSUME NEW T, NEW R, NEW J, NEW nt, NEW nj, Unique(T, R, J, nt, nj),
           NEW j \in J, NEW k, k.id = j.id, k.source = j.source,
           k.target.id = j.target.id, k.target.name = j.target.name
    PROVE  Unique(T, R, (J \ {j}) \union {k}, nt, nj)
<1>1. TablesUnique(T, R, (J \ {j}) \union {k}, nt)
  BY DEF Unique, TablesUnique
<1>2. JobsUnique(T, (J \ {j}) \union {k}, nj)
  BY DEF Unique, JobsUnique
<1> QED
  BY <1>1, <1>2 DEF Unique

(* A cancelled job, expired definitions: there are fewer of them.          *)
LEMMA FewerUnique ==
    ASSUME NEW T, NEW R, NEW J, NEW nt, NEW nj, Unique(T, R, J, nt, nj),
           NEW R2 \in SUBSET R, NEW J2 \in SUBSET J
    PROVE  Unique(T, R2, J2, nt, nj)
<1>1. TablesUnique(T, R2, J2, nt)
  BY DEF Unique, TablesUnique
<1>2. JobsUnique(T, J2, nj)
  BY DEF Unique, JobsUnique
<1> QED
  BY <1>1, <1>2 DEF Unique

(* A swap: the target takes the source's place and name.                   *)
LEMMA SwapUnique ==
    ASSUME NEW T, NEW R, NEW J, NEW nt, NEW nj, Unique(T, R, J, nt, nj),
           NEW j \in J, NEW t \in T, t.id = j.source,
           NEW u, u.id = j.target.id, u.name = j.target.name, NEW r, r.entry = t
    PROVE  Unique((T \ {t}) \union {u}, R \union {r}, J \ {j}, nt, nj)
<1>1. t.name = u.name
  BY DEF Unique, TablesUnique, JobsUnique
<1>2. \A i \in J : i = j \/ (i.source # j.source /\ i.target.id # j.target.id)
  BY DEF Unique, JobsUnique
<1>3. TablesUnique((T \ {t}) \union {u}, R \union {r}, J \ {j}, nt)
  BY <1>1, <1>2 DEF Unique, TablesUnique
<1>4. JobsUnique((T \ {t}) \union {u}, J \ {j}, nj)
  BY <1>2 DEF Unique, JobsUnique
<1> QED
  BY <1>3, <1>4 DEF Unique

(* DROP: a table without a job leaves the tables.                          *)
LEMMA DropUnique ==
    ASSUME NEW T, NEW R, NEW J, NEW nt, NEW nj, Unique(T, R, J, nt, nj),
           NEW t \in T, \A j \in J : j.source # t.id, NEW r, r.entry = t
    PROVE  Unique(T \ {t}, R \union {r}, J, nt, nj)
<1>1. TablesUnique(T \ {t}, R \union {r}, J, nt)
  BY DEF Unique, TablesUnique
<1>2. JobsUnique(T \ {t}, J, nj)
  BY DEF Unique, JobsUnique
<1> QED
  BY <1>1, <1>2 DEF Unique

(* UNDROP: a retired entry whose name is free comes back.                  *)
LEMMA UndropUnique ==
    ASSUME NEW T, NEW R, NEW J, NEW nt, NEW nj, Unique(T, R, J, nt, nj),
           NEW r \in R, \A t \in T : t.name # r.entry.name
    PROVE  Unique(T \union {r.entry}, R \ {r}, J, nt, nj)
<1>1. TablesUnique(T \union {r.entry}, R \ {r}, J, nt)
  BY DEF Unique, TablesUnique
<1>2. JobsUnique(T \union {r.entry}, J, nj)
  BY DEF Unique, JobsUnique
<1> QED
  BY <1>1, <1>2 DEF Unique

(* REVERT: a retired entry and the live table of its name change places.   *)
LEMMA RevertUnique ==
    ASSUME NEW T, NEW R, NEW J, NEW nt, NEW nj, Unique(T, R, J, nt, nj),
           NEW cur \in T, \A j \in J : j.source # cur.id,
           NEW r \in R, r.entry.name = cur.name,
           NEW u, u.id = r.entry.id, u.name = r.entry.name, NEW q, q.entry = cur
    PROVE  Unique((T \ {cur}) \union {u}, (R \ {r}) \union {q}, J, nt, nj)
<1>1. TablesUnique((T \ {cur}) \union {u}, (R \ {r}) \union {q}, J, nt)
  BY DEF Unique, TablesUnique
<1>2. JobsUnique((T \ {cur}) \union {u}, J, nj)
  BY DEF Unique, JobsUnique
<1> QED
  BY <1>1, <1>2 DEF Unique

(* A flush: each table becomes one of the same id and name.                *)
LEMMA GrowUnique ==
    ASSUME NEW T, NEW R, NEW J, NEW nt, NEW nj, Unique(T, R, J, nt, nj),
           NEW U, \A u \in U : \E t \in T : u = Grown(t),
           \A t \in T : Grown(t) \in U /\ Grown(t).id = t.id /\ Grown(t).name = t.name
    PROVE  Unique(U, R, J, nt, nj)
<1> HIDE DEF Grown
<1>1. TablesUnique(U, R, J, nt)
  <2>1. \A u \in U : u.id \in Nat /\ u.id < nt
    BY DEF Unique, TablesUnique
  <2>2. \A t, u \in U : (t.name = u.name \/ t.id = u.id) => t = u
    <3> TAKE t, u \in U
    <3>1. PICK a \in T, b \in T : t = Grown(a) /\ u = Grown(b)
      OBVIOUS
    <3> QED
      BY <3>1 DEF Unique, TablesUnique
  <2>3. /\ \A t \in U, r \in R : t.id # r.entry.id
        /\ \A t \in U, j \in J : t.id # j.target.id
    BY DEF Unique, TablesUnique
  <2> QED
    BY <2>1, <2>2, <2>3 DEF Unique, TablesUnique
<1>2. JobsUnique(U, J, nj)
  <2>1. \A j \in J : \E u \in U : u.id = j.source /\ u.name = j.target.name
    BY DEF Unique, JobsUnique
  <2> QED
    BY <2>1 DEF Unique, JobsUnique
<1> QED
  BY <1>1, <1>2 DEF Unique

-----------------------------------------------------------------------------
(* The edits.                                                              *)

(* The counters that Replace and Release leave alone.                      *)
LEMMA ReplaceCounters ==
    ASSUME NEW m, IsManifest(m), NEW t, NEW u
    PROVE  LET n == Replace(m, t, u)
           IN  n.next_table_id = m.next_table_id /\ n.next_job_id = m.next_job_id
  BY DEF IsManifest, Replace
(* Release touches neither tables nor jobs nor retired definitions.        *)
LEMMA ReleaseUnique ==
    ASSUME NEW m, IsManifest(m), UniqueIn(m), NEW segs, NEW v
    PROVE  UniqueIn(Release(m, segs, v))
<1> DEFINE n == Release(m, segs, v)
<1>1. PICK x : n = [m EXCEPT !.garbage = x]
  BY DEF Release
<1> HIDE DEF n
<1>2. /\ n.tables = m.tables /\ n.retired = m.retired /\ n.jobs = m.jobs
      /\ n.next_table_id = m.next_table_id /\ n.next_job_id = m.next_job_id
  BY <1>1 DEF IsManifest
<1> QED
  BY <1>2 DEF UniqueIn, n

(* Replacing a table by one of the same id and name.                       *)
LEMMA ReplaceEdit ==
    ASSUME NEW m, IsManifest(m), UniqueIn(m), NEW t \in m.tables,
           NEW u, IsEntry(u), u.id = t.id, u.name = t.name
    PROVE  UniqueIn(Replace(m, t, u))
<1> DEFINE n == Replace(m, t, u)
<1>1. /\ n.tables = (m.tables \ {t}) \union {u}
      /\ n.jobs = m.jobs /\ n.retired = m.retired
      /\ n.next_table_id = m.next_table_id /\ n.next_job_id = m.next_job_id
  BY ReplaceShape, ReplaceCounters
<1> HIDE DEF n
<1>2. Unique((m.tables \ {t}) \union {u}, m.retired, m.jobs, m.next_table_id, m.next_job_id)
  BY ReplaceUnique DEF UniqueIn
<1> QED
  BY <1>1, <1>2 DEF UniqueIn, n

(* CREATE TABLE keeps names and ids unique.                                *)
LEMMA CreateTableTypes ==
    ASSUME NEW m, IsManifest(m), UniqueIn(m), NEW n \in Names, NEW columns,
           CanCreateTable(m, n)
    PROVE  UniqueIn(CreateTable(m, n, columns))
<1> DEFINE e == NewEntry(m.next_table_id, n, columns)
           k == CreateTable(m, n, columns)
<1>1. e.id = m.next_table_id /\ e.name = n
  BY DEF NewEntry
<1>2. k = [m EXCEPT !.tables = @ \union {e}, !.next_table_id = @ + 1]
  BY DEF CreateTable
<1> HIDE DEF e, k
<1>3. /\ k.tables = m.tables \union {e}
      /\ k.jobs = m.jobs /\ k.retired = m.retired
      /\ k.next_table_id = m.next_table_id + 1 /\ k.next_job_id = m.next_job_id
  BY <1>2 DEF IsManifest
<1>4. \A t \in m.tables : t.name # e.name
  BY <1>1 DEF CanCreateTable, HasTable
<1>5. Unique(m.tables \union {e}, m.retired, m.jobs, m.next_table_id + 1, m.next_job_id)
  BY <1>1, <1>4, CreateUnique DEF UniqueIn
<1> QED
  BY <1>3, <1>5 DEF UniqueIn, k

(* DELETE keeps names and ids unique.                                      *)
LEMMA AddTombstoneTypes ==
    ASSUME NEW m, IsManifest(m), UniqueIn(m), NEW t \in m.tables, NEW c, NEW kills
    PROVE  UniqueIn(AddTombstone(m, t, c, kills))
<1>1. PICK x : AddTombstone(m, t, c, kills) = Replace(m, t, [t EXCEPT !.tombstones = x])
  BY DEF AddTombstone
<1> DEFINE u == [t EXCEPT !.tombstones = x]
<1>2. IsEntry(t)
  BY DEF IsManifest
<1>3. IsEntry(u) /\ u.id = t.id /\ u.name = t.name
  BY <1>2 DEF IsEntry
<1> HIDE DEF u
<1>4. UniqueIn(Replace(m, t, u))
  BY <1>3, ReplaceEdit
<1> QED
  BY <1>1, <1>4 DEF u

(* TRUNCATE keeps names and ids unique.                                    *)
LEMMA TruncateTypes ==
    ASSUME NEW m, IsManifest(m), UniqueIn(m), NEW t \in m.tables
    PROVE  UniqueIn(TruncateTable(m, t))
<1> DEFINE u == Emptied(t)
<1>1. IsEntry(u) /\ u.id = t.id /\ u.name = t.name
  BY EmptiedShape DEF IsManifest
<1> HIDE DEF u
<1>2. IsManifest(Replace(m, t, u)) /\ UniqueIn(Replace(m, t, u))
  BY <1>1, ReplaceShape, ReplaceEdit
<1> QED
  BY <1>2, ReleaseUnique DEF TruncateTable, u

(* Removing segments keeps names and ids unique.                           *)
LEMMA RemoveSegmentsTypes ==
    ASSUME NEW m, IsManifest(m), UniqueIn(m), NEW t \in m.tables, NEW ids
    PROVE  /\ UniqueIn(RemoveSegments(m, t, ids))
           /\ IsManifest(RemoveSegments(m, t, ids))
           /\ \E u \in RemoveSegments(m, t, ids).tables : u.id = t.id
<1> DEFINE gone == {s \in t.segments : s.id \in ids}
           u == [t EXCEPT !.segments = t.segments \ gone]
           k == Replace(m, t, u)
           n == RemoveSegments(m, t, ids)
<1>1. IsEntry(t) /\ \A s \in t.segments : IsSegment(s)
  BY DEF IsManifest, IsEntry
<1>2. n = Release(k, gone, m.version + 1)
  BY DEF RemoveSegments
<1>3. IsEntry(u) /\ u.id = t.id /\ u.name = t.name
  BY <1>1, EntryWithSegments
<1>4. (\A s \in gone : IsSegment(s)) /\ m.version + 1 \in Nat
  BY <1>1 DEF IsManifest
<1> HIDE DEF u, gone, n
<1>5. IsManifest(k) /\ UniqueIn(k) /\ u \in k.tables
  BY <1>3, ReplaceShape, ReplaceEdit
<1> HIDE DEF k
<1>6. IsManifest(n) /\ n.tables = k.tables
  BY <1>2, <1>4, <1>5, ReleaseShape
<1>7. UniqueIn(n)
  BY <1>2, <1>5, ReleaseUnique
<1> QED
  BY <1>3, <1>5, <1>6, <1>7 DEF n

(* Adding segments keeps names and ids unique.                             *)
LEMMA AddSegmentsTypes ==
    ASSUME NEW m, IsManifest(m), UniqueIn(m), NEW t \in m.tables, NEW segs,
           \A s \in segs : IsSegment(s)
    PROVE  UniqueIn(AddSegments(m, t, segs))
<1> DEFINE u == [t EXCEPT !.segments = t.segments \union segs]
           k == Replace(m, t, u)
           n == AddSegments(m, t, segs)
<1>1. IsEntry(t) /\ \A s \in t.segments \union segs : IsSegment(s)
  BY DEF IsManifest, IsEntry
<1>2. IsEntry(u) /\ u.id = t.id /\ u.name = t.name
  BY <1>1, EntryWithSegments
<1>3. PICK x : n = [k EXCEPT !.next_segment_id = x]
  BY DEF AddSegments
<1> HIDE DEF u, n
<1>4. IsManifest(k) /\ UniqueIn(k)
  BY <1>2, ReplaceShape, ReplaceEdit
<1> HIDE DEF k
<1>5. /\ n.tables = k.tables /\ n.retired = k.retired /\ n.jobs = k.jobs
      /\ n.next_table_id = k.next_table_id /\ n.next_job_id = k.next_job_id
  BY <1>3, <1>4 DEF IsManifest
<1> QED
  BY <1>4, <1>5 DEF UniqueIn, n

(* ALTER TABLE keeps names and ids unique.                                 *)
LEMMA CreateJobTypes ==
    ASSUME NEW m, IsManifest(m), UniqueIn(m), NEW t \in m.tables, NEW ops, ~JobRunning(m, t)
    PROVE  UniqueIn(CreateJob(m, t, ops))
<1> DEFINE j == NewJob(m, t, ops)
           n == CreateJob(m, t, ops)
<1>1. /\ j.id = m.next_job_id /\ j.source = t.id
      /\ j.target.id = m.next_table_id /\ j.target.name = t.name
  BY DEF NewJob
<1>2. n = [m EXCEPT !.jobs = @ \union {j}, !.next_job_id = @ + 1, !.next_table_id = @ + 1]
  BY DEF CreateJob
<1> HIDE DEF j, n
<1>3. /\ n.tables = m.tables /\ n.retired = m.retired /\ n.jobs = m.jobs \union {j}
      /\ n.next_table_id = m.next_table_id + 1 /\ n.next_job_id = m.next_job_id + 1
  BY <1>2 DEF IsManifest
<1>4. \A i \in m.jobs : i.source # t.id
  BY DEF JobRunning
<1>5. Unique(m.tables, m.retired, m.jobs \union {j}, m.next_table_id + 1, m.next_job_id + 1)
  BY <1>1, <1>4, NewJobUnique DEF UniqueIn
<1> QED
  BY <1>3, <1>5 DEF UniqueIn, n

(* A job step keeps names and ids unique.                                  *)
LEMMA AdvanceJobTypes ==
    ASSUME NEW m, IsManifest(m), UniqueIn(m), NEW t \in m.tables, NEW j \in m.jobs,
           NEW reused, NEW rewritten, NEW segs, \A s \in segs : IsSegment(s)
    PROVE  LET n == AdvanceJob(m, t, j, reused, rewritten, segs)
           IN  /\ UniqueIn(n)
               /\ n.tables = m.tables
               /\ \E k \in n.jobs : k.id = j.id /\ k.source = j.source
<1> DEFINE k == Advanced(t, j, reused, rewritten, segs)
           n == AdvanceJob(m, t, j, reused, rewritten, segs)
<1>1. IsJob(j)
  BY DEF IsManifest
<1>2. /\ k.id = j.id /\ k.source = j.source
      /\ k.target.id = j.target.id /\ k.target.name = j.target.name
  BY <1>1, AdvancedShape
<1>3. PICK x : n = [m EXCEPT !.jobs = (m.jobs \ {j}) \union {k}, !.next_segment_id = x]
  BY DEF AdvanceJob
<1> HIDE DEF k, n
<1>4. /\ n.tables = m.tables /\ n.retired = m.retired /\ n.jobs = (m.jobs \ {j}) \union {k}
      /\ n.next_table_id = m.next_table_id /\ n.next_job_id = m.next_job_id
  BY <1>3 DEF IsManifest
<1>5. Unique(m.tables, m.retired, (m.jobs \ {j}) \union {k}, m.next_table_id, m.next_job_id)
  BY <1>2, AdvanceUnique DEF UniqueIn
<1>6. UniqueIn(n)
  BY <1>4, <1>5 DEF UniqueIn
<1>7. \E y \in n.jobs : y.id = j.id /\ y.source = j.source
  BY <1>2, <1>4
<1> QED
  BY <1>4, <1>6, <1>7 DEF n

(* A swap keeps names and ids unique.                                      *)
LEMMA SwapJobTypes ==
    ASSUME NEW m, IsManifest(m), UniqueIn(m), NEW t \in m.tables, NEW j \in m.jobs,
           t.id = j.source
    PROVE  UniqueIn(SwapJob(m, t, j))
<1> DEFINE u == [j.target EXCEPT
                  !.tombstones = RenameTombstones(t.tombstones, t.schema, j.target.schema)]
           r == Retire(m, t, "swapped", SegIds(u.segments))
           n == SwapJob(m, t, j)
<1>1. n = [m EXCEPT !.tables = (m.tables \ {t}) \union {u}, !.jobs = m.jobs \ {j},
                    !.retired = m.retired \union {r}]
  BY DEF SwapJob
<1>2. IsEntry(t) /\ IsEntry(j.target)
  BY DEF IsManifest, IsJob
<1>3. u.id = j.target.id /\ u.name = j.target.name
  BY <1>2, EntryWithTombstones
<1> HIDE DEF u
<1>4. r.entry = t
  BY DEF Retire
<1> HIDE DEF r, n
<1>5. /\ n.tables = (m.tables \ {t}) \union {u}
      /\ n.retired = m.retired \union {r} /\ n.jobs = m.jobs \ {j}
      /\ n.next_table_id = m.next_table_id /\ n.next_job_id = m.next_job_id
  BY <1>1 DEF IsManifest
<1>6. Unique((m.tables \ {t}) \union {u}, m.retired \union {r}, m.jobs \ {j},
             m.next_table_id, m.next_job_id)
  BY <1>3, <1>4, SwapUnique DEF UniqueIn
<1> QED
  BY <1>5, <1>6 DEF UniqueIn, n

(* Cancelling a job keeps names and ids unique.                            *)
LEMMA CancelJobTypes ==
    ASSUME NEW m, IsManifest(m), UniqueIn(m), NEW j \in m.jobs
    PROVE  UniqueIn(CancelJob(m, j))
<1> DEFINE k == [m EXCEPT !.jobs = m.jobs \ {j}]
<1>1. CancelJob(m, j) = Release(k, j.target.segments, m.version + 1)
  BY DEF CancelJob
<1>2. /\ IsManifest(k)
      /\ k.tables = m.tables /\ k.retired = m.retired /\ k.jobs = m.jobs \ {j}
      /\ k.next_table_id = m.next_table_id /\ k.next_job_id = m.next_job_id
  BY DEF IsManifest
<1> HIDE DEF k
<1>3. Unique(m.tables, m.retired, m.jobs \ {j}, m.next_table_id, m.next_job_id)
  BY FewerUnique DEF UniqueIn
<1>4. UniqueIn(k)
  BY <1>2, <1>3 DEF UniqueIn
<1> QED
  BY <1>1, <1>2, <1>4, ReleaseUnique

(* DROP keeps names and ids unique.                                        *)
LEMMA DropTableTypes ==
    ASSUME NEW m, IsManifest(m), UniqueIn(m), NEW t \in m.tables, CanDropTable(m, t)
    PROVE  UniqueIn(DropTable(m, t))
<1> DEFINE r == Retire(m, t, "dropped", {})
           n == DropTable(m, t)
<1>1. n = [m EXCEPT !.tables = m.tables \ {t}, !.retired = m.retired \union {r}]
  BY DEF DropTable
<1>2. r.entry = t
  BY DEF Retire
<1> HIDE DEF r, n
<1>3. /\ n.tables = m.tables \ {t}
      /\ n.retired = m.retired \union {r} /\ n.jobs = m.jobs
      /\ n.next_table_id = m.next_table_id /\ n.next_job_id = m.next_job_id
  BY <1>1 DEF IsManifest
<1>4. \A j \in m.jobs : j.source # t.id
  BY DEF CanDropTable, JobRunning
<1>5. Unique(m.tables \ {t}, m.retired \union {r}, m.jobs, m.next_table_id, m.next_job_id)
  BY <1>2, <1>4, DropUnique DEF UniqueIn
<1> QED
  BY <1>3, <1>5 DEF UniqueIn, n

(* UNDROP keeps names and ids unique.                                      *)
LEMMA UndropTableTypes ==
    ASSUME NEW m, IsManifest(m), UniqueIn(m), NEW r \in m.retired, CanUndropTable(m, r)
    PROVE  UniqueIn(UndropTable(m, r))
<1> DEFINE n == UndropTable(m, r)
<1>1. n = [m EXCEPT !.tables = m.tables \union {r.entry}, !.retired = m.retired \ {r}]
  BY DEF UndropTable
<1> HIDE DEF n
<1>2. /\ n.tables = m.tables \union {r.entry}
      /\ n.retired = m.retired \ {r} /\ n.jobs = m.jobs
      /\ n.next_table_id = m.next_table_id /\ n.next_job_id = m.next_job_id
  BY <1>1 DEF IsManifest
<1>3. \A t \in m.tables : t.name # r.entry.name
  BY DEF CanUndropTable, HasTable
<1>4. Unique(m.tables \union {r.entry}, m.retired \ {r}, m.jobs, m.next_table_id, m.next_job_id)
  BY <1>3, UndropUnique DEF UniqueIn
<1> QED
  BY <1>2, <1>4 DEF UniqueIn, n

(* REVERT keeps names and ids unique.                                      *)
LEMMA RevertTableTypes ==
    ASSUME NEW m, IsManifest(m), UniqueIn(m), NEW r \in m.retired, NEW cur \in m.tables,
           CanRevertTable(m, r, cur)
    PROVE  UniqueIn(RevertTable(m, r, cur))
<1> DEFINE u == Restored(r, cur)
           q == Retire(m, cur, "reverted", {})
           n == RevertTable(m, r, cur)
<1>1. n = [m EXCEPT !.tables = (m.tables \ {cur}) \union {u},
                    !.retired = (m.retired \ {r}) \union {q}]
  BY DEF RevertTable
<1>2. q.entry = cur
  BY DEF Retire
<1>3. u.id = r.entry.id /\ u.name = r.entry.name
  BY RestoredShape
<1> HIDE DEF u, q, n
<1>4. /\ n.tables = (m.tables \ {cur}) \union {u}
      /\ n.retired = (m.retired \ {r}) \union {q} /\ n.jobs = m.jobs
      /\ n.next_table_id = m.next_table_id /\ n.next_job_id = m.next_job_id
  BY <1>1 DEF IsManifest
<1>5. r.entry.name = cur.name /\ \A j \in m.jobs : j.source # cur.id
  BY DEF CanRevertTable, JobRunning
<1>6. Unique((m.tables \ {cur}) \union {u}, (m.retired \ {r}) \union {q}, m.jobs,
             m.next_table_id, m.next_job_id)
  BY <1>2, <1>3, <1>5, RevertUnique DEF UniqueIn
<1> QED
  BY <1>4, <1>6 DEF UniqueIn, n

(* Expiry keeps names and ids unique.                                      *)
LEMMA ExpireRetiredTypes ==
    ASSUME NEW m, IsManifest(m), UniqueIn(m), NEW expired \in SUBSET m.retired
    PROVE  UniqueIn(ExpireRetired(m, expired))
<1> DEFINE k == [m EXCEPT !.retired = m.retired \ expired]
<1>1. PICK segs : ExpireRetired(m, expired) = Release(k, segs, m.version + 1)
  BY DEF ExpireRetired
<1>2. /\ IsManifest(k)
      /\ k.tables = m.tables /\ k.retired = m.retired \ expired /\ k.jobs = m.jobs
      /\ k.next_table_id = m.next_table_id /\ k.next_job_id = m.next_job_id
  BY DEF IsManifest
<1> HIDE DEF k
<1>3. Unique(m.tables, m.retired \ expired, m.jobs, m.next_table_id, m.next_job_id)
  BY FewerUnique DEF UniqueIn
<1>4. UniqueIn(k)
  BY <1>2, <1>3 DEF UniqueIn
<1> QED
  BY <1>1, <1>2, <1>4, ReleaseUnique

(* gc's last commit keeps names and ids unique.                            *)
LEMMA ForgetGarbageTypes ==
    ASSUME NEW m, IsManifest(m), UniqueIn(m), NEW ids
    PROVE  UniqueIn(ForgetGarbage(m, ids))
<1> DEFINE n == ForgetGarbage(m, ids)
<1>1. /\ n.tables = m.tables /\ n.retired = m.retired /\ n.jobs = m.jobs
      /\ n.next_table_id = m.next_table_id /\ n.next_job_id = m.next_job_id
  BY DEF ForgetGarbage, IsManifest
<1> HIDE DEF n
<1> QED
  BY <1>1 DEF UniqueIn, n

(* A flush keeps names and ids unique.                                     *)
LEMMA AddFlushedTypes ==
    ASSUME IsManifest(manifest), UniqueIn(manifest), \A p \in flushing : IsSegment(p.seg)
    PROVE  UniqueIn(AddFlushed)
<1> DEFINE n == AddFlushed
           U == {Grown(t) : t \in manifest.tables}
<1>1. PICK x : n = [manifest EXCEPT !.tables = U, !.next_segment_id = x]
  BY DEF AddFlushed
<1>2. \A t \in manifest.tables : Grown(t).id = t.id /\ Grown(t).name = t.name
  BY DEF Grown, IsManifest, IsEntry
<1>3. (\A u \in U : \E t \in manifest.tables : u = Grown(t))
      /\ \A t \in manifest.tables : Grown(t) \in U
  OBVIOUS
<1> HIDE DEF U, n
<1>4. /\ n.tables = U /\ n.retired = manifest.retired /\ n.jobs = manifest.jobs
      /\ n.next_table_id = manifest.next_table_id /\ n.next_job_id = manifest.next_job_id
  BY <1>1 DEF IsManifest
<1>5. Unique(U, manifest.retired, manifest.jobs, manifest.next_table_id, manifest.next_job_id)
  BY <1>2, <1>3, GrowUnique DEF UniqueIn
<1> QED
  BY <1>4, <1>5 DEF UniqueIn, n

-----------------------------------------------------------------------------
(* The inductive invariant and the actions.                                *)

(* A buffered batch.                                                       *)
IsBatch(b) ==
    /\ b = [table |-> b.table, row |-> b.row, cols |-> b.cols]
    /\ b.table \in Names /\ b.row \in Rows
Named == UniqueIn(manifest) /\ manifest.version <= MaxVersion
Buffers == (\A b \in pending \union in_flight : IsBatch(b)) /\ committed \subseteq Rows
TypeInv == SafeInv /\ Named /\ next_id <= MaxId + 1 /\ Buffers

(* A commit of an edit that keeps the manifest unique.                     *)
LEMMA CommitNamed ==
    ASSUME SafeInv, NEW n, NEW new, EditOK(manifest, n, new, next_id), UniqueIn(n), CommitTo(n)
    PROVE  Named'
<1>1. IsManifest(n) /\ n.version = manifest.version
  BY DEF EditOK
<1>2. UniqueIn(NextVersion(n)) /\ NextVersion(n).version = n.version + 1
  BY <1>1, NextVersionShape DEF UniqueIn
<1>3. manifest' = NextVersion(n) /\ manifest.version < MaxVersion
  BY DEF CommitTo
<1>4. manifest.version \in Nat /\ MaxVersion \in Nat
  BY StoreAssumption DEF SafeInv, Safe, IsManifest
<1> QED
  BY <1>1, <1>2, <1>3, <1>4 DEF Named, UniqueIn

(* CREATE TABLE keeps names and ids unique and the version bounded.        *)
LEMMA CreateNamed ==
    ASSUME SafeInv, Named, NEW n \in Names, NEW columns, Create(n, columns)
    PROVE  Named'
<1> DEFINE k == CreateTable(manifest, n, columns)
<1>1. EditOK(manifest, k, {}, next_id)
  BY CreateTableEdit DEF SafeInv, Safe
<1>2. UniqueIn(k)
  BY CreateTableTypes DEF SafeInv, Safe, Named, Create
<1>3. CommitTo(k)
  BY DEF Create
<1> HIDE DEF k
<1> QED
  BY <1>1, <1>2, <1>3, CommitNamed

(* DELETE keeps names and ids unique and the version bounded.              *)
LEMMA DeleteNamed ==
    ASSUME SafeInv, Named, NEW n, NEW c, NEW kills, Delete(n, c, kills)
    PROVE  Named'
<1>1. PICK t \in manifest.tables : CommitTo(AddTombstone(manifest, t, c, kills))
  BY DEF Delete
<1> DEFINE k == AddTombstone(manifest, t, c, kills)
<1>2. EditOK(manifest, k, {}, next_id)
  BY AddTombstoneEdit DEF SafeInv, Safe
<1>3. UniqueIn(k)
  BY <1>1, AddTombstoneTypes DEF SafeInv, Safe, Named
<1> HIDE DEF k
<1> QED
  BY <1>1, <1>2, <1>3, CommitNamed DEF k

(* TRUNCATE keeps names and ids unique and the version bounded.            *)
LEMMA TruncateNamed ==
    ASSUME SafeInv, Named, NEW n, Truncate(n)
    PROVE  Named'
<1>1. PICK t \in manifest.tables : CommitTo(TruncateTable(manifest, t))
  BY DEF Truncate
<1> DEFINE k == TruncateTable(manifest, t)
<1>2. EditOK(manifest, k, {}, next_id)
  BY TruncateEdit DEF SafeInv, Safe
<1>3. UniqueIn(k)
  BY <1>1, TruncateTypes DEF SafeInv, Safe, Named
<1> HIDE DEF k
<1> QED
  BY <1>1, <1>2, <1>3, CommitNamed DEF k

(* ALTER TABLE keeps names and ids unique and the version bounded.         *)
LEMMA AlterNamed ==
    ASSUME SafeInv, Named, NEW n, NEW ops, Alter(n, ops)
    PROVE  Named'
<1>1. PICK t \in manifest.tables : CommitTo(CreateJob(manifest, t, ops)) /\ ~JobRunning(manifest, t)
  BY DEF Alter, CanCreateJob
<1> DEFINE k == CreateJob(manifest, t, ops)
<1>2. EditOK(manifest, k, {}, next_id)
  BY CreateJobEdit DEF SafeInv, Safe
<1>3. UniqueIn(k)
  BY <1>1, CreateJobTypes DEF SafeInv, Safe, Named
<1> HIDE DEF k
<1> QED
  BY <1>1, <1>2, <1>3, CommitNamed DEF k

(* DROP keeps names and ids unique and the version bounded.                *)
LEMMA DropNamed ==
    ASSUME SafeInv, Named, NEW n, Drop(n)
    PROVE  Named'
<1>1. PICK t \in manifest.tables : CommitTo(DropTable(manifest, t)) /\ CanDropTable(manifest, t)
  BY DEF Drop
<1> DEFINE k == DropTable(manifest, t)
<1>2. EditOK(manifest, k, {}, next_id)
  BY DropTableEdit DEF SafeInv, Safe
<1>3. UniqueIn(k)
  BY <1>1, DropTableTypes DEF SafeInv, Safe, Named
<1> HIDE DEF k
<1> QED
  BY <1>1, <1>2, <1>3, CommitNamed DEF k

(* UNDROP keeps names and ids unique and the version bounded.              *)
LEMMA UndropNamed ==
    ASSUME SafeInv, Named, NEW n, Undrop(n)
    PROVE  Named'
<1>1. PICK r \in manifest.retired : CommitTo(UndropTable(manifest, r)) /\ CanUndropTable(manifest, r)
  BY DEF Undrop
<1> DEFINE k == UndropTable(manifest, r)
<1>2. EditOK(manifest, k, {}, next_id)
  BY UndropTableEdit DEF SafeInv, Safe
<1>3. UniqueIn(k)
  BY <1>1, UndropTableTypes DEF SafeInv, Safe, Named
<1> HIDE DEF k
<1> QED
  BY <1>1, <1>2, <1>3, CommitNamed DEF k

(* REVERT keeps names and ids unique and the version bounded.              *)
LEMMA RevertNamed ==
    ASSUME SafeInv, Named, NEW n, Revert(n)
    PROVE  Named'
<1>1. PICK cur \in manifest.tables, r \in manifest.retired : CommitTo(RevertTable(manifest, r, cur)) /\ CanRevertTable(manifest, r, cur)
  BY DEF Revert
<1> DEFINE k == RevertTable(manifest, r, cur)
<1>2. EditOK(manifest, k, {}, next_id)
  BY RevertTableEdit DEF SafeInv, Safe
<1>3. UniqueIn(k)
  BY <1>1, RevertTableTypes DEF SafeInv, Safe, Named
<1> HIDE DEF k
<1> QED
  BY <1>1, <1>2, <1>3, CommitNamed DEF k

(* Cancelling a job keeps names and ids unique and the version bounded.    *)
LEMMA CancelNamed ==
    ASSUME SafeInv, Named, NEW j \in manifest.jobs, Cancel(j)
    PROVE  Named'
<1> DEFINE k == CancelJob(manifest, j)
<1>1. EditOK(manifest, k, {}, next_id)
  BY CancelJobEdit DEF SafeInv, Safe
<1>2. UniqueIn(k)
  BY CancelJobTypes DEF SafeInv, Safe, Named
<1>3. CommitTo(k)
  BY DEF Cancel
<1> HIDE DEF k
<1> QED
  BY <1>1, <1>2, <1>3, CommitNamed

(* Expiry keeps names and ids unique and the version bounded.              *)
LEMMA ExpireNamed ==
    ASSUME SafeInv, Named, NEW expired \in SUBSET manifest.retired, Expire(expired)
    PROVE  Named'
<1> DEFINE k == ExpireRetired(manifest, expired)
<1>1. EditOK(manifest, k, {}, next_id)
  BY ExpireRetiredEdit DEF SafeInv, Safe
<1>2. UniqueIn(k)
  BY ExpireRetiredTypes DEF SafeInv, Safe, Named
<1>3. CommitTo(k)
  BY DEF Expire
<1> HIDE DEF k
<1> QED
  BY <1>1, <1>2, <1>3, CommitNamed

(* gc's last commit keeps names and ids unique and the version bounded.    *)
LEMMA ForgetNamed ==
    ASSUME SafeInv, Named, NEW ids, Forget(ids)
    PROVE  Named'
<1> DEFINE k == ForgetGarbage(manifest, ids)
<1>1. EditOK(manifest, k, {}, next_id)
  BY ForgetGarbageEdit DEF SafeInv, Safe
<1>2. UniqueIn(k)
  BY ForgetGarbageTypes DEF SafeInv, Safe, Named
<1>3. CommitTo(k)
  BY DEF Forget
<1> HIDE DEF k
<1> QED
  BY <1>1, <1>2, <1>3, CommitNamed

(* A flush's commit keeps names and ids unique and the version bounded.    *)
LEMMA FlushCommitNamed ==
    ASSUME SafeInv, Named, FlushCommit
    PROVE  Named'
<1>1. /\ IsManifest(manifest) /\ IdsBelow(manifest)
      /\ next_id \in Nat /\ manifest.next_segment_id <= next_id
      /\ \A p \in flushing : IsSegment(p.seg) /\ p.seg.id < next_id
  BY DEF SafeInv, Safe, Fresh
<1>2. PICK new \in SUBSET FlushIds : EditOK(manifest, AddFlushed, new, next_id)
  BY <1>1, AddFlushedEdit
<1>3. UniqueIn(AddFlushed)
  BY <1>1, AddFlushedTypes DEF Named
<1>4. CommitTo(AddFlushed)
  BY DEF FlushCommit
<1> QED
  BY <1>2, <1>3, <1>4, CommitNamed

(* A job step's commit keeps names and ids unique and the version bounded. *)
LEMMA JobAdvanceNamed ==
    ASSUME SafeInv, Named, NEW w \in Workers, JobAdvance(w)
    PROVE  Named'
<1>1. PICK j \in manifest.jobs, t \in manifest.tables :
         CommitTo(AdvanceJob(manifest, t, j, work[w].reused, work[w].rewritten,
                             work[w].segments))
  BY DEF JobAdvance
<1> DEFINE segs == work[w].segments
           n == AdvanceJob(manifest, t, j, work[w].reused, work[w].rewritten, segs)
<1>2. /\ IsManifest(manifest) /\ IdsBelow(manifest)
      /\ next_id \in Nat /\ manifest.next_segment_id <= next_id
  BY DEF SafeInv, Safe
<1>3. \A s \in segs : IsSegment(s) /\ s.id < next_id
  BY DEF JobAdvance, WorkSegs, SafeInv, Safe, Fresh
<1>4. EditOK(manifest, n, SegIds(segs), next_id)
  BY <1>2, <1>3, AdvanceJobEdit
<1>5. UniqueIn(n)
  BY <1>2, <1>3, AdvanceJobTypes DEF Named
<1>6. CommitTo(n)
  BY <1>1
<1> HIDE DEF n, segs
<1> QED
  BY <1>4, <1>5, <1>6, CommitNamed

(* A compaction's commit keeps names and ids unique and the version        *)
(* bounded.                                                                *)
LEMMA CompactCommitNamed ==
    ASSUME SafeInv, Named, NEW w \in Workers, CompactCommit(w)
    PROVE  Named'
<1>1. PICK t \in manifest.tables :
         LET m == RemoveSegments(manifest, t, work[w].removes)
             u == CHOOSE u \in m.tables : u.id = t.id
         IN  CommitTo(AddSegments(m, u, work[w].adds))
  BY DEF CompactCommit
<1> DEFINE m == RemoveSegments(manifest, t, work[w].removes)
           u == CHOOSE u \in m.tables : u.id = t.id
           adds == work[w].adds
           n == AddSegments(m, u, adds)
<1>2. /\ IsManifest(manifest) /\ IdsBelow(manifest)
      /\ next_id \in Nat /\ manifest.next_segment_id <= next_id
  BY DEF SafeInv, Safe
<1>3. \A s \in adds : IsSegment(s) /\ s.id < next_id /\ s.id \notin Used(manifest)
  BY DEF CompactCommit, WorkSegs, SafeInv, Safe, Fresh
<1>4. /\ EditOK(manifest, m, {}, next_id)
      /\ UniqueIn(m) /\ IsManifest(m) /\ \E x \in m.tables : x.id = t.id
  BY <1>2, RemoveSegmentsEdit, RemoveSegmentsTypes DEF Named
<1>5. CommitTo(n)
  BY <1>1
<1> HIDE DEF m, adds
<1>6. u \in m.tables
  BY <1>4
<1> HIDE DEF u
<1>7. IdsBelow(m) /\ m.next_segment_id <= next_id
  <2>1. IdsBelow(m)
    BY <1>2, <1>4, EditIds
  <2> QED
    BY <1>4, <2>1 DEF EditOK
<1>8. EditOK(m, n, SegIds(adds), next_id) /\ n.garbage = m.garbage
  BY <1>2, <1>3, <1>4, <1>6, <1>7, AddSegmentsEdit
<1>9. UniqueIn(n)
  BY <1>3, <1>4, <1>6, AddSegmentsTypes
<1> HIDE DEF n
<1>10. SegIds(adds) \intersect Used(manifest) = {}
  BY <1>3 DEF SegIds
<1>11. EditOK(manifest, n, SegIds(adds), next_id)
  BY <1>2, <1>4, <1>8, <1>10, EditChain
<1> QED
  BY <1>5, <1>9, <1>11, CommitNamed

(* The swap of a job keeps names and ids unique and the version bounded.   *)
LEMMA JobSwapNamed ==
    ASSUME SafeInv, Named, NEW j \in manifest.jobs, JobSwap(j)
    PROVE  Named'
<1>1. PICK t \in manifest.tables :
         /\ t.id = j.source
         /\ LET m == AdvanceJob(manifest, t, j, SegIds(Gap(t, j)), {}, {})
                k == CHOOSE k \in m.jobs : k.id = j.id
            IN  CommitTo(SwapJob(m, t, k))
  BY DEF JobSwap
<1> DEFINE m == AdvanceJob(manifest, t, j, SegIds(Gap(t, j)), {}, {})
           k == CHOOSE k \in m.jobs : k.id = j.id
           n == SwapJob(m, t, k)
<1>2. /\ IsManifest(manifest) /\ IdsBelow(manifest)
      /\ next_id \in Nat /\ manifest.next_segment_id <= next_id
  BY DEF SafeInv, Safe
<1>3. /\ EditOK(manifest, m, SegIds({}), next_id)
      /\ m.garbage = manifest.garbage /\ m.tables = manifest.tables
  <2>1. \A s \in {} : IsSegment(s) /\ s.id < next_id
    OBVIOUS
  <2> QED
    BY <1>2, <2>1, AdvanceJobEdit
<1>4. UniqueIn(m) /\ \E x \in m.jobs : x.id = j.id /\ x.source = j.source
  <2>1. \A s \in {} : IsSegment(s)
    OBVIOUS
  <2> QED
    BY <1>2, <2>1, AdvanceJobTypes DEF Named
<1>5. CommitTo(n)
  BY <1>1
<1> HIDE DEF m
<1>6. k \in m.jobs /\ k.id = j.id
  BY <1>4
<1> HIDE DEF k
<1>7. k.source = j.source
  BY <1>4, <1>6 DEF UniqueIn, Unique, JobsUnique
<1>8. EditOK(manifest, m, {}, next_id)
  BY <1>3 DEF SegIds
<1>9. IsManifest(m) /\ m.next_segment_id <= next_id
  BY <1>8 DEF EditOK
<1>10. EditOK(m, n, {}, next_id) /\ n.garbage = m.garbage
  BY <1>2, <1>3, <1>6, <1>9, SwapJobEdit
<1>11. UniqueIn(n)
  BY <1>1, <1>3, <1>4, <1>6, <1>7, <1>9, SwapJobTypes
<1> HIDE DEF n
<1>12. EditOK(manifest, n, {}, next_id)
  BY <1>2, <1>8, <1>10, EditChain
<1> QED
  BY <1>5, <1>11, <1>12, CommitNamed

(* No step outside a commit touches the manifest.                          *)
LEMMA StutterNamed ==
    ASSUME Named, UNCHANGED manifest
    PROVE  Named'
  BY DEF Named

(* Every step keeps names and ids unique and the version within its bound. *)
LEMMA NextNamed ==
    ASSUME SafeInv, Named, [Next]_vars
    PROVE  Named'
<1>1. ASSUME NEW n \in Names, NEW columns \in ColumnLists, Create(n, columns)
      PROVE  Named'
  BY <1>1, CreateNamed
<1>2. ASSUME NEW n \in Names, Truncate(n) \/ Revert(n) \/ Drop(n) \/ Undrop(n)
      PROVE  Named'
  BY <1>2, TruncateNamed, RevertNamed, DropNamed, UndropNamed
<1>3. ASSUME NEW n \in Names, NEW r \in Rows, Write(n, r)
      PROVE  Named'
  BY <1>3, StutterNamed DEF Write
<1>4. ASSUME NEW n \in Names, NEW c, NEW kills \in Predicates, Delete(n, c, kills)
      PROVE  Named'
  BY <1>4, DeleteNamed
<1>5. ASSUME NEW n \in Names, NEW ops \in AlterOps, Alter(n, ops)
      PROVE  Named'
  BY <1>5, AlterNamed
<1>6. ASSUME NEW n \in Names, NEW w \in Workers, CompactPrepare(w, n)
      PROVE  Named'
  BY <1>6, StutterNamed DEF CompactPrepare
<1>7. CASE FlushTake \/ FlushWrite \/ FlushFail \/ Reopen \/ UNCHANGED vars
  BY <1>7, StutterNamed DEF FlushTake, FlushWrite, FlushFail, Reopen, vars
<1>8. CASE FlushCommit
  BY <1>8, FlushCommitNamed
<1>9. ASSUME NEW w \in Workers, CompactCommit(w) \/ JobAdvance(w) \/ Abandon(w)
      PROVE  Named'
  <2>1. CASE Abandon(w)
    BY <2>1, StutterNamed DEF Abandon
  <2> QED
    BY <1>9, <2>1, CompactCommitNamed, JobAdvanceNamed
<1>10. ASSUME NEW j \in manifest.jobs, JobSwap(j) \/ Cancel(j)
       PROVE  Named'
  BY <1>10, JobSwapNamed, CancelNamed
<1>11. ASSUME NEW j \in manifest.jobs, NEW w \in Workers, JobPrepare(w, j)
       PROVE  Named'
  BY <1>11, StutterNamed DEF JobPrepare
<1>12. ASSUME NEW expired \in SUBSET manifest.retired, Expire(expired)
       PROVE  Named'
  BY <1>12, ExpireNamed
<1>13. ASSUME NEW ids \in SUBSET GarbageIds(manifest), Forget(ids)
       PROVE  Named'
  BY <1>13, ForgetNamed
<1> QED
  BY <1>1, <1>2, <1>3, <1>4, <1>5, <1>6, <1>7, <1>8, <1>9, <1>10, <1>11, <1>12,
     <1>13 DEF Next

-----------------------------------------------------------------------------
(* The allocator and the buffer.                                           *)

(* The allocator stays within MaxId + 1: a preparation asks for room, and  *)
(* a restart falls back to the counter of the manifest.                    *)
LEMMA NextAlloc ==
    ASSUME SafeInv, next_id <= MaxId + 1, [Next]_vars
    PROVE  next_id' <= MaxId + 1
<1>1. /\ next_id \in Nat /\ MaxId \in Nat
      /\ manifest.next_segment_id \in Nat /\ manifest.next_segment_id <= next_id
  BY StoreAssumption DEF SafeInv, Safe, IsManifest
<1>2. CASE UNCHANGED next_id
  BY <1>2
<1>3. ASSUME NEW n \in Names, NEW w \in Workers, CompactPrepare(w, n)
      PROVE  next_id' <= MaxId + 1
  BY <1>1, <1>3 DEF CompactPrepare
<1>4. CASE FlushWrite
  BY <1>1, <1>4 DEF FlushWrite
<1>5. ASSUME NEW j \in manifest.jobs, NEW w \in Workers, JobPrepare(w, j)
      PROVE  next_id' <= MaxId + 1
  BY <1>1, <1>5 DEF JobPrepare
<1>6. CASE Reopen
  BY <1>1, <1>6 DEF Reopen
<1>7. ASSUME NEW n \in Names, Truncate(n) \/ Revert(n) \/ Drop(n) \/ Undrop(n)
      PROVE  UNCHANGED next_id
  BY <1>7 DEF Truncate, Revert, Drop, Undrop
<1>8. ASSUME NEW n, NEW columns, Create(n, columns)
      PROVE  UNCHANGED next_id
  BY <1>8 DEF Create
<1>9. ASSUME NEW n, NEW r, Write(n, r)
      PROVE  UNCHANGED next_id
  BY <1>9 DEF Write
<1>10. ASSUME NEW n, NEW c, NEW kills, Delete(n, c, kills)
       PROVE  UNCHANGED next_id
  BY <1>10 DEF Delete
<1>11. ASSUME NEW n, NEW ops, Alter(n, ops)
       PROVE  UNCHANGED next_id
  BY <1>11 DEF Alter
<1>12. CASE FlushTake \/ FlushCommit \/ FlushFail \/ UNCHANGED vars
  BY <1>2, <1>12 DEF FlushTake, FlushCommit, FlushFail, vars
<1>13. ASSUME NEW w, CompactCommit(w) \/ JobAdvance(w) \/ Abandon(w)
       PROVE  UNCHANGED next_id
  BY <1>13 DEF CompactCommit, JobAdvance, Abandon
<1>14. ASSUME NEW j, JobSwap(j) \/ Cancel(j)
       PROVE  UNCHANGED next_id
  BY <1>14 DEF JobSwap, Cancel
<1>15. ASSUME NEW x, Expire(x) \/ Forget(x)
       PROVE  UNCHANGED next_id
  BY <1>15 DEF Expire, Forget
<1> QED
  BY <1>2, <1>3, <1>4, <1>5, <1>6, <1>7, <1>8, <1>9, <1>10, <1>11, <1>12, <1>13,
     <1>14, <1>15 DEF Next

(* Projecting the buffered batches of a table keeps their table and row.   *)
LEMMA ProjectBuffers ==
    ASSUME \A b \in pending : IsBatch(b), NEW n, NEW from, NEW to
    PROVE  \A b \in ProjectPending(n, from, to) : IsBatch(b)
<1> SUFFICES ASSUME NEW b \in pending
             PROVE  IsBatch(IF b.table = n THEN ProjectBatch(b, from, to) ELSE b)
  BY DEF ProjectPending
<1>1. PICK x : ProjectBatch(b, from, to) = [b EXCEPT !.cols = x]
  BY DEF ProjectBatch
<1>2. IsBatch(b)
  OBVIOUS
<1>3. IsBatch([b EXCEPT !.cols = x])
  BY <1>2 DEF IsBatch
<1> QED
  BY <1>1, <1>2, <1>3

(* A step that leaves the buffer alone.                                    *)
LEMMA StutterBuffers ==
    ASSUME Buffers, UNCHANGED <<pending, in_flight, committed>>
    PROVE  Buffers'
  BY DEF Buffers

(* Every step keeps the buffered batches and the committed rows well typed. *)
LEMMA NextBuffers ==
    ASSUME Buffers, [Next]_vars
    PROVE  Buffers'
<1> USE DEF buffer
<1>1. ASSUME NEW n \in Names, NEW r \in Rows, Write(n, r)
      PROVE  Buffers'
  <2>1. PICK x : pending' = pending \union {[table |-> n, row |-> r, cols |-> x]}
    BY <1>1 DEF Write
  <2>2. IsBatch([table |-> n, row |-> r, cols |-> x])
    BY DEF IsBatch
  <2>3. UNCHANGED <<in_flight, committed>>
    BY <1>1 DEF Write
  <2> QED
    BY <2>1, <2>2, <2>3 DEF Buffers
<1>2. CASE FlushTake
  BY <1>2 DEF FlushTake, Buffers
<1>3. CASE FlushCommit
  <2>1. \A b \in in_flight : b.row \in Rows
    BY DEF Buffers, IsBatch
  <2> QED
    BY <1>3, <2>1 DEF FlushCommit, Buffers
<1>4. CASE FlushFail
  BY <1>4 DEF FlushFail, Buffers
<1>5. CASE Reopen
  BY <1>5 DEF Reopen, Buffers
<1>6. ASSUME NEW n, NEW from, NEW to, pending' = ProjectPending(n, from, to),
             UNCHANGED <<in_flight, committed>>
      PROVE  Buffers'
  BY <1>6, ProjectBuffers DEF Buffers
<1>7. ASSUME NEW n, Revert(n)
      PROVE  Buffers'
  BY <1>6, <1>7 DEF Revert
<1>8. ASSUME NEW j, JobSwap(j)
      PROVE  Buffers'
  BY <1>6, <1>8 DEF JobSwap
<1>9. ASSUME NEW n, Truncate(n) \/ Drop(n) \/ Undrop(n)
      PROVE  Buffers'
  BY <1>9, StutterBuffers DEF Truncate, Drop, Undrop
<1>10. ASSUME NEW n, NEW columns, Create(n, columns)
       PROVE  Buffers'
  BY <1>10, StutterBuffers DEF Create
<1>11. ASSUME NEW n, NEW c, NEW kills, Delete(n, c, kills)
       PROVE  Buffers'
  BY <1>11, StutterBuffers DEF Delete
<1>12. ASSUME NEW n, NEW ops, Alter(n, ops)
       PROVE  Buffers'
  BY <1>12, StutterBuffers DEF Alter
<1>13. ASSUME NEW w, NEW n, CompactPrepare(w, n)
       PROVE  Buffers'
  BY <1>13, StutterBuffers DEF CompactPrepare
<1>14. CASE FlushWrite \/ UNCHANGED vars
  BY <1>14, StutterBuffers DEF FlushWrite, vars
<1>15. ASSUME NEW w, CompactCommit(w) \/ JobAdvance(w) \/ Abandon(w)
       PROVE  Buffers'
  BY <1>15, StutterBuffers DEF CompactCommit, JobAdvance, Abandon
<1>16. ASSUME NEW j, Cancel(j)
       PROVE  Buffers'
  BY <1>16, StutterBuffers DEF Cancel
<1>17. ASSUME NEW j, NEW w, JobPrepare(w, j)
       PROVE  Buffers'
  BY <1>17, StutterBuffers DEF JobPrepare
<1>18. ASSUME NEW x, Expire(x) \/ Forget(x)
       PROVE  Buffers'
  BY <1>18, StutterBuffers DEF Expire, Forget
<1> QED
  BY <1>1, <1>2, <1>3, <1>4, <1>5, <1>7, <1>8, <1>9, <1>10, <1>11, <1>12, <1>13,
     <1>14, <1>15, <1>16, <1>17, <1>18 DEF Next

-----------------------------------------------------------------------------
(* The theorem.                                                            *)

(* An empty store satisfies the invariant.                                 *)
LEMMA TypeInit == Init => TypeInv
<1> SUFFICES ASSUME Init PROVE TypeInv
  OBVIOUS
<1>1. /\ manifest.tables = {} /\ manifest.retired = {} /\ manifest.jobs = {}
      /\ manifest.version = 0 /\ manifest.next_table_id = 1 /\ manifest.next_job_id = 1
      /\ next_id = 0 /\ MaxVersion \in Nat /\ MaxId \in Nat
  BY StoreAssumption DEF Init, EmptyManifest
<1>2. Unique({}, {}, {}, 1, 1)
  BY DEF Unique, TablesUnique, JobsUnique
<1>3. Named
  BY <1>1, <1>2 DEF Named, UniqueIn
<1>4. Buffers
  BY DEF Init, Buffers
<1> QED
  BY <1>1, <1>3, <1>4, SafeInit DEF TypeInv

(* The inductive invariant implies the type invariant of the runs.         *)
LEMMA TypeInvIsTypeOK == TypeInv => TypeOK
<1> SUFFICES ASSUME TypeInv PROVE TypeOK
  OBVIOUS
<1>1. /\ IsManifest(manifest) /\ next_id \in Nat /\ next_id <= MaxId + 1
      /\ manifest.next_segment_id <= next_id
  BY DEF TypeInv, SafeInv, Safe
<1>2. manifest.version \in 0 .. MaxVersion
  BY <1>1, StoreAssumption DEF TypeInv, Named, IsManifest
<1>3. next_id \in 0 .. MaxId + 1 /\ manifest.next_segment_id \in 0 .. next_id
  BY <1>1, StoreAssumption DEF IsManifest
<1>4. /\ \A t, u \in manifest.tables : (t.name = u.name \/ t.id = u.id) => t = u
      /\ \A i, j \in manifest.jobs : (i.id = j.id \/ i.source = j.source) => i = j
  BY DEF TypeInv, Named, UniqueIn, Unique, TablesUnique, JobsUnique
<1>5. /\ \A b \in pending \union in_flight : b.table \in Names /\ b.row \in Rows
      /\ committed \subseteq Rows
  BY DEF TypeInv, Buffers, IsBatch
<1> QED
  BY <1>1, <1>2, <1>3, <1>4, <1>5 DEF TypeOK

(* In every state of the store, table names, table ids and job ids are     *)
(* unique (the lookups Manifest::table, job and job_for therefore have one *)
(* answer), every segment id in the manifest was handed out by the         *)
(* allocator, and the buffer holds rows of named tables.                   *)
THEOREM TypesAlways == Spec => []TypeOK
<1>1. TypeInv /\ [Next]_vars => TypeInv'
  BY NextSafe, NextNamed, NextAlloc, NextBuffers DEF TypeInv
<1> QED
  BY <1>1, TypeInit, TypeInvIsTypeOK, PTL DEF Spec
=============================================================================
