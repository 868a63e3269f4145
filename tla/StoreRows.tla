------------------------------ MODULE StoreRows ------------------------------
(***************************************************************************)
(* What TableStore does to rows: a flush is never refused, no row is       *)
(* stored twice, and a job has carried exactly what it handled.  The three *)
(* hold because of facts about files that outlive the entries naming them: *)
(* all entries that list a segment id mean the same file, a retired        *)
(* definition holds the rows its successor segments held at the swap, and  *)
(* so does every merge and job step still being prepared - as long as all  *)
(* the segments it was made from are in the manifest.  A commit can check  *)
(* only that last condition; that it is enough is what is proved here.     *)
(***************************************************************************)
EXTENDS StoreProofs

-----------------------------------------------------------------------------
(* The invariant.                                                          *)

(* The segments of a manifest that have one of the ids.                    *)
Sel(m, ids) == {s \in SegmentsIn(m) : s.id \in ids}
StillThere(m, ids) == ids \subseteq SegIds(SegmentsIn(m))

(* Entries that list one id mean one file: its rows and its seq.           *)
SameFile(m) ==
    \A s, u \in SegmentsIn(m) : s.id = u.id => s.seq = u.seq /\ s.rows = u.rows
Apart(segs) == \A s, u \in segs : s.rows \intersect u.rows # {} => s = u

(* While the segments of these ids are in the manifest, segs hold what     *)
(* they hold.                                                              *)
Carries(m, ids, segs) == StillThere(m, ids) => SeqRows(segs) = SeqRows(Sel(m, ids))

JobsCarry(m) ==
    \A j \in m.jobs : \E t \in m.tables :
        /\ t.id = j.source
        /\ j.handled \subseteq SegIds(t.segments)
        /\ SeqRows(j.target.segments) = SeqRows({s \in t.segments : s.id \in j.handled})
Successors(m) ==
    \A r \in m.retired :
        r.reason = "swapped" => Carries(m, r.successor_segments, r.entry.segments)
ManifestRows(m, done) ==
    /\ SameFile(m)
    /\ \A e \in Entries(m) : Apart(e.segments)
    /\ RowsOf(SegmentsIn(m)) \subseteq done
    /\ JobsCarry(m)
    /\ Successors(m)

(* What a worker has prepared, while its inputs are there.                 *)
MergeRows(m, x) ==
    /\ \A s, u \in x.adds : s = u
    /\ StillThere(m, x.removes) => \A s \in x.adds : s.rows = RowsOf(Sel(m, x.removes))
StepRows(m, x) ==
    /\ Carries(m, x.rewritten, x.segments)
    /\ Apart(x.segments)
    /\ \A s, u \in x.segments : s.id = u.id => s = u
    /\ x.reused = {} \/ x.rewritten = {}
WorkRows(m, x) ==
    /\ x.kind = "merge" => MergeRows(m, x)
    /\ x.kind = "advance" => StepRows(m, x)

(* Ids that are or were in the manifest, and so are never handed out.      *)
SpentBy(x) ==
    CASE x.kind = "merge"   -> x.removes
      [] x.kind = "advance" -> x.rewritten
      [] OTHER              -> {}
Old(m, fl, wk, i) ==
    /\ i \in Nat /\ i < m.next_segment_id
    /\ \A p \in fl : p.seg.id # i
    /\ \A w \in Workers : \A s \in WorkSegs(wk[w]) : s.id # i
Spent(m, fl, wk) ==
    /\ \A r \in m.retired : \A i \in r.successor_segments : Old(m, fl, wk, i)
    /\ \A w \in Workers : \A i \in SpentBy(wk[w]) : Old(m, fl, wk, i)

BufferRows ==
    /\ \A b, c \in pending : b.row = c.row => b = c
    /\ \A b, c \in in_flight : b.row = c.row => b = c
    /\ \A b \in pending, c \in in_flight : b.row # c.row
    /\ Buffered \intersect committed = {}
FlushRows ==
    /\ \A p \in flushing : p.seg.rows \subseteq {b.row : b \in in_flight}
    /\ \A p \in flushing : \E b \in in_flight : b.table = p.table
    /\ \A p, q \in flushing : (p.table = q.table \/ p.seg.id = q.seg.id) => p = q
WorkersRows == \A w \in Workers : WorkRows(manifest, work[w])
StoredRows ==
    ManifestRows(manifest, committed) /\ WorkersRows /\ Spent(manifest, flushing, work)
RowsInv == BufferRows /\ FlushRows /\ StoredRows

-----------------------------------------------------------------------------
(* Facts about sets of segments.                                           *)

(* The segments of a manifest are those of its entries.                    *)
LEMMA InSegments ==
    ASSUME NEW m, NEW s
    PROVE  s \in SegmentsIn(m) <=> \E e \in Entries(m) : s \in e.segments
  BY DEF SegmentsIn, Entries

(* Segments with the same seqs and rows hold the same rows at those seqs.  *)
LEMMA SeqRowsWithin ==
    ASSUME NEW A, NEW B, \A s \in A : \E u \in B : u.seq = s.seq /\ u.rows = s.rows
    PROVE  SeqRows(A) \subseteq SeqRows(B) /\ RowsOf(A) \subseteq RowsOf(B)
  BY DEF SeqRows, RowsOf

(* Segments that hold the same rows at the same seqs hold the same rows.   *)
LEMMA SeqRowsRows ==
    ASSUME NEW A, NEW B, SeqRows(A) = SeqRows(B)
    PROVE  RowsOf(A) = RowsOf(B)
<1>1. \A C : \A r : r \in RowsOf(C) <=> \E s \in C : r \in s.rows
  BY DEF RowsOf
<1>2. \A C : \A q, r : <<q, r>> \in SeqRows(C) <=>
      \E s \in C : s.seq = q /\ r \in s.rows
  BY DEF SeqRows
<1>3. \A r : r \in RowsOf(A) <=> \E q : <<q, r>> \in SeqRows(A)
  BY <1>1, <1>2
<1>4. \A r : r \in RowsOf(B) <=> \E q : <<q, r>> \in SeqRows(B)
  BY <1>1, <1>2
<1>5. \A r : r \in RowsOf(A) <=> r \in RowsOf(B)
  BY <1>3, <1>4
<1>6. RowsOf(A) \subseteq RowsOf(B) /\ RowsOf(B) \subseteq RowsOf(A)
  BY <1>5
<1> QED
  BY <1>6

(* Two sets of segments together.                                          *)
LEMMA SeqRowsUnion ==
    ASSUME NEW A, NEW B
    PROVE  /\ SeqRows(A \union B) = SeqRows(A) \union SeqRows(B)
           /\ RowsOf(A \union B) = RowsOf(A) \union RowsOf(B)
  BY DEF SeqRows, RowsOf

(* And three.                                                              *)
LEMMA SeqRowsUnion3 ==
    ASSUME NEW A, NEW B, NEW C
    PROVE  SeqRows(A \union B \union C) = SeqRows(A) \union SeqRows(B) \union SeqRows(C)
  BY DEF SeqRows

(* The same file under another entry.                                      *)
Kin(s, u) == s.id = u.id /\ s.seq = u.seq /\ s.rows = u.rows
(* Every segment of n is one of m, perhaps seen through another schema, or *)
(* has one of the ids handed out for it.                                   *)
FromOld(m, n, new) ==
    \A s \in SegmentsIn(n) : s.id \in new \/ \E u \in SegmentsIn(m) : Kin(s, u)

(* What the segments of some ids hold does not change while they are all   *)
(* there: files are immutable and ids are not reused.                      *)
LEMMA SelFrame ==
    ASSUME NEW m, NEW n, NEW new, SameFile(m), FromOld(m, n, new),
           NEW ids, ids \intersect new = {}, StillThere(n, ids)
    PROVE  /\ StillThere(m, ids)
           /\ SeqRows(Sel(n, ids)) = SeqRows(Sel(m, ids))
           /\ RowsOf(Sel(n, ids)) = RowsOf(Sel(m, ids))
<1>1. \A s \in Sel(n, ids) : \E u \in Sel(m, ids) : Kin(s, u)
  BY DEF Sel, FromOld, Kin
<1>2. \A i \in ids : \E s \in Sel(n, ids) : s.id = i
  BY DEF StillThere, SegIds, Sel
<1>3. StillThere(m, ids)
  BY <1>1, <1>2 DEF StillThere, SegIds, Sel, Kin
<1>4. \A u \in Sel(m, ids) : \E s \in Sel(n, ids) : s.seq = u.seq /\ s.rows = u.rows
  <2> TAKE u \in Sel(m, ids)
  <2>1. PICK s \in Sel(n, ids) : s.id = u.id
    BY <1>2 DEF Sel
  <2>2. PICK v \in Sel(m, ids) : Kin(s, v)
    BY <1>1, <2>1
  <2> QED
    BY <2>1, <2>2 DEF SameFile, Sel, Kin
<1>5. \A s \in Sel(n, ids) : \E u \in Sel(m, ids) : u.seq = s.seq /\ u.rows = s.rows
  BY <1>1 DEF Kin
<1>6. SeqRows(Sel(n, ids)) \subseteq SeqRows(Sel(m, ids)) /\
      RowsOf(Sel(n, ids)) \subseteq RowsOf(Sel(m, ids))
  BY <1>5, SeqRowsWithin
<1>7. SeqRows(Sel(m, ids)) \subseteq SeqRows(Sel(n, ids)) /\
      RowsOf(Sel(m, ids)) \subseteq RowsOf(Sel(n, ids))
  BY <1>4, SeqRowsWithin
<1> QED
  BY <1>3, <1>6, <1>7

(* So claims about them carry over.                                        *)
LEMMA CarriesFrame ==
    ASSUME NEW m, NEW n, NEW new, SameFile(m), FromOld(m, n, new),
           NEW ids, ids \intersect new = {}, NEW segs, Carries(m, ids, segs)
    PROVE  Carries(n, ids, segs)
  BY SelFrame DEF Carries

(* New segments with ids of their own keep ids and files together.         *)
LEMMA SameFileFrame ==
    ASSUME NEW m, NEW n, NEW new, SameFile(m), FromOld(m, n, new),
           new \intersect SegIds(SegmentsIn(m)) = {},
           \A s, u \in SegmentsIn(n) : s.id = u.id /\ s.id \in new => s.seq = u.seq /\
             s.rows = u.rows
    PROVE  SameFile(n)
<1> SUFFICES ASSUME NEW s \in SegmentsIn(n), NEW u \in SegmentsIn(n), s.id = u.id,
                    s.id \notin new
             PROVE  s.seq = u.seq /\ s.rows = u.rows
  BY DEF SameFile
<1>1. PICK x \in SegmentsIn(m) : Kin(s, x)
  BY DEF FromOld
<1>2. PICK y \in SegmentsIn(m) : Kin(u, y)
  BY DEF FromOld
<1>3. x.id = y.id
  BY <1>1, <1>2 DEF Kin
<1>4. x.seq = y.seq /\ x.rows = y.rows
  BY <1>1, <1>2, <1>3 DEF SameFile
<1> QED
  BY <1>1, <1>2, <1>4 DEF Kin

(* What the segments of one entry say of ids it lists.                     *)
LEMMA SelWithin ==
    ASSUME NEW m, SameFile(m), NEW e \in Entries(m), NEW ids,
           ids \subseteq SegIds(e.segments)
    PROVE  LET within == {s \in e.segments : s.id \in ids}
           IN  /\ StillThere(m, ids)
               /\ SeqRows(Sel(m, ids)) = SeqRows(within)
               /\ RowsOf(Sel(m, ids)) = RowsOf(within)
<1> DEFINE within == {s \in e.segments : s.id \in ids}
<1>1. e.segments \subseteq SegmentsIn(m)
  BY InSegments
<1>2. StillThere(m, ids)
  BY <1>1 DEF StillThere, SegIds
<1>3. within \subseteq Sel(m, ids)
  BY <1>1 DEF Sel
<1>4. \A s \in Sel(m, ids) : \E u \in within : u.seq = s.seq /\ u.rows = s.rows
  <2> TAKE s \in Sel(m, ids)
  <2>1. PICK u \in within : u.id = s.id
    BY DEF Sel, SegIds
  <2> QED
    BY <1>3, <2>1 DEF Sel, SameFile
<1>5. \A s \in within : \E u \in Sel(m, ids) : u.seq = s.seq /\ u.rows = s.rows
  BY <1>3
<1> HIDE DEF within
<1>6. SeqRows(within) \subseteq SeqRows(Sel(m, ids)) /\
      RowsOf(within) \subseteq RowsOf(Sel(m, ids))
  BY <1>5, SeqRowsWithin
<1>7. SeqRows(Sel(m, ids)) \subseteq SeqRows(within) /\
      RowsOf(Sel(m, ids)) \subseteq RowsOf(within)
  BY <1>4, SeqRowsWithin
<1> QED
  BY <1>2, <1>6, <1>7 DEF within

-----------------------------------------------------------------------------
(* What an edit does to the rows of a manifest, given what it does to the  *)
(* tables, the jobs and the retired definitions.                           *)

(* Claims of retired definitions survive an edit that uses other ids.      *)
LEMMA SuccessorsFrame ==
    ASSUME NEW m, NEW n, NEW new, SameFile(m), FromOld(m, n, new), Successors(m),
           \A r \in n.retired : r.reason = "swapped" =>
              r \in m.retired /\ r.successor_segments \intersect new = {}
    PROVE  Successors(n)
<1> SUFFICES ASSUME NEW r \in n.retired, r.reason = "swapped"
             PROVE  Carries(n, r.successor_segments, r.entry.segments)
  BY DEF Successors
<1>1. Carries(m, r.successor_segments, r.entry.segments)
  BY DEF Successors
<1> QED
  BY <1>1, CarriesFrame

(* An edit that moves, drops or empties lists of segments.                 *)
LEMMA PlainRows ==
    ASSUME NEW m, NEW n, NEW done, ManifestRows(m, done),
           \A e \in Entries(n) :
              e.segments = {} \/ \E d \in Entries(m) : d.segments = e.segments,
           \A r \in n.retired : r.reason = "swapped" => r \in m.retired,
           \A j \in n.jobs :
              \/ /\ j.handled = {} /\ j.target.segments = {}
                 /\ \E u \in n.tables : u.id = j.source
              \/ /\ j \in m.jobs
                 /\ \A t \in m.tables : t.id = j.source =>
                      \E u \in n.tables : u.id = t.id /\ u.segments = t.segments
    PROVE  FromOld(m, n, {}) /\ ManifestRows(n, done)
<1>1. SegmentsIn(n) \subseteq SegmentsIn(m)
  BY InSegments
<1>2. FromOld(m, n, {})
  BY <1>1 DEF FromOld, Kin
<1>3. SameFile(n)
  BY <1>1 DEF ManifestRows, SameFile
<1>4. \A e \in Entries(n) : Apart(e.segments)
  BY DEF ManifestRows, Apart
<1>5. RowsOf(SegmentsIn(n)) \subseteq done
  BY <1>1 DEF ManifestRows, RowsOf
<1>6. JobsCarry(n)
  <2> SUFFICES ASSUME NEW j \in n.jobs
               PROVE  \E t \in n.tables :
                        /\ t.id = j.source
                        /\ j.handled \subseteq SegIds(t.segments)
                        /\ SeqRows(j.target.segments) =
                             SeqRows({s \in t.segments : s.id \in j.handled})
    BY DEF JobsCarry
  <2>1. CASE j.handled = {} /\ j.target.segments = {} /\ \E u \in n.tables :
          u.id = j.source
    <3>1. PICK u \in n.tables : u.id = j.source
      BY <2>1
    <3>2. {s \in u.segments : s.id \in j.handled} = {}
      BY <2>1
    <3> QED
      BY <2>1, <3>1, <3>2
  <2>2. CASE /\ j \in m.jobs
             /\ \A t \in m.tables : t.id = j.source =>
                  \E u \in n.tables : u.id = t.id /\ u.segments = t.segments
    <3>1. PICK t \in m.tables :
             /\ t.id = j.source
             /\ j.handled \subseteq SegIds(t.segments)
             /\ SeqRows(j.target.segments) = SeqRows({s \in t.segments :
                  s.id \in j.handled})
      BY <2>2 DEF ManifestRows, JobsCarry
    <3>2. PICK u \in n.tables : u.id = t.id /\ u.segments = t.segments
      BY <2>2, <3>1
    <3> QED
      BY <3>1, <3>2
  <2> QED
    BY <2>1, <2>2
<1>7. Successors(n)
  BY <1>2, SuccessorsFrame DEF ManifestRows
<1> QED
  BY <1>2, <1>3, <1>4, <1>5, <1>6, <1>7 DEF ManifestRows

(* A merge's output takes the place of its inputs.                         *)
LEMMA MergedRows ==
    ASSUME NEW m, NEW n, NEW done, ManifestRows(m, done), NEW x, MergeRows(m, x),
           NEW t \in m.tables, NEW v,
           n.tables = (m.tables \ {t}) \union {v}, n.jobs = m.jobs,
             n.retired = m.retired,
           v.segments = {s \in t.segments : s.id \notin x.removes} \union x.adds,
           x.removes \subseteq SegIds(t.segments),
           \A j \in m.jobs : j.source # t.id,
           SegIds(x.adds) \intersect SegIds(SegmentsIn(m)) = {},
           \A r \in m.retired : r.successor_segments \intersect SegIds(x.adds) = {}
    PROVE  FromOld(m, n, SegIds(x.adds)) /\ ManifestRows(n, done)
<1> DEFINE new == SegIds(x.adds)
           gone == {s \in t.segments : s.id \in x.removes}
<1>1. \A e \in Entries(n) : e \in Entries(m) \/ e = v
  BY DEF Entries
<1>2. t \in Entries(m) /\ t.segments \subseteq SegmentsIn(m)
  BY InSegments DEF Entries
<1>3. \A s \in SegmentsIn(n) : s \in SegmentsIn(m) \/ s \in x.adds
  BY <1>1, <1>2, InSegments
<1>4. FromOld(m, n, new)
  BY <1>3 DEF FromOld, Kin, SegIds
<1>5. \A s \in SegmentsIn(n) : s.id \in new => s \in x.adds
  BY <1>3 DEF SegIds
<1>6. SameFile(n)
  <2>1. \A s, u \in SegmentsIn(n) : s.id = u.id /\ s.id \in new => s.seq = u.seq /\
        s.rows = u.rows
    BY <1>5 DEF MergeRows
  <2> QED
    BY <1>4, <2>1, SameFileFrame DEF ManifestRows
<1>7. \A s \in x.adds : s.rows = RowsOf(gone)
  BY <1>2, SelWithin DEF ManifestRows, MergeRows
<1>8. Apart(v.segments)
  <2>1. Apart(t.segments)
    BY <1>2 DEF ManifestRows
  <2>2. ASSUME NEW s \in x.adds, NEW u \in t.segments, u.id \notin x.removes
        PROVE  s.rows \intersect u.rows = {}
    BY <1>7, <2>1, <2>2 DEF Apart, RowsOf
  <2>3. \A s, u \in x.adds : s = u
    BY DEF MergeRows
  <2> QED
    BY <2>1, <2>2, <2>3 DEF Apart
<1>9. \A e \in Entries(n) : Apart(e.segments)
  BY <1>1, <1>8 DEF ManifestRows
<1>10. RowsOf(SegmentsIn(n)) \subseteq done
  <2>1. \A s \in SegmentsIn(m) : s.rows \subseteq done
    BY DEF ManifestRows, RowsOf
  <2>2. \A s \in x.adds : s.rows \subseteq done
    BY <1>2, <1>7, <2>1 DEF RowsOf
  <2> QED
    BY <1>3, <2>1, <2>2 DEF RowsOf
<1>11. JobsCarry(n)
  BY DEF ManifestRows, JobsCarry
<1>12. Successors(n)
  BY <1>4, SuccessorsFrame DEF ManifestRows
<1> QED
  BY <1>4, <1>6, <1>9, <1>10, <1>11, <1>12 DEF ManifestRows

(* A carried segment is the same file.                                     *)
LEMMA CarriedKin ==
    ASSUME NEW t, NEW j, NEW ids
    PROVE  /\ \A s \in Carried(t, j, ids) :
                \E u \in t.segments : u.id \in ids /\ Kin(s, u)
           /\ \A u \in t.segments : u.id \in ids => \E s \in Carried(t, j, ids) :
                Kin(s, u)
<1>1. \A u : Kin(ProjectOnto(u, j.target.schema), u)
  BY DEF Kin, ProjectOnto
<1> QED
  BY <1>1 DEF Carried

(* Carrying segments apart leaves them apart.                              *)
LEMMA ProjectedApart ==
    ASSUME NEW S, Apart(S), NEW schema
    PROVE  Apart({ProjectOnto(s, schema) : s \in S})
<1>1. \A s : ProjectOnto(s, schema).rows = s.rows
  BY DEF ProjectOnto
<1> SUFFICES ASSUME NEW s \in S, NEW u \in S,
                    ProjectOnto(s, schema).rows \intersect ProjectOnto(u,
                      schema).rows # {}
             PROVE  ProjectOnto(s, schema) = ProjectOnto(u, schema)
  BY DEF Apart
<1>2. s = u
  BY <1>1 DEF Apart
<1> QED
  BY <1>2

(* A job step carries and rewrites what the job has not handled.           *)
LEMMA AdvancedRows ==
    ASSUME NEW m, NEW n, NEW done, ManifestRows(m, done),
           NEW t \in m.tables, NEW j \in m.jobs, t.id = j.source,
           \A z \in m.tables : z.id = t.id => z = t,
           NEW reused, NEW rewritten, NEW segs,
           Carries(m, rewritten, segs), Apart(segs),
           \A s, u \in segs : s.id = u.id => s = u,
           reused = {} \/ rewritten = {},
           reused \union rewritten \subseteq SegIds(t.segments) \ j.handled,
           NEW k, k.source = j.source,
           k.handled = j.handled \union reused \union rewritten,
           k.target.segments = j.target.segments \union Carried(t, j, reused) \union
             segs,
           n.tables = m.tables, n.jobs = (m.jobs \ {j}) \union {k},
             n.retired = m.retired,
           SegIds(segs) \intersect SegIds(SegmentsIn(m)) = {},
           \A r \in m.retired : r.successor_segments \intersect SegIds(segs) = {}
    PROVE  FromOld(m, n, SegIds(segs)) /\ ManifestRows(n, done)
<1> DEFINE new == SegIds(segs)
           old == {s \in t.segments : s.id \in j.handled}
           use == {s \in t.segments : s.id \in reused}
           redo == {s \in t.segments : s.id \in rewritten}
           took == {s \in t.segments : s.id \in k.handled}
           car == Carried(t, j, reused)
<1>1. \A e \in Entries(n) : e \in Entries(m) \/ e = k.target
  BY DEF Entries
<1>2. /\ t \in Entries(m) /\ j.target \in Entries(m)
      /\ t.segments \subseteq SegmentsIn(m) /\ j.target.segments \subseteq SegmentsIn(m)
  BY InSegments DEF Entries
<1>3. \A s \in car : \E u \in use : Kin(s, u)
  BY CarriedKin
<1>4. \A u \in use : \E s \in car : Kin(s, u)
  BY CarriedKin
<1>5. \A s \in SegmentsIn(n) : s \in segs \/ \E u \in SegmentsIn(m) : Kin(s, u)
  <2>1. \A s \in SegmentsIn(n) : s \in SegmentsIn(m) \/ s \in car \/ s \in segs
    BY <1>1, <1>2, InSegments
  <2> QED
    BY <1>2, <1>3, <2>1 DEF Kin
<1>6. FromOld(m, n, new)
  BY <1>5 DEF FromOld, SegIds
<1>7. SameFile(n)
  <2>1. \A s \in SegmentsIn(n) : s.id \in new => s \in segs
    BY <1>5 DEF Kin, SegIds
  <2> QED
    BY <1>6, <2>1, SameFileFrame DEF ManifestRows
<1>8. /\ j.handled \subseteq SegIds(t.segments)
      /\ SeqRows(j.target.segments) = SeqRows(old)
  BY DEF ManifestRows, JobsCarry
<1>9. SeqRows(segs) = SeqRows(redo)
  BY <1>2, SelWithin DEF ManifestRows, Carries
<1>10. SeqRows(car) = SeqRows(use)
  <2>1. SeqRows(car) \subseteq SeqRows(use)
    BY <1>3, SeqRowsWithin DEF Kin
  <2>2. SeqRows(use) \subseteq SeqRows(car)
    BY <1>4, SeqRowsWithin DEF Kin
  <2> QED
    BY <2>1, <2>2
<1>11. took = old \union use \union redo
  OBVIOUS
<1>12. SeqRows(k.target.segments) = SeqRows(took)
  <2> HIDE DEF took, old, use, redo, car
  <2>1. SeqRows(k.target.segments) = SeqRows(j.target.segments) \union
        SeqRows(car) \union SeqRows(segs)
    BY SeqRowsUnion3 DEF car
  <2>2. SeqRows(took) = SeqRows(old) \union SeqRows(use) \union SeqRows(redo)
    BY <1>11, SeqRowsUnion3
  <2> QED
    BY <1>8, <1>9, <1>10, <2>1, <2>2
<1>13. JobsCarry(n)
  <2>1. k.handled \subseteq SegIds(t.segments)
    BY <1>8
  <2>2. \A i \in n.jobs : i \in m.jobs \/ i = k
    OBVIOUS
  <2> SUFFICES ASSUME NEW i \in n.jobs
               PROVE  \E z \in m.tables :
                        /\ z.id = i.source
                        /\ i.handled \subseteq SegIds(z.segments)
                        /\ SeqRows(i.target.segments) =
                             SeqRows({s \in z.segments : s.id \in i.handled})
    BY DEF JobsCarry
  <2>3. CASE i \in m.jobs
    BY <2>3 DEF ManifestRows, JobsCarry
  <2>4. CASE i = k
    <3>1. t.id = i.source /\ i.handled \subseteq SegIds(t.segments)
      BY <2>1, <2>4
    <3>2. SeqRows(i.target.segments) = SeqRows({s \in t.segments : s.id \in i.handled})
      BY <1>12, <2>4
    <3> QED
      BY <3>1, <3>2
  <2> QED
    BY <2>2, <2>3, <2>4
<1>14. Apart(k.target.segments)
  <2>1. Apart(t.segments) /\ Apart(j.target.segments)
    BY <1>2 DEF ManifestRows
  <2>2. Apart(car)
    <3>1. Apart(use)
      BY <2>1 DEF Apart
    <3> QED
      BY <3>1, ProjectedApart DEF Carried
  <2>3. RowsOf(old) \intersect RowsOf(use) = {} /\
        RowsOf(old) \intersect RowsOf(redo) = {}
    BY <2>1 DEF Apart, RowsOf
  <2>4. use = {} \/ redo = {}
    OBVIOUS
  <2>5. RowsOf(j.target.segments) = RowsOf(old) /\ RowsOf(car) = RowsOf(use) /\
        RowsOf(segs) = RowsOf(redo)
    <3> HIDE DEF old, use, redo, car
    <3> QED
      BY <1>8, <1>9, <1>10, SeqRowsRows
  <2>6. \A S, z : z \in S => z.rows \subseteq RowsOf(S)
    BY DEF RowsOf
  <2> HIDE DEF old, use, redo, car
  <2>7. \A s \in j.target.segments, u \in car : s.rows \intersect u.rows = {}
    BY <2>3, <2>5, <2>6
  <2>8. \A s \in j.target.segments, u \in segs : s.rows \intersect u.rows = {}
    BY <2>3, <2>5, <2>6
  <2>9. \A s \in car, u \in segs : s.rows \intersect u.rows = {}
    <3>1. RowsOf(use) = {} \/ RowsOf(redo) = {}
      BY <2>4 DEF RowsOf
    <3> QED
      BY <3>1, <2>5, <2>6
  <2> QED
    BY <2>1, <2>2, <2>7, <2>8, <2>9 DEF Apart, car
<1>15. \A e \in Entries(n) : Apart(e.segments)
  BY <1>1, <1>14 DEF ManifestRows
<1>16. RowsOf(SegmentsIn(n)) \subseteq done
  <2>1. \A s \in SegmentsIn(m) : s.rows \subseteq done
    BY DEF ManifestRows, RowsOf
  <2>2. RowsOf(segs) = RowsOf(redo)
    BY <1>9, SeqRowsRows
  <2>3. \A s \in segs : s.rows \subseteq done
    BY <1>2, <2>1, <2>2 DEF RowsOf
  <2> QED
    BY <1>5, <2>1, <2>3 DEF RowsOf, Kin
<1>17. Successors(n)
  BY <1>6, SuccessorsFrame DEF ManifestRows
<1> QED
  BY <1>6, <1>7, <1>13, <1>15, <1>16, <1>17 DEF ManifestRows

(* A swap: the source is retired, and what the target lists holds just the *)
(* rows the source held.                                                   *)
LEMMA SwappedRows ==
    ASSUME NEW m, NEW n, NEW done, ManifestRows(m, done),
           NEW t \in m.tables, NEW j \in m.jobs, t.id = j.source,
           \A z \in m.tables : z.id = t.id => z = t,
           \A i \in m.jobs : i.source = j.source => i = j,
           SegIds(t.segments) \subseteq j.handled,
           NEW u, u.segments = j.target.segments,
           NEW r, r.entry = t, r.successor_segments = SegIds(u.segments),
           n.tables = (m.tables \ {t}) \union {u}, n.jobs = m.jobs \ {j},
           n.retired = m.retired \union {r}
    PROVE  FromOld(m, n, {}) /\ ManifestRows(n, done)
<1>1. \A e \in Entries(n) : \E d \in Entries(m) : d.segments = e.segments
  BY DEF Entries
<1>2. SegmentsIn(n) \subseteq SegmentsIn(m)
  BY <1>1, InSegments
<1>3. FromOld(m, n, {})
  BY <1>2 DEF FromOld, Kin
<1>4. SameFile(n)
  BY <1>2 DEF ManifestRows, SameFile
<1>5. \A e \in Entries(n) : Apart(e.segments)
  BY <1>1 DEF ManifestRows, Apart
<1>6. RowsOf(SegmentsIn(n)) \subseteq done
  BY <1>2 DEF ManifestRows, RowsOf
<1>7. JobsCarry(n)
  <2> SUFFICES ASSUME NEW i \in n.jobs
               PROVE  \E z \in n.tables :
                        /\ z.id = i.source
                        /\ i.handled \subseteq SegIds(z.segments)
                        /\ SeqRows(i.target.segments) =
                             SeqRows({s \in z.segments : s.id \in i.handled})
    BY DEF JobsCarry
  <2>1. PICK z \in m.tables :
           /\ z.id = i.source
           /\ i.handled \subseteq SegIds(z.segments)
           /\ SeqRows(i.target.segments) = SeqRows({s \in z.segments :
                s.id \in i.handled})
    BY DEF ManifestRows, JobsCarry
  <2>2. z \in n.tables
    BY <2>1
  <2> QED
    BY <2>1, <2>2
<1>8. SeqRows(t.segments) = SeqRows(u.segments)
  <2>1. SeqRows(j.target.segments) = SeqRows({s \in t.segments : s.id \in j.handled})
    BY DEF ManifestRows, JobsCarry
  <2>2. {s \in t.segments : s.id \in j.handled} = t.segments
    BY DEF SegIds
  <2> QED
    BY <2>1, <2>2
<1>9. Carries(n, r.successor_segments, r.entry.segments)
  <2>1. u \in Entries(n)
    BY DEF Entries
  <2>2. {s \in u.segments : s.id \in SegIds(u.segments)} = u.segments
    BY DEF SegIds
  <2>3. SeqRows(Sel(n, SegIds(u.segments))) = SeqRows(u.segments)
    <3> DEFINE ids == SegIds(u.segments)
    <3>1. SeqRows(Sel(n, ids)) = SeqRows({s \in u.segments : s.id \in ids})
      <4>1. ids \subseteq SegIds(u.segments)
        OBVIOUS
      <4> HIDE DEF ids
      <4> QED
        BY <1>4, <2>1, <4>1, SelWithin
    <3> QED
      BY <3>1, <2>2
  <2> QED
    BY <1>8, <2>3 DEF Carries
<1>10. Successors(n)
  <2> SUFFICES ASSUME NEW q \in n.retired, q.reason = "swapped"
               PROVE  Carries(n, q.successor_segments, q.entry.segments)
    BY DEF Successors
  <2>1. CASE q = r
    BY <1>9, <2>1
  <2>2. CASE q \in m.retired
    BY <1>3, <2>2, CarriesFrame DEF ManifestRows, Successors
  <2> QED
    BY <2>1, <2>2
<1> QED
  BY <1>3, <1>4, <1>5, <1>6, <1>7, <1>10 DEF ManifestRows

(* A revert: the restored definition takes over what was written since the *)
(* swap, which is disjoint from what its successors held.                  *)
LEMMA RevertedRows ==
    ASSUME NEW m, NEW n, NEW done, ManifestRows(m, done),
           NEW cur \in m.tables, NEW r \in m.retired, r.reason = "swapped",
           \A z \in m.tables : z.id = cur.id => z = cur,
           \A i \in m.jobs : i.source # cur.id,
           r.successor_segments \subseteq SegIds(cur.segments),
           NEW v, NEW schema,
           v.segments = r.entry.segments \union {ProjectOnto(s, schema) :
             s \in Since(r, cur)},
           NEW q, q.entry = cur, q.reason = "reverted",
           n.tables = (m.tables \ {cur}) \union {v}, n.jobs = m.jobs,
           n.retired = (m.retired \ {r}) \union {q}
    PROVE  FromOld(m, n, {}) /\ ManifestRows(n, done)
<1> DEFINE more == {ProjectOnto(s, schema) : s \in Since(r, cur)}
           left == {s \in cur.segments : s.id \in r.successor_segments}
<1>1. \A e \in Entries(n) : e \in Entries(m) \/ e = v
  BY DEF Entries
<1>2. /\ cur \in Entries(m) /\ r.entry \in Entries(m)
      /\ cur.segments \subseteq SegmentsIn(m) /\
           r.entry.segments \subseteq SegmentsIn(m)
  BY InSegments DEF Entries
<1>3. /\ \A s : Kin(ProjectOnto(s, schema), s)
      /\ Since(r, cur) \subseteq cur.segments
  BY DEF Kin, ProjectOnto, Since
<1>4. \A s \in SegmentsIn(n) : \E u \in SegmentsIn(m) : Kin(s, u)
  <2>1. \A s \in SegmentsIn(n) : s \in SegmentsIn(m) \/ s \in more
    BY <1>1, <1>2, InSegments
  <2>2. \A s \in more : \E u \in SegmentsIn(m) : Kin(s, u)
    BY <1>2, <1>3
  <2> QED
    BY <2>1, <2>2 DEF Kin
<1>5. FromOld(m, n, {})
  BY <1>4 DEF FromOld
<1>6. SameFile(n)
  BY <1>5, SameFileFrame DEF ManifestRows
<1>7. RowsOf(r.entry.segments) = RowsOf(left)
  <2>1. /\ StillThere(m, r.successor_segments)
        /\ SeqRows(Sel(m, r.successor_segments)) = SeqRows(left)
    <3>1. SameFile(m) /\ cur \in Entries(m)
      BY <1>2 DEF ManifestRows
    <3> DEFINE ids == r.successor_segments
    <3>2. ids \subseteq SegIds(cur.segments)
      OBVIOUS
    <3> HIDE DEF ids
    <3>3. StillThere(m, ids) /\
          SeqRows(Sel(m, ids)) = SeqRows({s \in cur.segments : s.id \in ids})
      BY <3>1, <3>2, SelWithin
    <3> QED
      BY <3>3 DEF ids
  <2>2. SeqRows(r.entry.segments) = SeqRows(left)
    BY <2>1 DEF ManifestRows, Successors, Carries
  <2> HIDE DEF left
  <2> QED
    BY <2>2, SeqRowsRows
<1>8. Apart(v.segments)
  <2>1. Apart(r.entry.segments) /\ Apart(cur.segments)
    BY <1>2 DEF ManifestRows
  <2>2. Apart(Since(r, cur))
    BY <1>3, <2>1 DEF Apart
  <2>3. Apart(more)
    BY <2>2, ProjectedApart
  <2>4. \A s \in left, u \in Since(r, cur) : s.rows \intersect u.rows = {}
    BY <2>1 DEF Apart, Since
  <2>5. \A s \in r.entry.segments, u \in Since(r, cur) : s.rows \intersect u.rows = {}
    BY <1>7, <2>4 DEF RowsOf
  <2>6. \A s \in r.entry.segments, u \in more : s.rows \intersect u.rows = {}
    BY <1>3, <2>5 DEF Kin
  <2> HIDE DEF more
  <2> QED
    BY <2>1, <2>3, <2>6 DEF Apart, more
<1>9. \A e \in Entries(n) : Apart(e.segments)
  BY <1>1, <1>8 DEF ManifestRows
<1>10. RowsOf(SegmentsIn(n)) \subseteq done
  <2>1. RowsOf(SegmentsIn(n)) \subseteq RowsOf(SegmentsIn(m))
    BY <1>4 DEF RowsOf, Kin
  <2> QED
    BY <2>1 DEF ManifestRows
<1>11. JobsCarry(n)
  <2> SUFFICES ASSUME NEW i \in n.jobs
               PROVE  \E z \in n.tables :
                        /\ z.id = i.source
                        /\ i.handled \subseteq SegIds(z.segments)
                        /\ SeqRows(i.target.segments) =
                             SeqRows({s \in z.segments : s.id \in i.handled})
    BY DEF JobsCarry
  <2>1. PICK z \in m.tables :
           /\ z.id = i.source
           /\ i.handled \subseteq SegIds(z.segments)
           /\ SeqRows(i.target.segments) = SeqRows({s \in z.segments :
                s.id \in i.handled})
    BY DEF ManifestRows, JobsCarry
  <2>2. z \in n.tables
    BY <2>1
  <2> QED
    BY <2>1, <2>2
<1>12. Successors(n)
  BY <1>5, SuccessorsFrame DEF ManifestRows
<1> QED
  BY <1>5, <1>6, <1>9, <1>10, <1>11, <1>12 DEF ManifestRows

(* A flushed segment is a written one at the commit's seq.                 *)
LEMMA FlushedKin ==
    ASSUME \A p \in flushing : IsSegment(p.seg), NEW t
    PROVE  /\ \A s \in FlushedInto(t) : \E p \in flushing :
                /\ p.table = t.name /\ s.id = p.seg.id /\ s.rows = p.seg.rows
                /\ s.field_ids = p.seg.field_ids
                /\ s = [p.seg EXCEPT !.seq = manifest.version + 1]
                /\ s.seq = manifest.version + 1
           /\ \A s \in FlushedInto(t) : IsSegment(s)
<1>1. \A p \in flushing : LET s == [p.seg EXCEPT !.seq = manifest.version + 1]
                          IN  /\ s.id = p.seg.id /\ s.rows = p.seg.rows
                              /\ s.field_ids = p.seg.field_ids
                              /\ s.seq = manifest.version + 1
                              /\ IsSegment(s)
  <2> TAKE p \in flushing
  <2> DEFINE g == p.seg
             q == manifest.version + 1
             s == [g EXCEPT !.seq = q]
  <2>1. g = [id |-> g.id, seq |-> g.seq, rows |-> g.rows, field_ids |-> g.field_ids,
             file |-> g.file] /\ g.id \in Nat
    BY DEF IsSegment
  <2> HIDE DEF g, q
  <2>2. s.id = g.id /\ s.rows = g.rows /\ s.field_ids = g.field_ids /\ s.seq = q /\
        s.file = g.file
    BY <2>1
  <2>3. s = [id |-> g.id, seq |-> q, rows |-> g.rows, field_ids |-> g.field_ids,
        file |-> g.file]
    BY <2>1
  <2>4. IsSegment(s)
    BY <2>1, <2>2, <2>3 DEF IsSegment
  <2> QED
    BY <2>2, <2>4 DEF g, q
<1>2. \A s \in FlushedInto(t) : \E p \in flushing :
         p.table = t.name /\ s = [p.seg EXCEPT !.seq = manifest.version + 1]
  BY DEF FlushedInto
<1>3. \A s \in FlushedInto(t) : IsSegment(s)
  BY <1>1, <1>2
<1>4. ASSUME NEW s \in FlushedInto(t)
      PROVE  \E p \in flushing :
                /\ p.table = t.name /\ s.id = p.seg.id /\ s.rows = p.seg.rows
                /\ s.field_ids = p.seg.field_ids
                /\ s = [p.seg EXCEPT !.seq = manifest.version + 1]
                /\ s.seq = manifest.version + 1
  <2>1. PICK p \in flushing :
           p.table = t.name /\ s = [p.seg EXCEPT !.seq = manifest.version + 1]
    BY <1>2
  <2> DEFINE u == [p.seg EXCEPT !.seq = manifest.version + 1]
  <2>2. /\ u.id = p.seg.id /\ u.rows = p.seg.rows
        /\ u.field_ids = p.seg.field_ids /\ u.seq = manifest.version + 1
    BY <1>1
  <2>3. s = u
    BY <2>1
  <2> HIDE DEF u
  <2>4. /\ s.id = p.seg.id /\ s.rows = p.seg.rows
        /\ s.field_ids = p.seg.field_ids /\ s.seq = manifest.version + 1
    BY <2>2, <2>3
  <2> QED
    BY <2>1, <2>4
<1> QED
  BY <1>3, <1>4

(* What a flush commit does to the tables.                                 *)
LEMMA AddFlushedParts ==
    ASSUME IsManifest(manifest), \A p \in flushing : IsSegment(p.seg)
    PROVE  /\ AddFlushed.tables = {Grown(t) : t \in manifest.tables}
           /\ AddFlushed.jobs = manifest.jobs
           /\ AddFlushed.retired = manifest.retired
           /\ \A t \in manifest.tables :
                /\ Grown(t).segments = t.segments \union FlushedInto(t)
                /\ Grown(t).id = t.id /\ Grown(t).name = t.name
                /\ Grown(t).schema = t.schema /\ Grown(t).tombstones = t.tombstones
                /\ Grown(t).next_field_id = t.next_field_id
<1>1. \A t \in manifest.tables : IsEntry(t)
  BY DEF IsManifest
<1>2. ASSUME NEW t \in manifest.tables
      PROVE  /\ Grown(t).segments = t.segments \union FlushedInto(t)
             /\ Grown(t).id = t.id /\ Grown(t).name = t.name
             /\ Grown(t).schema = t.schema /\ Grown(t).tombstones = t.tombstones
             /\ Grown(t).next_field_id = t.next_field_id
  <2>1. IsEntry(t) /\ \A s \in t.segments \union FlushedInto(t) : IsSegment(s)
    BY <1>1, FlushedKin DEF IsEntry
  <2> QED
    BY <2>1, EntryWithSegments DEF Grown
<1> QED
  BY <1>2 DEF AddFlushed, IsManifest

(* A flush publishes buffered rows, which no segment held.                 *)
LEMMA FlushedRows ==
    ASSUME IsManifest(manifest), ManifestRows(manifest, committed), BufferRows,
           FlushRows,
           \A p \in flushing : IsSegment(p.seg) /\
             p.seg.id \notin SegIds(SegmentsIn(manifest)),
           \A r \in manifest.retired : r.successor_segments \intersect FlushIds = {}
    PROVE  /\ FromOld(manifest, AddFlushed, FlushIds)
           /\ ManifestRows(AddFlushed, committed \union {b.row : b \in in_flight})
<1> DEFINE m == manifest
           n == AddFlushed
           rows == {b.row : b \in in_flight}
<1>0. /\ n.tables = {Grown(t) : t \in m.tables} /\ n.jobs = m.jobs /\
           n.retired = m.retired
      /\ \A t \in m.tables : /\ Grown(t).segments = t.segments \union FlushedInto(t)
                             /\ Grown(t).id = t.id
  BY AddFlushedParts
<1> HIDE DEF n
<1>1. \A e \in Entries(n) : e \in Entries(m) \/ \E t \in m.tables : e = Grown(t)
  BY <1>0 DEF Entries
<1>2. \A t \in m.tables : t \in Entries(m) /\ t.segments \subseteq SegmentsIn(m)
  BY InSegments DEF Entries
<1>3. \A t : \A s \in FlushedInto(t) : \E p \in flushing :
         /\ p.table = t.name /\ s.id = p.seg.id /\ s.rows = p.seg.rows
         /\ s = [p.seg EXCEPT !.seq = m.version + 1] /\ s.seq = m.version + 1
  BY FlushedKin
<1>4. \A s \in SegmentsIn(n) : s \in SegmentsIn(m) \/ \E t \in m.tables :
      s \in FlushedInto(t)
  <2> TAKE s \in SegmentsIn(n)
  <2>1. PICK e \in Entries(n) : s \in e.segments
    BY InSegments
  <2>2. CASE e \in Entries(m)
    BY <2>1, <2>2, InSegments
  <2>3. CASE \E t \in m.tables : e = Grown(t)
    BY <1>0, <1>2, <2>1, <2>3
  <2> QED
    BY <1>1, <2>2, <2>3
<1>5. FromOld(m, n, FlushIds)
  BY <1>3, <1>4 DEF FromOld, Kin, FlushIds
<1>6. SameFile(n)
  <2>1. FlushIds \intersect SegIds(SegmentsIn(m)) = {}
    BY DEF FlushIds
  <2>2. \A s \in SegmentsIn(n) : s.id \in FlushIds => \E p \in flushing :
           s.id = p.seg.id /\ s.rows = p.seg.rows /\ s.seq = m.version + 1
    BY <1>3, <1>4, <2>1 DEF SegIds
  <2>3. \A p, q \in flushing : p.seg.id = q.seg.id => p = q
    BY DEF FlushRows
  <2>4. \A s, u \in SegmentsIn(n) : s.id = u.id /\ s.id \in FlushIds => s.seq = u.seq /\
        s.rows = u.rows
    BY <2>2, <2>3
  <2> QED
    BY <1>5, <2>1, <2>4, SameFileFrame DEF ManifestRows
<1>7. /\ \A s \in SegmentsIn(m) : s.rows \intersect rows = {}
      /\ \A t : \A s \in FlushedInto(t) : s.rows \subseteq rows
  <2>1. \A s \in SegmentsIn(m) : s.rows \subseteq committed
    BY DEF ManifestRows, RowsOf
  <2>2. committed \intersect rows = {}
    BY DEF BufferRows, Buffered
  <2>3. \A t : \A s \in FlushedInto(t) : s.rows \subseteq rows
    BY <1>3 DEF FlushRows
  <2> QED
    BY <2>1, <2>2, <2>3
<1>8. \A t \in m.tables : Apart(Grown(t).segments)
  <2> TAKE t \in m.tables
  <2>1. Apart(t.segments)
    BY <1>2 DEF ManifestRows
  <2>2. \A s, u \in FlushedInto(t) : s = u
    BY <1>3 DEF FlushRows
  <2>3. \A s \in t.segments, u \in FlushedInto(t) : s.rows \intersect u.rows = {}
    BY <1>2, <1>7
  <2> QED
    BY <1>0, <2>1, <2>2, <2>3 DEF Apart
<1>9. \A e \in Entries(n) : Apart(e.segments)
  BY <1>1, <1>8 DEF ManifestRows
<1>10. RowsOf(SegmentsIn(n)) \subseteq committed \union rows
  BY <1>4, <1>7 DEF ManifestRows, RowsOf
<1>11. JobsCarry(n)
  <2> SUFFICES ASSUME NEW i \in n.jobs
               PROVE  \E z \in n.tables :
                        /\ z.id = i.source
                        /\ i.handled \subseteq SegIds(z.segments)
                        /\ SeqRows(i.target.segments) =
                             SeqRows({s \in z.segments : s.id \in i.handled})
    BY DEF JobsCarry
  <2>1. PICK t \in m.tables :
           /\ t.id = i.source
           /\ i.handled \subseteq SegIds(t.segments)
           /\ SeqRows(i.target.segments) = SeqRows({s \in t.segments :
                s.id \in i.handled})
    BY <1>0 DEF ManifestRows, JobsCarry
  <2>2. \A s \in FlushedInto(t) : s.id \notin i.handled
    BY <1>2, <1>3, <2>1 DEF SegIds
  <2>3. {s \in Grown(t).segments : s.id \in i.handled} = {s \in t.segments :
        s.id \in i.handled}
    BY <1>0, <2>2
  <2>4. i.handled \subseteq SegIds(Grown(t).segments)
    BY <1>0, <2>1 DEF SegIds
  <2>5. Grown(t) \in n.tables /\ Grown(t).id = i.source
    BY <1>0, <2>1
  <2>6. SeqRows(i.target.segments) = SeqRows({s \in Grown(t).segments :
        s.id \in i.handled})
    BY <2>1, <2>3
  <2> QED
    BY <2>4, <2>5, <2>6
<1>12. Successors(n)
  BY <1>0, <1>5, SuccessorsFrame DEF ManifestRows
<1> QED
  BY <1>5, <1>6, <1>9, <1>10, <1>11, <1>12 DEF ManifestRows, n

-----------------------------------------------------------------------------
(* What each edit does to the tables, the jobs and the retired             *)
(* definitions.                                                            *)

(* What DELETE records.                                                    *)
IsTombstone(k) ==
    /\ k = [seq |-> k.seq, col |-> k.col, fid |-> k.fid, birth |-> k.birth,
            kills |-> k.kills]
    /\ k.seq \in Nat

(* One table replaced by another of the same id, name and columns.         *)
Rebuilt(m, n, t, u) ==
    /\ n.tables = (m.tables \ {t}) \union {u}
    /\ n.jobs = m.jobs /\ n.retired = m.retired
    /\ u.id = t.id /\ u.name = t.name /\ u.schema = t.schema
    /\ u.next_field_id = t.next_field_id

(* CREATE TABLE adds an empty table.                                       *)
LEMMA CreateTableParts ==
    ASSUME NEW m, IsManifest(m), NEW nm, NEW columns
    PROVE  LET n == CreateTable(m, nm, columns)
           IN  /\ \E e : /\ n.tables = m.tables \union {e} /\ e.segments = {}
                         /\ e.name = nm /\ e.tombstones = {}
                         /\ e = NewEntry(m.next_table_id, nm, columns)
               /\ n.jobs = m.jobs /\ n.retired = m.retired
<1> DEFINE e == NewEntry(m.next_table_id, nm, columns)
<1>1. e.segments = {} /\ e.name = nm /\ e.tombstones = {}
  BY DEF NewEntry
<1>2. /\ CreateTable(m, nm, columns).tables = m.tables \union {e}
      /\ CreateTable(m, nm, columns).jobs = m.jobs
      /\ CreateTable(m, nm, columns).retired = m.retired
  BY DEF CreateTable, IsManifest
<1>3. e = NewEntry(m.next_table_id, nm, columns)
  OBVIOUS
<1> HIDE DEF e
<1> QED
  BY <1>1, <1>2, <1>3

(* DELETE changes nothing but tombstones.                                  *)
LEMMA AddTombstoneParts ==
    ASSUME NEW m, IsManifest(m), NEW t \in m.tables, NEW c, NEW kills
    PROVE  \E u, k : /\ Rebuilt(m, AddTombstone(m, t, c, kills), t, u)
                     /\ u.segments = t.segments
                     /\ u.tombstones = t.tombstones \union {k}
                     /\ IsTombstone(k) /\ k.seq = m.version + 1 /\ k.kills = kills
                     /\ k.col = c /\ k.fid = FieldNamed(t.schema, c).fid
                     /\ k.birth = FieldNamed(t.schema, c).birth
<1> DEFINE f == CHOOSE f \in t.schema : f.col = c
           k == [seq |-> m.version + 1, col |-> c, fid |-> f.fid, birth |-> f.birth,
                 kills |-> kills]
           T == t.tombstones \union {k}
<1>1. AddTombstone(m, t, c, kills) = Replace(m, t, [t EXCEPT !.tombstones = T])
  BY DEF AddTombstone
<1>0. /\ IsTombstone(k) /\ k.seq = m.version + 1 /\ k.kills = kills
      /\ k.col = c /\ k.fid = f.fid /\ k.birth = f.birth
  BY DEF IsTombstone, IsManifest
<1>5. f = FieldNamed(t.schema, c)
  BY DEF FieldNamed
<1> HIDE DEF f, k
<1> DEFINE u == [t EXCEPT !.tombstones = T]
<1>2. /\ IsEntry(u) /\ u.segments = t.segments /\ u.tombstones = T
      /\ u.id = t.id /\ u.name = t.name /\ u.schema = t.schema
      /\ u.next_field_id = t.next_field_id
  BY EntryWithTombstones DEF IsManifest
<1>3. AddTombstone(m, t, c, kills) = Replace(m, t, u)
  BY <1>1
<1> HIDE DEF u
<1>4. Rebuilt(m, AddTombstone(m, t, c, kills), t, u)
  BY <1>2, <1>3, ReplaceShape DEF Rebuilt
<1> QED
  BY <1>0, <1>2, <1>4, <1>5

(* A release changes the garbage list only.                                *)
LEMMA ReleaseParts ==
    ASSUME NEW m, IsManifest(m), NEW segs, NEW v
    PROVE  LET n == Release(m, segs, v)
           IN  n.tables = m.tables /\ n.jobs = m.jobs /\ n.retired = m.retired
  BY DEF Release, IsManifest

(* TRUNCATE empties the table.                                             *)
LEMMA TruncateParts ==
    ASSUME NEW m, IsManifest(m), NEW t \in m.tables
    PROVE  \E u : /\ Rebuilt(m, TruncateTable(m, t), t, u)
                  /\ u.segments = {} /\ u.tombstones = {}
<1>1. IsEntry(t)
  BY DEF IsManifest
<1>2. IsEntry(Emptied(t)) /\ Emptied(t).segments = {} /\ Emptied(t).id = t.id /\
      Emptied(t).name = t.name
  BY <1>1, EmptiedShape
<1>3. /\ Emptied(t).schema = t.schema /\ Emptied(t).tombstones = {}
      /\ Emptied(t).next_field_id = t.next_field_id
  BY <1>1 DEF Emptied, IsEntry
<1> DEFINE k == Replace(m, t, Emptied(t))
<1>4. /\ IsManifest(k) /\ k.tables = (m.tables \ {t}) \union {Emptied(t)}
      /\ k.jobs = m.jobs /\ k.retired = m.retired
  BY <1>2, ReplaceShape
<1>5. TruncateTable(m, t) = Release(k, t.segments, m.version + 1)
  BY DEF TruncateTable
<1> HIDE DEF k
<1>6. Rebuilt(m, TruncateTable(m, t), t, Emptied(t))
  BY <1>2, <1>3, <1>4, <1>5, ReleaseParts DEF Rebuilt
<1> QED
  BY <1>2, <1>3, <1>6

(* remove_segments takes the named segments out of the table.              *)
LEMMA RemoveSegmentsParts ==
    ASSUME NEW m, IsManifest(m), NEW t \in m.tables, NEW ids
    PROVE  LET n == RemoveSegments(m, t, ids)
           IN  /\ IsManifest(n)
               /\ \E u : /\ Rebuilt(m, n, t, u) /\ IsEntry(u)
                         /\ u.segments = {s \in t.segments : s.id \notin ids}
                         /\ u.tombstones = t.tombstones
<1> DEFINE gone == {s \in t.segments : s.id \in ids}
           S == t.segments \ gone
           u == [t EXCEPT !.segments = S]
           k == Replace(m, t, u)
<1>1. IsEntry(t) /\ \A s \in t.segments : IsSegment(s)
  BY DEF IsManifest, IsEntry
<1>2. \A s \in S : IsSegment(s)
  BY <1>1
<1>3. S = {s \in t.segments : s.id \notin ids}
  OBVIOUS
<1> HIDE DEF S
<1>4. /\ IsEntry(u) /\ u.segments = S /\ u.id = t.id /\ u.name = t.name
      /\ u.schema = t.schema /\ u.tombstones = t.tombstones
      /\ u.next_field_id = t.next_field_id
  BY <1>1, <1>2, EntryWithSegments
<1> HIDE DEF u
<1>5. /\ IsManifest(k) /\ k.tables = (m.tables \ {t}) \union {u} /\
           k.version = m.version
      /\ k.jobs = m.jobs /\ k.retired = m.retired
  BY <1>4, ReplaceShape
<1>6. RemoveSegments(m, t, ids) = Release(k, gone, m.version + 1)
  BY DEF RemoveSegments, u, S
<1>7. \A s \in gone : IsSegment(s)
  BY <1>1
<1>8. m.version + 1 \in Nat
  BY DEF IsManifest
<1> HIDE DEF k, gone
<1>9. IsManifest(Release(k, gone, m.version + 1))
  BY <1>5, <1>7, <1>8, ReleaseShape
<1>10. Rebuilt(m, RemoveSegments(m, t, ids), t, u)
  BY <1>4, <1>5, <1>6, ReleaseParts DEF Rebuilt
<1> QED
  BY <1>3, <1>4, <1>6, <1>9, <1>10

(* add_segments adds them.                                                 *)
LEMMA AddSegmentsParts ==
    ASSUME NEW m, IsManifest(m), NEW t \in m.tables, NEW segs, \A s \in segs :
           IsSegment(s)
    PROVE  \E u : /\ Rebuilt(m, AddSegments(m, t, segs), t, u)
                  /\ u.segments = t.segments \union segs
                  /\ u.tombstones = t.tombstones
<1> DEFINE S == t.segments \union segs
           u == [t EXCEPT !.segments = S]
           k == Replace(m, t, u)
<1>1. IsEntry(t) /\ \A s \in S : IsSegment(s)
  BY DEF IsManifest, IsEntry
<1> HIDE DEF S
<1>2. /\ IsEntry(u) /\ u.segments = S /\ u.id = t.id /\ u.name = t.name
      /\ u.schema = t.schema /\ u.tombstones = t.tombstones
      /\ u.next_field_id = t.next_field_id
  BY <1>1, EntryWithSegments
<1> HIDE DEF u
<1>3. /\ IsManifest(k) /\ k.tables = (m.tables \ {t}) \union {u}
      /\ k.jobs = m.jobs /\ k.retired = m.retired
  BY <1>2, ReplaceShape
<1>4. PICK q : AddSegments(m, t, segs) = [k EXCEPT !.next_segment_id = q]
  BY DEF AddSegments, u, S
<1> HIDE DEF k
<1>5. Rebuilt(m, AddSegments(m, t, segs), t, u)
  BY <1>2, <1>3, <1>4 DEF Rebuilt, IsManifest
<1> QED
  BY <1>2, <1>5 DEF S

(* ALTER TABLE adds a job that has handled nothing.                        *)
LEMMA CreateJobParts ==
    ASSUME NEW m, IsManifest(m), NEW t, NEW ops
    PROVE  LET n == CreateJob(m, t, ops)
           IN  /\ \E j : /\ n.jobs = m.jobs \union {j} /\ j.source = t.id
                         /\ j.handled = {} /\ j.target.segments = {}
                         /\ j.target.tombstones = {} /\ j = NewJob(m, t, ops)
               /\ n.tables = m.tables /\ n.retired = m.retired
<1> DEFINE j == NewJob(m, t, ops)
<1>1. /\ j.source = t.id /\ j.handled = {} /\ j.target.segments = {}
      /\ j.target.tombstones = {}
  BY DEF NewJob
<1>3. j = NewJob(m, t, ops)
  OBVIOUS
<1> HIDE DEF j
<1>2. /\ CreateJob(m, t, ops).jobs = m.jobs \union {j}
      /\ CreateJob(m, t, ops).tables = m.tables /\
           CreateJob(m, t, ops).retired = m.retired
  BY DEF CreateJob, IsManifest, j
<1> QED
  BY <1>1, <1>2, <1>3

(* CANCEL removes the job.                                                 *)
LEMMA CancelJobParts ==
    ASSUME NEW m, IsManifest(m), NEW j \in m.jobs
    PROVE  LET n == CancelJob(m, j)
           IN  n.tables = m.tables /\ n.jobs = m.jobs \ {j} /\ n.retired = m.retired
<1> DEFINE k == [m EXCEPT !.jobs = m.jobs \ {j}]
<1>1. IsManifest(k) /\ k.tables = m.tables /\ k.jobs = m.jobs \ {j} /\
      k.retired = m.retired
  BY DEF IsManifest
<1>2. CancelJob(m, j) = Release(k, j.target.segments, m.version + 1)
  BY DEF CancelJob
<1> HIDE DEF k
<1> QED
  BY <1>1, <1>2, ReleaseParts

(* DROP moves the table to the retired definitions.                        *)
LEMMA DropTableParts ==
    ASSUME NEW m, IsManifest(m), NEW t
    PROVE  LET n == DropTable(m, t)
           IN  /\ n.tables = m.tables \ {t} /\ n.jobs = m.jobs
               /\ \E r : /\ n.retired = m.retired \union {r} /\ r.entry = t
                         /\ r.reason = "dropped" /\ r.successor_segments = {}
                         /\ r.version = m.version + 1
<1> DEFINE r == Retire(m, t, "dropped", {})
<1>1. /\ r.entry = t /\ r.reason = "dropped" /\ r.successor_segments = {}
      /\ r.version = m.version + 1
  BY DEF Retire
<1> HIDE DEF r
<1>2. /\ DropTable(m, t).tables = m.tables \ {t} /\ DropTable(m, t).jobs = m.jobs
      /\ DropTable(m, t).retired = m.retired \union {r}
  BY DEF DropTable, IsManifest, r
<1> QED
  BY <1>1, <1>2

(* UNDROP moves it back.                                                   *)
LEMMA UndropTableParts ==
    ASSUME NEW m, IsManifest(m), NEW r
    PROVE  LET n == UndropTable(m, r)
           IN  /\ n.tables = m.tables \union {r.entry} /\ n.jobs = m.jobs
               /\ n.retired = m.retired \ {r}
  BY DEF UndropTable, IsManifest

(* gc: retired definitions expire.                                         *)
LEMMA ExpireRetiredParts ==
    ASSUME NEW m, IsManifest(m), NEW expired
    PROVE  LET n == ExpireRetired(m, expired)
           IN  n.tables = m.tables /\ n.jobs = m.jobs /\ n.retired = m.retired \ expired
<1> DEFINE k == [m EXCEPT !.retired = m.retired \ expired]
           segs == UNION {r.entry.segments : r \in expired}
<1>1. IsManifest(k) /\ k.tables = m.tables /\ k.jobs = m.jobs /\
      k.retired = m.retired \ expired
  BY DEF IsManifest
<1>2. ExpireRetired(m, expired) = Release(k, segs, m.version + 1)
  BY DEF ExpireRetired
<1> HIDE DEF k, segs
<1> QED
  BY <1>1, <1>2, ReleaseParts

(* What gc deleted leaves the garbage list only.                           *)
LEMMA ForgetGarbageParts ==
    ASSUME NEW m, IsManifest(m), NEW ids
    PROVE  LET n == ForgetGarbage(m, ids)
           IN  n.tables = m.tables /\ n.jobs = m.jobs /\ n.retired = m.retired
  BY DEF ForgetGarbage, IsManifest

(* A job step changes the target's segments and what is handled.           *)
LEMMA AdvanceJobParts ==
    ASSUME NEW m, IsManifest(m), NEW t \in m.tables, NEW j \in m.jobs,
           NEW reused, NEW rewritten, NEW segs, \A s \in segs : IsSegment(s)
    PROVE  LET n == AdvanceJob(m, t, j, reused, rewritten, segs)
               k == Advanced(t, j, reused, rewritten, segs)
           IN  /\ n.tables = m.tables /\ n.jobs = (m.jobs \ {j}) \union {k}
               /\ n.retired = m.retired
               /\ k.id = j.id /\ k.source = j.source
               /\ k.handled = j.handled \union reused \union rewritten
               /\ k.target.segments = j.target.segments \union Carried(t, j,
                    reused) \union segs
               /\ k.target.name = j.target.name /\ k.target.schema = j.target.schema
               /\ k.target.tombstones = j.target.tombstones
               /\ k.target.id = j.target.id
               /\ k.target.next_field_id = j.target.next_field_id
<1> DEFINE n == AdvanceJob(m, t, j, reused, rewritten, segs)
           k == Advanced(t, j, reused, rewritten, segs)
<1>1. IsJob(j) /\ IsEntry(j.target)
  BY DEF IsManifest, IsJob
<1>2. /\ IsJob(k) /\ k.id = j.id /\ k.source = j.source
      /\ k.target.name = j.target.name /\ k.target.id = j.target.id
      /\ k.target.segments = j.target.segments \union Carried(t, j, reused) \union segs
  BY <1>1, AdvancedShape
<1>3. PICK S, h : k = [j EXCEPT !.target = [j.target EXCEPT !.segments = S],
        !.handled = h]
                  /\ h = j.handled \union reused \union rewritten
  BY DEF Advanced
<1> HIDE DEF k
<1> DEFINE u == [j.target EXCEPT !.segments = S]
<1>4. /\ u.schema = j.target.schema /\ u.tombstones = j.target.tombstones
      /\ u.next_field_id = j.target.next_field_id
  BY <1>1 DEF IsEntry
<1>5. k.target = u /\ k.handled = h
  <2> HIDE DEF u
  <2>1. k = [j EXCEPT !.target = u, !.handled = h]
    BY <1>3 DEF u
  <2> QED
    BY <1>1, <2>1 DEF IsJob
<1>6. n.tables = m.tables /\ n.jobs = (m.jobs \ {j}) \union {k} /\ n.retired = m.retired
  BY DEF AdvanceJob, IsManifest, k
<1> HIDE DEF n
<1> QED
  BY <1>2, <1>3, <1>4, <1>5, <1>6 DEF n, k

(* A swap makes the target live and retires the source.                    *)
LEMMA SwapJobParts ==
    ASSUME NEW m, IsManifest(m), NEW t \in m.tables, NEW j \in m.jobs
    PROVE  LET n == SwapJob(m, t, j)
           IN  \E u, r : /\ n.tables = (m.tables \ {t}) \union {u}
                         /\ n.jobs = m.jobs \ {j}
                         /\ n.retired = m.retired \union {r}
                         /\ u.segments = j.target.segments /\ u.name = j.target.name
                         /\ u.schema = j.target.schema /\ u.id = j.target.id
                         /\ u.next_field_id = j.target.next_field_id
                         /\ u.tombstones =
                              RenameTombstones(t.tombstones, t.schema, j.target.schema)
                         /\ r.entry = t /\ r.successor_segments = SegIds(u.segments)
                         /\ r.reason = "swapped" /\ r.version = m.version + 1
<1> DEFINE u == [j.target EXCEPT
                  !.tombstones = RenameTombstones(t.tombstones, t.schema,
                    j.target.schema)]
           r == Retire(m, t, "swapped", SegIds(u.segments))
           n == SwapJob(m, t, j)
<1>1. n.tables = (m.tables \ {t}) \union {u} /\ n.jobs = m.jobs \ {j} /\
      n.retired = m.retired \union {r}
  BY DEF SwapJob, IsManifest
<1>2. IsEntry(j.target)
  BY DEF IsManifest, IsJob
<1>3. /\ u.segments = j.target.segments /\ u.name = j.target.name
      /\ u.schema = j.target.schema /\ u.id = j.target.id
      /\ u.next_field_id = j.target.next_field_id
      /\ u.tombstones = RenameTombstones(t.tombstones, t.schema, j.target.schema)
  BY <1>2, EntryWithTombstones
<1> HIDE DEF u
<1>4. /\ r.entry = t /\ r.successor_segments = SegIds(u.segments)
      /\ r.reason = "swapped" /\ r.version = m.version + 1
  BY DEF Retire
<1> HIDE DEF r, n
<1> QED
  BY <1>1, <1>3, <1>4 DEF n

(* A revert brings the old definition back with what was written and       *)
(* deleted since.                                                          *)
LaterKills(r, cur) == {k \in cur.tombstones : k.seq > r.version}
NextField(r, cur) ==
    IF cur.next_field_id > r.entry.next_field_id
      THEN cur.next_field_id ELSE r.entry.next_field_id
LEMMA RevertTableParts ==
    ASSUME NEW m, IsManifest(m), NEW r \in m.retired, NEW cur \in m.tables
    PROVE  LET n == RevertTable(m, r, cur)
           IN  \E v, q : /\ n.tables = (m.tables \ {cur}) \union {v}
                         /\ n.jobs = m.jobs
                         /\ n.retired = (m.retired \ {r}) \union {q}
                         /\ v.segments = r.entry.segments \union
                              {ProjectOnto(s, r.entry.schema) : s \in Since(r, cur)}
                         /\ v.name = r.entry.name /\ v.schema = r.entry.schema
                         /\ v.id = r.entry.id
                         /\ v.next_field_id = NextField(r, cur)
                         /\ v.tombstones = r.entry.tombstones \union
                              RenameTombstones(LaterKills(r, cur), cur.schema, r.entry.schema)
                         /\ q.entry = cur /\ q.reason = "reverted"
                         /\ q.successor_segments = {} /\ q.version = m.version + 1
<1> DEFINE v == Restored(r, cur)
           q == Retire(m, cur, "reverted", {})
           n == RevertTable(m, r, cur)
<1>1. n.tables = (m.tables \ {cur}) \union {v} /\ n.jobs = m.jobs /\
      n.retired = (m.retired \ {r}) \union {q}
  BY DEF RevertTable, IsManifest
<1>2. /\ v.segments = r.entry.segments \union {ProjectOnto(s, r.entry.schema) :
           s \in Since(r, cur)}
      /\ v.name = r.entry.name /\ v.schema = r.entry.schema
      /\ v.id = r.entry.id /\ v.next_field_id = NextField(r, cur)
      /\ v.tombstones = r.entry.tombstones \union
           RenameTombstones(LaterKills(r, cur), cur.schema, r.entry.schema)
  BY DEF Restored, LaterKills, NextField
<1>3. /\ q.entry = cur /\ q.reason = "reverted" /\ q.successor_segments = {}
      /\ q.version = m.version + 1
  BY DEF Retire
<1> HIDE DEF v, q, n
<1> QED
  BY <1>1, <1>2, <1>3 DEF n

-----------------------------------------------------------------------------
(* Commits and preparations.                                               *)

(* A new version has the rows of the edited manifest.                      *)
LEMMA NextVersionRows ==
    ASSUME NEW n, IsManifest(n), NEW m, NEW done, NEW new
    PROVE  LET v == NextVersion(n)
           IN  /\ ManifestRows(n, done) => ManifestRows(v, done)
               /\ FromOld(m, n, new) => FromOld(m, v, new)
<1> DEFINE v == NextVersion(n)
<1>1. v.tables = n.tables /\ v.jobs = n.jobs /\ v.retired = n.retired
  BY NextVersionShape
<1> HIDE DEF v
<1>2. SegmentsIn(v) = SegmentsIn(n) /\ Entries(v) = Entries(n)
  BY <1>1 DEF SegmentsIn, Entries
<1>3. /\ \A ids, segs : Carries(n, ids, segs) <=> Carries(v, ids, segs)
      /\ SameFile(n) <=> SameFile(v)
  BY <1>2 DEF Carries, StillThere, Sel, SameFile
<1>4. JobsCarry(n) <=> JobsCarry(v)
  BY <1>1 DEF JobsCarry
<1>5. Successors(n) <=> Successors(v)
  BY <1>1, <1>3 DEF Successors
<1>6. ManifestRows(n, done) => ManifestRows(v, done)
  BY <1>2, <1>3, <1>4, <1>5 DEF ManifestRows
<1>7. FromOld(m, n, new) => FromOld(m, v, new)
  BY <1>2 DEF FromOld
<1> QED
  BY <1>6, <1>7 DEF v

(* An id in the manifest is not one being prepared.                        *)
LEMMA UsedOld ==
    ASSUME SafeInv, NEW i \in SegIds(SegmentsIn(manifest))
    PROVE  Old(manifest, flushing, work, i)
<1>1. i \in Used(manifest)
  BY DEF Used
<1>2. i \in Nat /\ i < manifest.next_segment_id
  BY <1>1, UsedNat DEF SafeInv, Safe, IdsBelow
<1>3. \A p \in flushing : p.seg.id # i
  BY <1>1 DEF SafeInv, Safe, Fresh
<1>4. \A w \in Workers : \A s \in WorkSegs(work[w]) : s.id # i
  BY <1>1 DEF SafeInv, Safe, Fresh
<1> QED
  BY <1>2, <1>3, <1>4 DEF Old

(* Old ids stay old: newer ones are handed out above them.                 *)
LEMMA OldFrame ==
    ASSUME NEW m, m.next_segment_id \in Nat, NEW fl, NEW wk, NEW i, Old(m, fl, wk, i),
           NEW n, n.next_segment_id \in Nat, m.next_segment_id <= n.next_segment_id,
           NEW fl2, \A p \in fl2 :
             p \in fl \/ (p.seg.id \in Nat /\ m.next_segment_id <= p.seg.id),
           NEW wk2, \A w \in Workers : \A s \in WorkSegs(wk2[w]) :
              s \in WorkSegs(wk[w]) \/ (s.id \in Nat /\ m.next_segment_id <= s.id)
    PROVE  Old(n, fl2, wk2, i)
<1>1. i \in Nat /\ i < m.next_segment_id
  BY DEF Old
<1>2. i < n.next_segment_id
  BY <1>1
<1>3. ASSUME NEW p \in fl2
      PROVE  p.seg.id # i
  <2>1. CASE p \in fl
    BY <2>1 DEF Old
  <2>2. CASE p.seg.id \in Nat /\ m.next_segment_id <= p.seg.id
    BY <1>1, <2>2
  <2> QED
    BY <2>1, <2>2
<1>4. ASSUME NEW w \in Workers, NEW s \in WorkSegs(wk2[w])
      PROVE  s.id # i
  <2>1. CASE s \in WorkSegs(wk[w])
    BY <2>1 DEF Old
  <2>2. CASE s.id \in Nat /\ m.next_segment_id <= s.id
    BY <1>1, <2>2
  <2> QED
    BY <2>1, <2>2
<1> QED
  BY <1>1, <1>2, <1>3, <1>4 DEF Old

(* What a worker prepared stays right while its inputs are there.          *)
LEMMA WorkFrame ==
    ASSUME NEW m, NEW n, NEW new, SameFile(m), FromOld(m, n, new),
           NEW x, WorkRows(m, x), SpentBy(x) \intersect new = {}
    PROVE  WorkRows(n, x)
<1>1. ASSUME x.kind = "merge"
      PROVE  MergeRows(n, x)
  <2>1. x.removes \intersect new = {} /\ MergeRows(m, x)
    BY <1>1 DEF SpentBy, WorkRows
  <2> QED
    BY <2>1, SelFrame DEF MergeRows
<1>2. ASSUME x.kind = "advance"
      PROVE  StepRows(n, x)
  <2>1. x.rewritten \intersect new = {} /\ StepRows(m, x)
    BY <1>2 DEF SpentBy, WorkRows
  <2> QED
    BY <2>1, CarriesFrame DEF StepRows
<1> QED
  BY <1>1, <1>2 DEF WorkRows

(* Nothing prepared, nothing claimed.                                      *)
LEMMA NoWorkRows ==
    /\ \A m : WorkRows(m, NoWork)
    /\ SpentBy(NoWork) = {} /\ WorkSegs(NoWork) = {}
  BY DEF WorkRows, NoWork, SpentBy, WorkSegs

(* A commit leaves the files it was not given as they were, as far as the  *)
(* work still being prepared knows them.                                   *)
FilesKept ==
    \E new : /\ FromOld(manifest, manifest', new)
             /\ \A w \in Workers : SpentBy(work'[w]) \intersect new = {}

(* The commit of an edit whose effect on the rows is known.                *)
LEMMA CommitRows ==
    ASSUME SafeInv, StoredRows, NEW n, IsManifest(n),
           manifest.next_segment_id <= n.next_segment_id,
           NEW new, FromOld(manifest, n, new), ManifestRows(n, committed'),
           manifest' = NextVersion(n), flushing' \subseteq flushing,
           \A w \in Workers : \/ work'[w] = NoWork
                              \/ /\ work'[w] = work[w]
                                 /\ SpentBy(work[w]) \intersect new = {},
           \A r \in n.retired : \/ r \in manifest.retired
                                \/ r.successor_segments \subseteq
                                     SegIds(SegmentsIn(manifest))
    PROVE  StoredRows' /\ FilesKept
<1>1. /\ manifest'.retired = n.retired /\ manifest'.next_segment_id = n.next_segment_id
      /\ ManifestRows(manifest, committed)' /\ FromOld(manifest, manifest', new)
  BY NextVersionShape, NextVersionRows
<1>2. SameFile(manifest)
  BY DEF StoredRows, ManifestRows
<1>3. WorkersRows'
  <2> SUFFICES ASSUME NEW w \in Workers PROVE WorkRows(manifest', work'[w])
    BY DEF WorkersRows
  <2>1. CASE work'[w] = NoWork
    BY <2>1, NoWorkRows
  <2>2. CASE work'[w] = work[w] /\ SpentBy(work[w]) \intersect new = {}
    BY <1>1, <1>2, <2>2, WorkFrame DEF StoredRows, WorkersRows
  <2> QED
    BY <2>1, <2>2
<1>4. ASSUME NEW i, Old(manifest, flushing, work, i)
      PROVE  Old(manifest', flushing', work', i)
  <2>1. manifest.next_segment_id \in Nat /\ n.next_segment_id \in Nat
    BY DEF SafeInv, Safe, IsManifest
  <2>2. \A w \in Workers : \A s \in WorkSegs(work'[w]) : s \in WorkSegs(work[w])
    BY NoWorkRows
  <2> QED
    BY <1>1, <1>4, <2>1, <2>2, OldFrame
<1>5. ASSUME NEW r \in manifest'.retired, NEW i \in r.successor_segments
      PROVE  Old(manifest', flushing', work', i)
  <2>1. CASE r \in manifest.retired
    BY <1>4, <2>1 DEF StoredRows, Spent
  <2>2. CASE r.successor_segments \subseteq SegIds(SegmentsIn(manifest))
    BY <1>4, <2>2, UsedOld
  <2> QED
    BY <1>1, <2>1, <2>2
<1>6. ASSUME NEW w \in Workers, NEW i \in SpentBy(work'[w])
      PROVE  Old(manifest', flushing', work', i)
  BY <1>4, <1>6, NoWorkRows DEF StoredRows, Spent
<1>7. FilesKept
  BY <1>1, NoWorkRows DEF FilesKept
<1> QED
  BY <1>1, <1>3, <1>5, <1>6, <1>7 DEF StoredRows, Spent

(* The commit of an edit that hands out no id.                             *)
LEMMA PlainCommitRows ==
    ASSUME SafeInv, StoredRows, NEW n, EditOK(manifest, n, {}, next_id),
           FromOld(manifest, n, {}), ManifestRows(n, committed), CommitTo(n),
           UNCHANGED <<flushing, work, committed>>,
           \A r \in n.retired : \/ r \in manifest.retired
                                \/ r.successor_segments \subseteq
                                     SegIds(SegmentsIn(manifest))
    PROVE  StoredRows' /\ FilesKept
<1>1. IsManifest(n) /\ manifest.next_segment_id <= n.next_segment_id
  BY DEF EditOK
<1>2. manifest' = NextVersion(n)
  BY DEF CommitTo
<1>3. ManifestRows(n, committed')
  OBVIOUS
<1>4. \A w \in Workers : work'[w] = work[w] /\ SpentBy(work[w]) \intersect {} = {}
  OBVIOUS
<1>5. flushing' \subseteq flushing
  OBVIOUS
<1> QED
  BY <1>1, <1>2, <1>3, <1>4, <1>5, CommitRows

(* One table rebuilt with its segments, or with none.                      *)
LEMMA RebuiltRows ==
    ASSUME NEW m, NEW n, NEW done, ManifestRows(m, done), NEW t \in m.tables, NEW u,
           Rebuilt(m, n, t, u),
           u.segments = t.segments \/
             (u.segments = {} /\ \A j \in m.jobs : j.source # t.id),
           \A z \in m.tables : z.id = t.id => z = t
    PROVE  FromOld(m, n, {}) /\ ManifestRows(n, done)
<1>1. \A e \in Entries(n) : e.segments = {} \/ \E d \in Entries(m) :
      d.segments = e.segments
  <2>1. \A e \in Entries(n) : e \in Entries(m) \/ e = u
    BY DEF Entries, Rebuilt
  <2>2. t \in Entries(m)
    BY DEF Entries
  <2> QED
    BY <2>1, <2>2
<1>2. ASSUME NEW j \in n.jobs
      PROVE  /\ j \in m.jobs
             /\ \A z \in m.tables : z.id = j.source =>
                  \E y \in n.tables : y.id = z.id /\ y.segments = z.segments
  <2>1. j \in m.jobs
    BY DEF Rebuilt
  <2>2. ASSUME NEW z \in m.tables, z.id = j.source
        PROVE  \E y \in n.tables : y.id = z.id /\ y.segments = z.segments
    <3>1. CASE z = t
      BY <2>1, <2>2, <3>1 DEF Rebuilt
    <3>2. CASE z # t
      BY <3>2 DEF Rebuilt
    <3> QED
      BY <3>1, <3>2
  <2> QED
    BY <2>1, <2>2
<1>3. \A r \in n.retired : r \in m.retired
  BY DEF Rebuilt
<1> QED
  BY <1>1, <1>2, <1>3, PlainRows

(* CREATE TABLE.                                                           *)
LEMMA CreateRows ==
    ASSUME SafeInv, StoredRows, NEW nm \in Names, NEW columns, Create(nm, columns)
    PROVE  StoredRows' /\ FilesKept
<1> DEFINE n == CreateTable(manifest, nm, columns)
<1>1. EditOK(manifest, n, {}, next_id) /\ IsManifest(manifest)
  BY CreateTableEdit DEF SafeInv, Safe
<1>2. CommitTo(n) /\ UNCHANGED <<flushing, work, committed>>
  BY DEF Create, buffer
<1>3. PICK e : /\ n.tables = manifest.tables \union {e} /\ e.segments = {}
               /\ n.jobs = manifest.jobs /\ n.retired = manifest.retired
  BY <1>1, CreateTableParts
<1> HIDE DEF n
<1>4. \A d \in Entries(n) : d \in Entries(manifest) \/ d = e
  BY <1>3 DEF Entries
<1>5. \A z \in manifest.tables : z \in n.tables
  BY <1>3
<1>6. FromOld(manifest, n, {}) /\ ManifestRows(n, committed)
  BY <1>3, <1>4, <1>5, PlainRows DEF StoredRows
<1> QED
  BY <1>1, <1>2, <1>3, <1>6, PlainCommitRows

(* DELETE.                                                                 *)
LEMMA DeleteRows ==
    ASSUME SafeInv, Named, StoredRows, NEW nm, NEW c, NEW kills, Delete(nm, c, kills)
    PROVE  StoredRows' /\ FilesKept
<1>1. PICK t \in manifest.tables : CommitTo(AddTombstone(manifest, t, c, kills))
  BY DEF Delete
<1> DEFINE n == AddTombstone(manifest, t, c, kills)
<1>2. EditOK(manifest, n, {}, next_id) /\ IsManifest(manifest)
  BY AddTombstoneEdit DEF SafeInv, Safe
<1>3. CommitTo(n) /\ UNCHANGED <<flushing, work, committed>>
  BY <1>1 DEF Delete, buffer
<1>4. PICK u : Rebuilt(manifest, n, t, u) /\ u.segments = t.segments
  BY <1>2, AddTombstoneParts
<1> HIDE DEF n
<1>5. \A z \in manifest.tables : z.id = t.id => z = t
  BY DEF Named, UniqueIn, Unique, TablesUnique
<1>6. FromOld(manifest, n, {}) /\ ManifestRows(n, committed)
  BY <1>4, <1>5, RebuiltRows DEF StoredRows
<1>7. n.retired = manifest.retired
  BY <1>4 DEF Rebuilt
<1> QED
  BY <1>2, <1>3, <1>6, <1>7, PlainCommitRows

(* TRUNCATE.                                                               *)
LEMMA TruncateRows ==
    ASSUME SafeInv, Named, StoredRows, NEW nm, Truncate(nm)
    PROVE  StoredRows' /\ FilesKept
<1>1. PICK t \in manifest.tables :
         CanTruncateTable(manifest, t) /\ CommitTo(TruncateTable(manifest, t))
  BY DEF Truncate
<1> DEFINE n == TruncateTable(manifest, t)
<1>2. EditOK(manifest, n, {}, next_id) /\ IsManifest(manifest)
  BY TruncateEdit DEF SafeInv, Safe
<1>3. CommitTo(n) /\ UNCHANGED <<flushing, work, committed>>
  BY <1>1 DEF Truncate, buffer
<1>4. PICK u : Rebuilt(manifest, n, t, u) /\ u.segments = {}
  BY <1>2, TruncateParts
<1> HIDE DEF n
<1>5. /\ \A z \in manifest.tables : z.id = t.id => z = t
      /\ \A j \in manifest.jobs : j.source # t.id
  BY <1>1 DEF Named, UniqueIn, Unique, TablesUnique, CanTruncateTable, JobRunning
<1>6. FromOld(manifest, n, {}) /\ ManifestRows(n, committed)
  BY <1>4, <1>5, RebuiltRows DEF StoredRows
<1>7. n.retired = manifest.retired
  BY <1>4 DEF Rebuilt
<1> QED
  BY <1>2, <1>3, <1>6, <1>7, PlainCommitRows

(* ALTER TABLE.                                                            *)
LEMMA AlterRows ==
    ASSUME SafeInv, StoredRows, NEW nm, NEW ops, Alter(nm, ops)
    PROVE  StoredRows' /\ FilesKept
<1>1. PICK t \in manifest.tables : CommitTo(CreateJob(manifest, t, ops))
  BY DEF Alter
<1> DEFINE n == CreateJob(manifest, t, ops)
<1>2. EditOK(manifest, n, {}, next_id) /\ IsManifest(manifest)
  BY CreateJobEdit DEF SafeInv, Safe
<1>3. CommitTo(n) /\ UNCHANGED <<flushing, work, committed>>
  BY <1>1 DEF Alter, buffer
<1>4. PICK j : /\ n.jobs = manifest.jobs \union {j} /\ j.source = t.id
               /\ j.handled = {} /\ j.target.segments = {}
               /\ n.tables = manifest.tables /\ n.retired = manifest.retired
  BY <1>2, CreateJobParts
<1> HIDE DEF n
<1>5. \A d \in Entries(n) : d \in Entries(manifest) \/ d = j.target
  BY <1>4 DEF Entries
<1>6. \A i \in n.jobs : i \in manifest.jobs \/ i = j
  BY <1>4
<1>7. FromOld(manifest, n, {}) /\ ManifestRows(n, committed)
  BY <1>4, <1>5, <1>6, PlainRows DEF StoredRows
<1> QED
  BY <1>2, <1>3, <1>4, <1>7, PlainCommitRows

(* CANCEL.                                                                 *)
LEMMA CancelRows ==
    ASSUME SafeInv, StoredRows, NEW j \in manifest.jobs, Cancel(j)
    PROVE  StoredRows' /\ FilesKept
<1> DEFINE n == CancelJob(manifest, j)
<1>1. EditOK(manifest, n, {}, next_id) /\ IsManifest(manifest)
  BY CancelJobEdit DEF SafeInv, Safe
<1>2. CommitTo(n) /\ UNCHANGED <<flushing, work, committed>>
  BY DEF Cancel, buffer
<1>3. /\ n.tables = manifest.tables /\ n.jobs = manifest.jobs \ {j}
      /\ n.retired = manifest.retired
  BY <1>1, CancelJobParts
<1> HIDE DEF n
<1>4. \A d \in Entries(n) : d \in Entries(manifest)
  BY <1>3 DEF Entries
<1>5. FromOld(manifest, n, {}) /\ ManifestRows(n, committed)
  BY <1>3, <1>4, PlainRows DEF StoredRows
<1> QED
  BY <1>1, <1>2, <1>3, <1>5, PlainCommitRows

(* DROP TABLE.                                                             *)
LEMMA DropRows ==
    ASSUME SafeInv, Named, StoredRows, NEW nm, Drop(nm)
    PROVE  StoredRows' /\ FilesKept
<1>1. PICK t \in manifest.tables :
         CanDropTable(manifest, t) /\ CommitTo(DropTable(manifest, t))
  BY DEF Drop
<1> DEFINE n == DropTable(manifest, t)
<1>2. EditOK(manifest, n, {}, next_id) /\ IsManifest(manifest)
  BY DropTableEdit DEF SafeInv, Safe
<1>3. CommitTo(n) /\ UNCHANGED <<flushing, work, committed>>
  BY <1>1 DEF Drop, buffer
<1>4. PICK r : /\ n.tables = manifest.tables \ {t} /\ n.jobs = manifest.jobs
               /\ n.retired = manifest.retired \union {r} /\ r.entry = t
               /\ r.reason = "dropped" /\ r.successor_segments = {}
  BY <1>2, DropTableParts
<1> HIDE DEF n
<1>5. \A d \in Entries(n) : d \in Entries(manifest)
  BY <1>4 DEF Entries
<1>6. \A j \in n.jobs : j \in manifest.jobs /\ \A z \in manifest.tables :
      z.id = j.source => z \in n.tables
  BY <1>1, <1>4 DEF CanDropTable, JobRunning
<1>7. \A q \in n.retired : q.reason = "swapped" => q \in manifest.retired
  BY <1>4
<1>8. FromOld(manifest, n, {}) /\ ManifestRows(n, committed)
  BY <1>5, <1>6, <1>7, PlainRows DEF StoredRows
<1> QED
  BY <1>2, <1>3, <1>4, <1>8, PlainCommitRows

(* UNDROP TABLE.                                                           *)
LEMMA UndropRows ==
    ASSUME SafeInv, StoredRows, NEW nm, Undrop(nm)
    PROVE  StoredRows' /\ FilesKept
<1>1. PICK r \in manifest.retired : CommitTo(UndropTable(manifest, r))
  BY DEF Undrop
<1> DEFINE n == UndropTable(manifest, r)
<1>2. EditOK(manifest, n, {}, next_id) /\ IsManifest(manifest)
  BY UndropTableEdit DEF SafeInv, Safe
<1>3. CommitTo(n) /\ UNCHANGED <<flushing, work, committed>>
  BY <1>1 DEF Undrop, buffer
<1>4. /\ n.tables = manifest.tables \union {r.entry} /\ n.jobs = manifest.jobs
      /\ n.retired = manifest.retired \ {r}
  BY <1>2, UndropTableParts
<1> HIDE DEF n
<1>5. \A d \in Entries(n) : d \in Entries(manifest)
  BY <1>4 DEF Entries
<1>6. \A z \in manifest.tables : z \in n.tables
  BY <1>4
<1>7. FromOld(manifest, n, {}) /\ ManifestRows(n, committed)
  BY <1>4, <1>5, <1>6, PlainRows DEF StoredRows
<1> QED
  BY <1>2, <1>3, <1>4, <1>7, PlainCommitRows

(* The commits of gc.                                                      *)
LEMMA ExpireRows ==
    ASSUME SafeInv, StoredRows, NEW expired \in SUBSET manifest.retired, Expire(expired)
    PROVE  StoredRows' /\ FilesKept
<1> DEFINE n == ExpireRetired(manifest, expired)
<1>1. EditOK(manifest, n, {}, next_id) /\ IsManifest(manifest)
  BY ExpireRetiredEdit DEF SafeInv, Safe
<1>2. CommitTo(n) /\ UNCHANGED <<flushing, work, committed>>
  BY DEF Expire, buffer
<1>3. /\ n.tables = manifest.tables /\ n.jobs = manifest.jobs
      /\ n.retired = manifest.retired \ expired
  BY <1>1, ExpireRetiredParts
<1> HIDE DEF n
<1>4. \A d \in Entries(n) : d \in Entries(manifest)
  BY <1>3 DEF Entries
<1>5. FromOld(manifest, n, {}) /\ ManifestRows(n, committed)
  BY <1>3, <1>4, PlainRows DEF StoredRows
<1> QED
  BY <1>1, <1>2, <1>3, <1>5, PlainCommitRows

(* Forgetting deleted files touches no entry.                              *)
LEMMA ForgetRows ==
    ASSUME SafeInv, StoredRows, NEW ids, Forget(ids)
    PROVE  StoredRows' /\ FilesKept
<1> DEFINE n == ForgetGarbage(manifest, ids)
<1>1. EditOK(manifest, n, {}, next_id) /\ IsManifest(manifest)
  BY ForgetGarbageEdit DEF SafeInv, Safe
<1>2. CommitTo(n) /\ UNCHANGED <<flushing, work, committed>>
  BY DEF Forget, buffer
<1>3. n.tables = manifest.tables /\ n.jobs = manifest.jobs /\
      n.retired = manifest.retired
  BY <1>1, ForgetGarbageParts
<1> HIDE DEF n
<1>4. \A d \in Entries(n) : d \in Entries(manifest)
  BY <1>3 DEF Entries
<1>5. FromOld(manifest, n, {}) /\ ManifestRows(n, committed)
  BY <1>3, <1>4, PlainRows DEF StoredRows
<1> QED
  BY <1>1, <1>2, <1>3, <1>5, PlainCommitRows

(* A swap, after carrying a gap that needs no rewriting.                   *)
LEMMA JobSwapRows ==
    ASSUME SafeInv, Named, StoredRows, NEW j \in manifest.jobs, JobSwap(j)
    PROVE  StoredRows' /\ FilesKept
<1>1. PICK t \in manifest.tables :
         /\ t.id = j.source
         /\ LET m == AdvanceJob(manifest, t, j, SegIds(Gap(t, j)), {}, {})
                k == CHOOSE k \in m.jobs : k.id = j.id
            IN  CanSwapJob(t, k) /\ CommitTo(SwapJob(m, t, k))
  BY DEF JobSwap
<1> DEFINE gap == SegIds(Gap(t, j))
           m == AdvanceJob(manifest, t, j, gap, {}, {})
           a == Advanced(t, j, gap, {}, {})
           k == CHOOSE k \in m.jobs : k.id = j.id
           n == SwapJob(m, t, k)
<1>2. /\ IsManifest(manifest) /\ IdsBelow(manifest)
      /\ next_id \in Nat /\ manifest.next_segment_id <= next_id
  BY DEF SafeInv, Safe
<1>3. /\ EditOK(manifest, m, SegIds({}), next_id)
      /\ m.garbage = manifest.garbage /\ m.tables = manifest.tables
  <2>1. \A s \in {} : IsSegment(s) /\ s.id < next_id
    OBVIOUS
  <2> HIDE DEF gap, a
  <2> QED
    BY <1>2, <2>1, AdvanceJobEdit
<1>4. /\ m.tables = manifest.tables /\ m.jobs = (manifest.jobs \ {j}) \union {a}
      /\ m.retired = manifest.retired
      /\ a.id = j.id /\ a.source = j.source
      /\ a.handled = j.handled \union gap \union {}
      /\ a.target.segments = j.target.segments \union Carried(t, j, gap) \union {}
  <2>1. \A s \in {} : IsSegment(s)
    OBVIOUS
  <2> QED
    BY <1>2, <2>1, AdvanceJobParts
<1>5. CanSwapJob(t, k) /\ CommitTo(n)
  BY <1>1
<1>6. UNCHANGED <<flushing, work, committed>>
  BY DEF JobSwap
<1>7. /\ \A z \in manifest.tables : z.id = t.id => z = t
      /\ \A x, y \in manifest.jobs : (x.id = y.id \/ x.source = y.source) => x = y
  BY DEF Named, UniqueIn, Unique, TablesUnique, JobsUnique
<1>8. gap \subseteq SegIds(t.segments) \ j.handled
  BY DEF Gap, SegIds
<1> HIDE DEF gap, a, m
<1>9. FromOld(manifest, m, {}) /\ ManifestRows(m, committed)
  <2>1. Carries(manifest, {}, {}) /\ Apart({}) /\ SegIds({}) = {}
    <3>1. Sel(manifest, {}) = {} /\ SegIds({}) = {}
      BY DEF Sel, SegIds
    <3>2. Apart({})
      BY DEF Apart
    <3> QED
      BY <3>1, <3>2 DEF Carries
  <2>2. gap \union {} \subseteq SegIds(t.segments) \ j.handled
    BY <1>8
  <2>3. ManifestRows(manifest, committed)
    BY DEF StoredRows
  <2>4. /\ \A s, u \in {} : s.id = u.id => s = u
        /\ SegIds({}) \intersect SegIds(SegmentsIn(manifest)) = {}
        /\ \A r \in manifest.retired : r.successor_segments \intersect SegIds({}) = {}
    BY <2>1
  <2>5. FromOld(manifest, m, SegIds({})) /\ ManifestRows(m, committed)
    BY <1>1, <1>4, <1>7, <2>1, <2>2, <2>3, <2>4, AdvancedRows
  <2> QED
    BY <2>1, <2>5
<1>10. k = a
  <2>1. a \in m.jobs /\ \A x \in m.jobs : x.id = j.id => x = a
    BY <1>4, <1>7
  <2>2. k \in m.jobs /\ k.id = j.id
    BY <1>4, <2>1
  <2> QED
    BY <2>1, <2>2
<1> HIDE DEF k
<1>11. k \in m.jobs /\ t \in m.tables /\ t.id = k.source
  BY <1>1, <1>4, <1>10
<1>12. EditOK(manifest, m, {}, next_id)
  BY <1>3 DEF SegIds
<1>13. IsManifest(m) /\ m.next_segment_id <= next_id
  BY <1>12 DEF EditOK
<1>14. EditOK(m, n, {}, next_id) /\ n.garbage = m.garbage
  BY <1>2, <1>11, <1>13, SwapJobEdit
<1>15. PICK u, r : /\ n.tables = (m.tables \ {t}) \union {u}
                   /\ n.jobs = m.jobs \ {k}
                   /\ n.retired = m.retired \union {r}
                   /\ u.segments = k.target.segments
                   /\ r.entry = t /\ r.successor_segments = SegIds(u.segments)
  BY <1>11, <1>13, SwapJobParts
<1> HIDE DEF n
<1>16. EditOK(manifest, n, {}, next_id)
  BY <1>2, <1>12, <1>14, EditChain
<1>17. SegIds(t.segments) \subseteq k.handled
  BY <1>5 DEF CanSwapJob
<1>18. /\ \A z \in m.tables : z.id = t.id => z = t
       /\ \A i \in m.jobs : i.source = k.source => i = k
  BY <1>4, <1>7, <1>10
<1>19. FromOld(m, n, {}) /\ ManifestRows(n, committed)
  BY <1>9, <1>11, <1>15, <1>17, <1>18, SwappedRows
<1>20. FromOld(manifest, n, {})
  <2> SUFFICES ASSUME NEW s \in SegmentsIn(n)
               PROVE  \E x \in SegmentsIn(manifest) : Kin(s, x)
    BY DEF FromOld
  <2>1. PICK y \in SegmentsIn(m) : Kin(s, y)
    BY <1>19 DEF FromOld
  <2>2. PICK x \in SegmentsIn(manifest) : Kin(y, x)
    BY <1>9 DEF FromOld
  <2> QED
    BY <2>1, <2>2 DEF Kin
<1>21. SegIds(u.segments) \subseteq SegIds(SegmentsIn(manifest))
  <2>1. k.target \in Entries(m)
    BY <1>11 DEF Entries
  <2>2. \A s \in u.segments : \E x \in SegmentsIn(manifest) : Kin(s, x)
    BY <1>9, <1>15, <2>1, InSegments DEF FromOld
  <2> QED
    BY <2>2 DEF SegIds, Kin
<1>22. \A q \in n.retired : \/ q \in manifest.retired
                            \/ q.successor_segments \subseteq
                                 SegIds(SegmentsIn(manifest))
  BY <1>4, <1>15, <1>21
<1> QED
  BY <1>5, <1>6, <1>16, <1>19, <1>20, <1>22, PlainCommitRows

(* REVERT.                                                                 *)
LEMMA RevertRows ==
    ASSUME SafeInv, Named, StoredRows, NEW nm, Revert(nm)
    PROVE  StoredRows' /\ FilesKept
<1>1. PICK cur \in manifest.tables, r \in manifest.retired :
         CanRevertTable(manifest, r, cur) /\ CommitTo(RevertTable(manifest, r, cur))
  BY DEF Revert
<1> DEFINE n == RevertTable(manifest, r, cur)
<1>2. EditOK(manifest, n, {}, next_id) /\ IsManifest(manifest)
  BY RevertTableEdit DEF SafeInv, Safe
<1>3. CommitTo(n) /\ UNCHANGED <<flushing, work, committed>>
  BY <1>1 DEF Revert
<1>4. PICK v, q : /\ n.tables = (manifest.tables \ {cur}) \union {v}
                  /\ n.jobs = manifest.jobs
                  /\ n.retired = (manifest.retired \ {r}) \union {q}
                  /\ v.segments = r.entry.segments \union
                       {ProjectOnto(s, r.entry.schema) : s \in Since(r, cur)}
                  /\ v.name = r.entry.name /\ v.schema = r.entry.schema
                  /\ v.tombstones = r.entry.tombstones \union
                       RenameTombstones(LaterKills(r, cur), cur.schema, r.entry.schema)
                  /\ q.entry = cur /\ q.reason = "reverted"
                  /\ q.successor_segments = {} /\ q.version = manifest.version + 1
  BY <1>2, RevertTableParts, SMTT(20), ZenonT(30)
<1> HIDE DEF n
<1>5. /\ \A z \in manifest.tables : z.id = cur.id => z = cur
      /\ \A i \in manifest.jobs : i.source # cur.id
      /\ r.reason = "swapped"
      /\ r.successor_segments \subseteq SegIds(cur.segments)
  BY <1>1 DEF Named, UniqueIn, Unique, TablesUnique, CanRevertTable, LastRetired,
     JobRunning
<1>6. FromOld(manifest, n, {}) /\ ManifestRows(n, committed)
  <2>1. ManifestRows(manifest, committed)
    BY DEF StoredRows
  <2> QED
    BY <1>4, <1>5, <2>1, RevertedRows, SMTT(20), ZenonT(30)
<1> QED
  BY <1>2, <1>3, <1>4, <1>6, PlainCommitRows

(* The ids a worker commits are its own.                                   *)
LEMMA WorkerNew ==
    ASSUME SafeInv, StoredRows, NEW w \in Workers, NEW segs, segs = WorkSegs(work[w])
    PROVE  /\ SegIds(segs) \intersect SegIds(SegmentsIn(manifest)) = {}
           /\ \A r \in manifest.retired :
                r.successor_segments \intersect SegIds(segs) = {}
           /\ \A v \in Workers : SpentBy(work[v]) \intersect SegIds(segs) = {}
<1>1. SegIds(segs) \intersect SegIds(SegmentsIn(manifest)) = {}
  BY DEF SafeInv, Safe, Fresh, Used, SegIds
<1>2. \A i : Old(manifest, flushing, work, i) => i \notin SegIds(segs)
  BY DEF Old, SegIds
<1> QED
  BY <1>1, <1>2 DEF StoredRows, Spent

(* A worker's commit, once the rows of the edited manifest are known.      *)
LEMMA WorkerCommitRows ==
    ASSUME SafeInv, StoredRows, NEW w \in Workers, NEW n,
           EditOK(manifest, n, SegIds(WorkSegs(work[w])), next_id),
           FromOld(manifest, n, SegIds(WorkSegs(work[w]))), ManifestRows(n, committed),
           n.retired = manifest.retired,
           CommitTo(n), work' = [work EXCEPT ![w] = NoWork],
           UNCHANGED <<flushing, committed>>
    PROVE  StoredRows' /\ FilesKept
<1> DEFINE new == SegIds(WorkSegs(work[w]))
<1>1. IsManifest(n) /\ manifest.next_segment_id <= n.next_segment_id
  BY DEF EditOK
<1>2. manifest' = NextVersion(n)
  BY DEF CommitTo
<1>3. ManifestRows(n, committed')
  OBVIOUS
<1>4. \A v \in Workers : SpentBy(work[v]) \intersect new = {}
  BY WorkerNew
<1>5. \A v \in Workers : work'[v] = NoWork \/ work'[v] = work[v]
  <2>1. work = [v \in Workers |-> work[v]]
    BY DEF SafeInv, Safe
  <2> QED
    BY <2>1
<1>6. flushing' \subseteq flushing
  OBVIOUS
<1> HIDE DEF new
<1>7. FromOld(manifest, n, new)
  BY DEF new
<1> QED
  BY <1>1, <1>2, <1>3, <1>4, <1>5, <1>6, <1>7, CommitRows

(* A compaction's commit rebuilds its table.                               *)
LEMMA CompactCommitParts ==
    ASSUME SafeInv, Named, NEW w \in Workers, CompactCommit(w)
    PROVE  \E t \in manifest.tables : \E v, n :
             /\ CommitTo(n) /\ EditOK(manifest, n, SegIds(work[w].adds), next_id)
             /\ Rebuilt(manifest, n, t, v)
             /\ t.name = work[w].table /\ v.tombstones = t.tombstones
             /\ v.segments = {s \in t.segments :
                  s.id \notin work[w].removes} \union work[w].adds
             /\ work[w].removes \subseteq SegIds(t.segments)
             /\ \A j \in manifest.jobs : j.source # t.id
<1>1. PICK t \in manifest.tables :
         /\ t.name = work[w].table
         /\ CanRemoveSegments(manifest, t, work[w].removes)
         /\ LET m == RemoveSegments(manifest, t, work[w].removes)
                u == CHOOSE u \in m.tables : u.id = t.id
            IN  CommitTo(AddSegments(m, u, work[w].adds))
  BY DEF CompactCommit
<1> DEFINE x == work[w]
           m == RemoveSegments(manifest, t, x.removes)
           u == CHOOSE u \in m.tables : u.id = t.id
           n == AddSegments(m, u, x.adds)
<1>2. /\ IsManifest(manifest) /\ IdsBelow(manifest)
      /\ next_id \in Nat /\ manifest.next_segment_id <= next_id
  BY DEF SafeInv, Safe
<1>3. x.kind = "merge" /\ x.adds = WorkSegs(x)
  BY DEF CompactCommit, WorkSegs
<1>4. \A s \in x.adds : IsSegment(s) /\ s.id < next_id /\ s.id \notin Used(manifest)
  BY <1>3 DEF SafeInv, Safe, Fresh
<1>5. EditOK(manifest, m, {}, next_id) /\ \E z \in m.tables : z.id = t.id
  BY <1>2, RemoveSegmentsEdit
<1>6. PICK y : /\ Rebuilt(manifest, m, t, y) /\ y.tombstones = t.tombstones
               /\ y.segments = {s \in t.segments : s.id \notin x.removes}
  BY <1>2, RemoveSegmentsParts
<1>7. CommitTo(n)
  BY <1>1
<1> HIDE DEF m
<1>8. \A z \in manifest.tables : z.id = t.id => z = t
  BY DEF Named, UniqueIn, Unique, TablesUnique
<1>9. u = y
  <2>1. y \in m.tables /\ y.id = t.id /\ \A z \in m.tables : z.id = t.id => z = y
    BY <1>6, <1>8 DEF Rebuilt
  <2> QED
    BY <2>1
<1>10. u \in m.tables
  BY <1>6, <1>9 DEF Rebuilt
<1> HIDE DEF u
<1>11. IsManifest(m) /\ IdsBelow(m) /\ m.next_segment_id <= next_id
  <2>1. IdsBelow(m)
    BY <1>2, <1>5, EditIds
  <2> QED
    BY <1>5, <2>1 DEF EditOK
<1>12. EditOK(m, n, SegIds(x.adds), next_id) /\ n.garbage = m.garbage
  BY <1>2, <1>4, <1>10, <1>11, AddSegmentsEdit
<1>13. PICK v : /\ Rebuilt(m, n, u, v) /\ v.segments = u.segments \union x.adds
                /\ v.tombstones = u.tombstones
  BY <1>4, <1>10, <1>11, AddSegmentsParts
<1> HIDE DEF n
<1>14. SegIds(x.adds) \intersect Used(manifest) = {}
  BY <1>4 DEF SegIds
<1>15. EditOK(manifest, n, SegIds(x.adds), next_id)
  BY <1>2, <1>5, <1>12, <1>14, EditChain
<1>16. Rebuilt(manifest, n, t, v)
  <2>1. m.tables \ {u} = manifest.tables \ {t}
    BY <1>6, <1>8, <1>9 DEF Rebuilt
  <2> QED
    BY <1>6, <1>9, <1>13, <2>1 DEF Rebuilt
<1>17. /\ v.segments = {s \in t.segments : s.id \notin x.removes} \union x.adds
       /\ v.tombstones = t.tombstones /\ t.name = work[w].table
  BY <1>1, <1>6, <1>9, <1>13
<1>18. /\ x.removes \subseteq SegIds(t.segments)
       /\ \A j \in manifest.jobs : j.source # t.id
  BY <1>1 DEF CanRemoveSegments, JobRunning
<1> QED
  BY <1>7, <1>15, <1>16, <1>17, <1>18

(* And leaves the rows right.                                              *)
LEMMA CompactCommitRows ==
    ASSUME SafeInv, Named, StoredRows, NEW w \in Workers, CompactCommit(w)
    PROVE  StoredRows' /\ FilesKept
<1> DEFINE x == work[w]
<1>1. PICK t \in manifest.tables : \E v, n :
         /\ CommitTo(n) /\ EditOK(manifest, n, SegIds(x.adds), next_id)
         /\ Rebuilt(manifest, n, t, v)
         /\ v.segments = {s \in t.segments : s.id \notin x.removes} \union x.adds
         /\ x.removes \subseteq SegIds(t.segments)
         /\ \A j \in manifest.jobs : j.source # t.id
  BY CompactCommitParts
<1>2. PICK v, n :
         /\ CommitTo(n) /\ EditOK(manifest, n, SegIds(x.adds), next_id)
         /\ Rebuilt(manifest, n, t, v)
         /\ v.segments = {s \in t.segments : s.id \notin x.removes} \union x.adds
         /\ x.removes \subseteq SegIds(t.segments)
         /\ \A j \in manifest.jobs : j.source # t.id
  BY <1>1
<1>3. x.kind = "merge" /\ x.adds = WorkSegs(x)
  BY DEF CompactCommit, WorkSegs
<1>4. MergeRows(manifest, x) /\ ManifestRows(manifest, committed)
  BY <1>3 DEF StoredRows, WorkersRows, WorkRows
<1>5. /\ SegIds(x.adds) \intersect SegIds(SegmentsIn(manifest)) = {}
      /\ \A r \in manifest.retired : r.successor_segments \intersect SegIds(x.adds) = {}
  BY <1>3, WorkerNew
<1>6. work' = [work EXCEPT ![w] = NoWork] /\ UNCHANGED <<flushing, committed>>
  BY DEF CompactCommit, buffer
<1>7. /\ n.tables = (manifest.tables \ {t}) \union {v}
      /\ n.jobs = manifest.jobs /\ n.retired = manifest.retired
  BY <1>2 DEF Rebuilt
<1> HIDE DEF x
<1>8. FromOld(manifest, n, SegIds(x.adds)) /\ ManifestRows(n, committed)
  BY <1>2, <1>4, <1>5, <1>7, MergedRows
<1>9. /\ EditOK(manifest, n, SegIds(WorkSegs(work[w])), next_id)
      /\ FromOld(manifest, n, SegIds(WorkSegs(work[w])))
  BY <1>2, <1>3, <1>8 DEF x
<1> QED
  BY <1>2, <1>6, <1>7, <1>8, <1>9, WorkerCommitRows

(* A job step's commit.                                                    *)
LEMMA JobAdvanceRows ==
    ASSUME SafeInv, Named, StoredRows, NEW w \in Workers, JobAdvance(w)
    PROVE  StoredRows' /\ FilesKept
<1> DEFINE x == work[w]
<1>1. PICK j \in manifest.jobs, t \in manifest.tables :
         /\ t.id = j.source
         /\ CanAdvanceJob(t, j, x.reused, x.rewritten, x.segments)
         /\ CommitTo(AdvanceJob(manifest, t, j, x.reused, x.rewritten, x.segments))
  BY DEF JobAdvance
<1> DEFINE n == AdvanceJob(manifest, t, j, x.reused, x.rewritten, x.segments)
           k == Advanced(t, j, x.reused, x.rewritten, x.segments)
<1>2. /\ IsManifest(manifest) /\ IdsBelow(manifest)
      /\ next_id \in Nat /\ manifest.next_segment_id <= next_id
  BY DEF SafeInv, Safe
<1>3. x.kind = "advance" /\ x.segments = WorkSegs(x)
  BY DEF JobAdvance, WorkSegs
<1>4. \A s \in x.segments : IsSegment(s) /\ s.id < next_id
  BY <1>3 DEF SafeInv, Safe, Fresh
<1>5. work' = [work EXCEPT ![w] = NoWork] /\ UNCHANGED <<flushing, committed>>
  BY DEF JobAdvance, buffer
<1>6. StepRows(manifest, x) /\ ManifestRows(manifest, committed)
  BY <1>3 DEF StoredRows, WorkersRows, WorkRows
<1>7. /\ SegIds(x.segments) \intersect SegIds(SegmentsIn(manifest)) = {}
      /\ \A r \in manifest.retired :
           r.successor_segments \intersect SegIds(x.segments) = {}
  BY <1>3, WorkerNew
<1>8. \A z \in manifest.tables : z.id = t.id => z = t
  BY DEF Named, UniqueIn, Unique, TablesUnique
<1>9. x.reused \union x.rewritten \subseteq SegIds(t.segments) \ j.handled
  BY <1>1 DEF CanAdvanceJob
<1> HIDE DEF x
<1>10. EditOK(manifest, n, SegIds(x.segments), next_id)
  BY <1>2, <1>4, AdvanceJobEdit
<1>11. /\ n.tables = manifest.tables /\ n.jobs = (manifest.jobs \ {j}) \union {k}
       /\ n.retired = manifest.retired
       /\ k.source = j.source
       /\ k.handled = j.handled \union x.reused \union x.rewritten
       /\ k.target.segments = j.target.segments \union Carried(t, j, x.reused) \union
            x.segments
  BY <1>2, <1>4, AdvanceJobParts
<1>12. CommitTo(n)
  BY <1>1
<1> HIDE DEF n, k
<1>13. FromOld(manifest, n, SegIds(x.segments)) /\ ManifestRows(n, committed)
  <2>1. /\ Carries(manifest, x.rewritten, x.segments) /\ Apart(x.segments)
        /\ \A s, u \in x.segments : s.id = u.id => s = u
        /\ x.reused = {} \/ x.rewritten = {}
    BY <1>6 DEF StepRows
  <2> DEFINE reused == x.reused
             rewritten == x.rewritten
             segs == x.segments
  <2>2. t.id = j.source /\ ManifestRows(manifest, committed)
    BY <1>1, <1>6
  <2>3. /\ SegIds(segs) \intersect SegIds(SegmentsIn(manifest)) = {}
        /\ \A r \in manifest.retired : r.successor_segments \intersect SegIds(segs) = {}
        /\ reused \union rewritten \subseteq SegIds(t.segments) \ j.handled
    BY <1>7, <1>9
  <2>4. /\ k.handled = j.handled \union reused \union rewritten
        /\ k.target.segments = j.target.segments \union Carried(t, j, reused) \union
             segs
    BY <1>11
  <2>5. /\ Carries(manifest, rewritten, segs) /\ Apart(segs)
        /\ \A s, u \in segs : s.id = u.id => s = u
        /\ reused = {} \/ rewritten = {}
    BY <2>1
  <2> HIDE DEF reused, rewritten, segs
  <2>6. FromOld(manifest, n, SegIds(segs)) /\ ManifestRows(n, committed)
    BY <1>8, <1>11, <2>2, <2>3, <2>4, <2>5, AdvancedRows
  <2> QED
    BY <2>6 DEF segs
<1>14. /\ EditOK(manifest, n, SegIds(WorkSegs(work[w])), next_id)
       /\ FromOld(manifest, n, SegIds(WorkSegs(work[w])))
  BY <1>3, <1>10, <1>13 DEF x
<1> QED
  BY <1>5, <1>11, <1>12, <1>13, <1>14, WorkerCommitRows

(* A flush's commit.                                                       *)
LEMMA FlushCommitRows ==
    ASSUME SafeInv, StoredRows, BufferRows, FlushRows, FlushCommit
    PROVE  StoredRows' /\ FilesKept
<1> DEFINE n == AddFlushed
           rows == {b.row : b \in in_flight}
<1>1. /\ IsManifest(manifest) /\ IdsBelow(manifest)
      /\ next_id \in Nat /\ manifest.next_segment_id <= next_id
  BY DEF SafeInv, Safe
<1>2. \A p \in flushing : /\ IsSegment(p.seg) /\ p.seg.id < next_id
                          /\ p.seg.id \notin SegIds(SegmentsIn(manifest))
  BY DEF SafeInv, Safe, Fresh, Used
<1>3. /\ \A r \in manifest.retired : r.successor_segments \intersect FlushIds = {}
      /\ \A v \in Workers : SpentBy(work[v]) \intersect FlushIds = {}
  <2>1. \A i : Old(manifest, flushing, work, i) => i \notin FlushIds
    BY DEF Old, FlushIds
  <2> QED
    BY <2>1 DEF StoredRows, Spent
<1>4. IsManifest(n) /\ manifest.next_segment_id <= n.next_segment_id
  BY <1>1, <1>2, AddFlushedEdit DEF EditOK
<1>5. n.retired = manifest.retired
  BY <1>1, <1>2, AddFlushedParts
<1>6. FromOld(manifest, n, FlushIds) /\ ManifestRows(n, committed \union rows)
  BY <1>1, <1>2, <1>3, FlushedRows DEF StoredRows
<1>7. /\ manifest' = NextVersion(n) /\ committed' = committed \union rows
      /\ flushing' = {} /\ work' = work
  BY DEF FlushCommit, CommitTo, Idle
<1> HIDE DEF n, rows
<1>8. ManifestRows(n, committed')
  BY <1>6, <1>7
<1>9. flushing' \subseteq flushing
  BY <1>7
<1>10. \A v \in Workers : work'[v] = work[v]
  BY <1>7
<1>11. manifest' = NextVersion(n)
  BY <1>7
<1> QED
  BY <1>3, <1>4, <1>5, <1>6, <1>8, <1>9, <1>10, <1>11, CommitRows

(* The segments of the ids of some segments hold what those hold.          *)
LEMMA SelOf ==
    ASSUME NEW m, SameFile(m), NEW S, S \subseteq SegmentsIn(m)
    PROVE  /\ SeqRows(Sel(m, SegIds(S))) = SeqRows(S)
           /\ RowsOf(Sel(m, SegIds(S))) = RowsOf(S)
           /\ SegIds(S) \subseteq SegIds(SegmentsIn(m))
<1> DEFINE T == Sel(m, SegIds(S))
<1>1. S \subseteq T
  BY DEF Sel, SegIds
<1>2. \A s \in T : \E u \in S : u.seq = s.seq /\ u.rows = s.rows
  <2> TAKE s \in T
  <2>1. PICK u \in S : u.id = s.id
    BY DEF Sel, SegIds
  <2> QED
    BY <2>1 DEF Sel, SameFile
<1>3. \A s \in S : \E u \in T : u.seq = s.seq /\ u.rows = s.rows
  BY <1>1
<1> HIDE DEF T
<1>4. SeqRows(T) \subseteq SeqRows(S) /\ RowsOf(T) \subseteq RowsOf(S)
  BY <1>2, SeqRowsWithin
<1>5. SeqRows(S) \subseteq SeqRows(T) /\ RowsOf(S) \subseteq RowsOf(T)
  BY <1>3, SeqRowsWithin
<1>6. SegIds(S) \subseteq SegIds(SegmentsIn(m))
  BY DEF SegIds
<1> QED
  BY <1>4, <1>5, <1>6 DEF T

(* A step that commits nothing: what it prepares has new ids.              *)
LEMMA PrepareRows ==
    ASSUME SafeInv, StoredRows, UNCHANGED <<manifest, committed>>,
           \A p \in flushing' : p \in flushing \/
             (p.seg.id \in Nat /\ next_id <= p.seg.id),
           \A w \in Workers : \A s \in WorkSegs(work'[w]) :
              s \in WorkSegs(work[w]) \/ (s.id \in Nat /\ next_id <= s.id),
           \A w \in Workers : WorkRows(manifest, work'[w]),
           \A w \in Workers : \/ SpentBy(work'[w]) \subseteq SpentBy(work[w])
                              \/ SpentBy(work'[w]) \subseteq
                                   SegIds(SegmentsIn(manifest))
    PROVE  StoredRows'
<1>1. /\ manifest.next_segment_id \in Nat /\ next_id \in Nat
      /\ manifest.next_segment_id <= next_id
  BY DEF SafeInv, Safe, IsManifest
<1>2. ASSUME NEW i, Old(manifest, flushing, work, i)
      PROVE  Old(manifest', flushing', work', i)
  <2>1. \A p \in flushing' :
        p \in flushing \/ (p.seg.id \in Nat /\ manifest.next_segment_id <= p.seg.id)
    <3> SUFFICES ASSUME NEW p \in flushing', p \notin flushing
                 PROVE  p.seg.id \in Nat /\ manifest.next_segment_id <= p.seg.id
      OBVIOUS
    <3>1. p.seg.id \in Nat /\ next_id <= p.seg.id
      OBVIOUS
    <3> QED
      BY <1>1, <3>1
  <2>2. \A w \in Workers : \A s \in WorkSegs(work'[w]) :
           s \in WorkSegs(work[w]) \/ (s.id \in Nat /\ manifest.next_segment_id <= s.id)
    <3> SUFFICES ASSUME NEW w \in Workers, NEW s \in WorkSegs(work'[w]),
                        s \notin WorkSegs(work[w])
                 PROVE  s.id \in Nat /\ manifest.next_segment_id <= s.id
      OBVIOUS
    <3>1. s.id \in Nat /\ next_id <= s.id
      OBVIOUS
    <3> QED
      BY <1>1, <3>1
  <2>3. manifest.next_segment_id <= manifest.next_segment_id
    BY <1>1
  <2>4. Old(manifest, flushing', work', i)
    BY <1>1, <1>2, <2>1, <2>2, <2>3, OldFrame
  <2> QED
    BY <2>4
<1>3. \A r \in manifest'.retired : \A i \in r.successor_segments :
      Old(manifest', flushing', work', i)
  BY <1>2 DEF StoredRows, Spent
<1>4. \A w \in Workers : \A i \in SpentBy(work'[w]) :
      Old(manifest', flushing', work', i)
  BY <1>2, UsedOld DEF StoredRows, Spent
<1>5. WorkersRows' /\ ManifestRows(manifest, committed)'
  BY DEF StoredRows, WorkersRows
<1> QED
  BY <1>3, <1>4, <1>5 DEF StoredRows, Spent

(* A step that leaves the manifest and the workers alone.                  *)
LEMMA StutterRows ==
    ASSUME SafeInv, StoredRows, UNCHANGED <<manifest, work, committed>>,
           flushing' \subseteq flushing
    PROVE  StoredRows'
<1>1. \A w \in Workers : WorkRows(manifest, work'[w])
  BY DEF StoredRows, WorkersRows
<1> QED
  BY <1>1, PrepareRows

(* One worker prepares x.                                                  *)
LEMMA WorkerPrepareRows ==
    ASSUME SafeInv, StoredRows, UNCHANGED <<manifest, committed, flushing>>,
           NEW w \in Workers, NEW x, work' = [work EXCEPT ![w] = x],
           \A s \in WorkSegs(x) : s.id \in Nat /\ next_id <= s.id,
           WorkRows(manifest, x), SpentBy(x) \subseteq SegIds(SegmentsIn(manifest))
    PROVE  StoredRows'
<1>1. work = [v \in Workers |-> work[v]]
  BY DEF SafeInv, Safe
<1>2. \A v \in Workers : work'[v] = IF v = w THEN x ELSE work[v]
  BY <1>1
<1>3. \A v \in Workers : WorkRows(manifest, work'[v])
  BY <1>2 DEF StoredRows, WorkersRows
<1>4. \A v \in Workers : \A s \in WorkSegs(work'[v]) :
         s \in WorkSegs(work[v]) \/ (s.id \in Nat /\ next_id <= s.id)
  BY <1>2
<1>5. \A v \in Workers : \/ SpentBy(work'[v]) \subseteq SpentBy(work[v])
                         \/ SpentBy(work'[v]) \subseteq SegIds(SegmentsIn(manifest))
  BY <1>2
<1> QED
  BY <1>3, <1>4, <1>5, PrepareRows

(* A compaction is planned and its output written.                         *)
LEMMA CompactPrepareRows ==
    ASSUME SafeInv, StoredRows, NEW w \in Workers, NEW nm, CompactPrepare(w, nm)
    PROVE  StoredRows'
<1>0. PICK t \in manifest.tables : \E inputs \in SUBSET t.segments :
         work' = [work EXCEPT ![w] =
           [kind |-> "merge", table |-> nm, removes |-> SegIds(inputs),
            adds |-> {MergedSegment(t, inputs, next_id)}]]
  BY DEF CompactPrepare
<1>1. PICK inputs \in SUBSET t.segments :
         work' = [work EXCEPT ![w] =
           [kind |-> "merge", table |-> nm, removes |-> SegIds(inputs),
            adds |-> {MergedSegment(t, inputs, next_id)}]]
  BY <1>0
<1> DEFINE s == MergedSegment(t, inputs, next_id)
           ids == SegIds(inputs)
           x == [kind |-> "merge", table |-> nm, removes |-> ids, adds |-> {s}]
<1>2. next_id \in Nat /\ UNCHANGED <<manifest, committed, flushing>>
  BY DEF SafeInv, Safe, CompactPrepare, buffer
<1>3. s.id = next_id /\ s.rows = RowsOf(inputs)
  BY DEF MergedSegment
<1>4. work' = [work EXCEPT ![w] = x]
  BY <1>1
<1>5. inputs \subseteq SegmentsIn(manifest) /\ SameFile(manifest)
  BY InSegments DEF Entries, StoredRows, ManifestRows
<1>6. ids \subseteq SegIds(SegmentsIn(manifest)) /\
      RowsOf(Sel(manifest, ids)) = RowsOf(inputs)
  BY <1>5, SelOf
<1> HIDE DEF s, ids
<1>7. x.kind = "merge" /\ x.removes = ids /\ x.adds = {s}
  OBVIOUS
<1> HIDE DEF x
<1>8. WorkSegs(x) = {s} /\ SpentBy(x) = ids
  BY <1>7 DEF WorkSegs, SpentBy
<1>9. MergeRows(manifest, x)
  BY <1>3, <1>6, <1>7 DEF MergeRows
<1>10. WorkRows(manifest, x)
  BY <1>7, <1>9 DEF WorkRows
<1>11. \A u \in WorkSegs(x) : u.id \in Nat /\ next_id <= u.id
  BY <1>2, <1>3, <1>8
<1> QED
  BY <1>2, <1>4, <1>6, <1>8, <1>10, <1>11, WorkerPrepareRows

(* Rewriting segments one by one keeps their seqs and rows.                *)
LEMMA RewrittenRows ==
    ASSUME NEW m, SameFile(m), NEW S, S \subseteq SegmentsIn(m), NEW segs,
           \A u \in segs : \E s \in S : s.seq = u.seq /\ s.rows = u.rows,
           \A s \in S : \E u \in segs : u.seq = s.seq /\ u.rows = s.rows
    PROVE  Carries(m, SegIds(S), segs)
<1>1. SeqRows(segs) \subseteq SeqRows(S)
  BY SeqRowsWithin
<1>2. SeqRows(S) \subseteq SeqRows(segs)
  BY SeqRowsWithin
<1> QED
  BY <1>1, <1>2, SelOf DEF Carries

(* A job step is prepared.                                                 *)
LEMMA JobPrepareRows ==
    ASSUME SafeInv, StoredRows, NEW w \in Workers, NEW j, JobPrepare(w, j)
    PROVE  StoredRows'
<1>1. next_id \in Nat /\ UNCHANGED <<manifest, committed, flushing>>
  BY DEF SafeInv, Safe, JobPrepare, buffer
<1>2. PICK t \in manifest.tables :
         LET chosen == Chosen(Gap(t, j))
         IN  \/ \E next \in next_id + 1 .. MaxId + 1 :
                \E id \in [chosen -> next_id .. next - 1] :
                  /\ \A s, u \in chosen : id[s] = id[u] => s = u
                  /\ work' = [work EXCEPT ![w] =
                       [kind |-> "advance", job |-> j.id, reused |-> {},
                        rewritten |-> SegIds(chosen),
                        segments |-> {RewrittenSegment(s, j.target.schema, id[s])
                                        : s \in chosen}]]
             \/ work' = [work EXCEPT ![w] =
                     [kind |-> "advance", job |-> j.id, reused |-> SegIds(chosen),
                      rewritten |-> {}, segments |-> {}]]
  BY DEF JobPrepare
<1> DEFINE chosen == Chosen(Gap(t, j))
<1>3. chosen \subseteq SegmentsIn(manifest) /\ Apart(chosen) /\ SameFile(manifest)
  <2>1. chosen \subseteq t.segments
    BY DEF Chosen, Gap
  <2>2. t \in Entries(manifest)
    BY DEF Entries
  <2>3. Apart(t.segments) /\ SameFile(manifest)
    BY <2>2 DEF StoredRows, ManifestRows
  <2> QED
    BY <2>1, <2>2, <2>3, InSegments DEF Apart
<1> HIDE DEF chosen
<1>4. ASSUME NEW next \in next_id + 1 .. MaxId + 1,
             NEW id \in [chosen -> next_id .. next - 1],
             \A s, u \in chosen : id[s] = id[u] => s = u,
             work' = [work EXCEPT ![w] =
                       [kind |-> "advance", job |-> j.id, reused |-> {},
                        rewritten |-> SegIds(chosen),
                        segments |-> {RewrittenSegment(s, j.target.schema, id[s])
                                        : s \in chosen}]]
      PROVE  StoredRows'
  <2> DEFINE segs == {RewrittenSegment(s, j.target.schema, id[s]) : s \in chosen}
             ids == SegIds(chosen)
             x == [kind |-> "advance", job |-> j.id, reused |-> {},
                   rewritten |-> ids, segments |-> segs]
  <2>1. /\ Carries(manifest, ids, segs) /\ Apart(segs)
        /\ \A s, u \in segs : s.id = u.id => s = u
    <3>1. \A s \in chosen : LET u == RewrittenSegment(s, j.target.schema, id[s])
                            IN  u \in segs /\ u.id = id[s] /\ u.seq = s.seq /\
                              u.rows = s.rows
      BY DEF RewrittenSegment
    <3>2. \A u \in segs : \E s \in chosen :
             /\ u = RewrittenSegment(s, j.target.schema, id[s])
             /\ u.id = id[s] /\ u.seq = s.seq /\ u.rows = s.rows
      BY <3>1
    <3> HIDE DEF segs
    <3>3. Carries(manifest, ids, segs)
      BY <1>3, <3>1, <3>2, RewrittenRows
    <3>4. Apart(segs)
      BY <1>3, <3>2 DEF Apart
    <3>5. \A s, u \in segs : s.id = u.id => s = u
      BY <1>4, <3>2
    <3> QED
      BY <3>3, <3>4, <3>5
  <2>2. \A u \in segs : u.id \in Nat /\ next_id <= u.id
    <3>1. \A s \in chosen : id[s] \in Nat /\ next_id <= id[s]
      BY <1>1, StoreAssumption DEF StoreAssumption
    <3>2. \A s, i : RewrittenSegment(s, j.target.schema, i).id = i
      BY DEF RewrittenSegment
    <3> QED
      BY <3>1, <3>2
  <2>3. ids \subseteq SegIds(SegmentsIn(manifest))
    BY <1>3 DEF SegIds
  <2>4. work' = [work EXCEPT ![w] = x]
    BY <1>4
  <2> HIDE DEF segs, ids
  <2>5. x.kind = "advance" /\ x.reused = {} /\ x.rewritten = ids /\ x.segments = segs
    OBVIOUS
  <2> HIDE DEF x
  <2>6. WorkSegs(x) = segs /\ SpentBy(x) = ids
    BY <2>5 DEF WorkSegs, SpentBy
  <2>7. WorkRows(manifest, x)
    BY <2>1, <2>5 DEF WorkRows, StepRows
  <2> QED
    BY <1>1, <2>2, <2>3, <2>4, <2>6, <2>7, WorkerPrepareRows
<1>5. ASSUME work' = [work EXCEPT ![w] =
                     [kind |-> "advance", job |-> j.id, reused |-> SegIds(chosen),
                      rewritten |-> {}, segments |-> {}]]
      PROVE  StoredRows'
  <2> DEFINE ids == SegIds(chosen)
             x == [kind |-> "advance", job |-> j.id, reused |-> ids,
                   rewritten |-> {}, segments |-> {}]
  <2>1. work' = [work EXCEPT ![w] = x]
    BY <1>5
  <2> HIDE DEF ids
  <2>2. x.kind = "advance" /\ x.rewritten = {} /\ x.segments = {}
    OBVIOUS
  <2> HIDE DEF x
  <2>3. WorkSegs(x) = {} /\ SpentBy(x) = {}
    BY <2>2 DEF WorkSegs, SpentBy
  <2>4. Carries(manifest, {}, {})
    <3>1. Sel(manifest, {}) = {}
      BY DEF Sel
    <3> QED
      BY <3>1 DEF Carries
  <2>5. Apart({})
    BY DEF Apart
  <2>6. WorkRows(manifest, x)
    BY <2>2, <2>4, <2>5 DEF WorkRows, StepRows
  <2> QED
    BY <1>1, <2>1, <2>3, <2>6, WorkerPrepareRows
<1> QED
  BY <1>2, <1>4, <1>5 DEF chosen

(* The flusher writes its segments.                                        *)
LEMMA FlushWriteParts ==
    ASSUME SafeInv, Named, FlushWrite
    PROVE  /\ \A p \in flushing' :
                /\ p.seg.id \in Nat /\ next_id <= p.seg.id
                /\ \E t \in manifest.tables :
                     /\ p.table = t.name
                     /\ p.seg.rows = {b.row :
                          b \in {b \in in_flight : b.table = t.name}}
                     /\ p.seg.field_ids = Fids(t.schema)
                /\ \E b \in in_flight : b.table = p.table
           /\ \A p, q \in flushing' : (p.table = q.table \/ p.seg.id = q.seg.id) =>
                p = q
<1> DEFINE names == {b.table : b \in in_flight}
<1>0. PICK next \in next_id + 1 .. MaxId + 1 :
        \E id \in [names -> next_id .. next - 1] :
         /\ \A m, n \in names : id[m] = id[n] => m = n
         /\ flushing' = {[table |-> t.name, seg |-> FlushedSegment(t, id[t.name])]
                           : t \in {t \in manifest.tables : t.name \in names}}
  BY DEF FlushWrite
<1>1. PICK id \in [names -> next_id .. next - 1] :
         /\ \A m, n \in names : id[m] = id[n] => m = n
         /\ flushing' = {[table |-> t.name, seg |-> FlushedSegment(t, id[t.name])]
                           : t \in {t \in manifest.tables : t.name \in names}}
  BY <1>0
<1>2. \A n \in names : id[n] \in Nat /\ next_id <= id[n]
  BY StoreAssumption DEF SafeInv, Safe, StoreAssumption
<1>3. \A t, i : LET s == FlushedSegment(t, i)
                IN  /\ s.id = i /\ s.field_ids = Fids(t.schema)
                    /\ s.rows = {b.row : b \in {b \in in_flight : b.table = t.name}}
  BY DEF FlushedSegment
<1>4. \A t, u \in manifest.tables : t.name = u.name => t = u
  BY DEF Named, UniqueIn, Unique, TablesUnique
<1>5. \A p \in flushing' : \E t \in manifest.tables :
         t.name \in names /\ p = [table |-> t.name,
           seg |-> FlushedSegment(t, id[t.name])]
  BY <1>1
<1>6. \A n \in names : \E b \in in_flight : b.table = n
  OBVIOUS
<1> HIDE DEF names
<1>7. ASSUME NEW p \in flushing'
      PROVE  /\ p.seg.id \in Nat /\ next_id <= p.seg.id
             /\ \E t \in manifest.tables :
                  /\ p.table = t.name
                  /\ p.seg.rows = {b.row : b \in {b \in in_flight : b.table = t.name}}
                  /\ p.seg.field_ids = Fids(t.schema)
             /\ \E b \in in_flight : b.table = p.table
  <2>1. PICK t \in manifest.tables :
           t.name \in names /\ p = [table |-> t.name,
             seg |-> FlushedSegment(t, id[t.name])]
    BY <1>5
  <2>2. p.table = t.name /\ p.seg = FlushedSegment(t, id[t.name])
    BY <2>1
  <2> QED
    BY <1>2, <1>3, <1>6, <2>1, <2>2
<1>8. ASSUME NEW p \in flushing', NEW q \in flushing', p.table = q.table \/
             p.seg.id = q.seg.id
      PROVE  p = q
  <2>1. PICK t \in manifest.tables :
           t.name \in names /\ p = [table |-> t.name,
             seg |-> FlushedSegment(t, id[t.name])]
    BY <1>5
  <2>2. PICK u \in manifest.tables :
           u.name \in names /\ q = [table |-> u.name,
             seg |-> FlushedSegment(u, id[u.name])]
    BY <1>5
  <2>3. /\ p.table = t.name /\ p.seg.id = id[t.name]
        /\ q.table = u.name /\ q.seg.id = id[u.name]
    BY <1>3, <2>1, <2>2
  <2>4. t.name = u.name
    BY <1>1, <1>8, <2>1, <2>2, <2>3
  <2>5. t = u
    BY <1>4, <2>4
  <2> QED
    BY <2>1, <2>2, <2>5
<1> QED
  BY <1>7, <1>8

(* Every step keeps what is stored right.                                  *)
LEMMA NextStored ==
    ASSUME SafeInv, Named, RowsInv, [Next]_vars
    PROVE  StoredRows'
<1> USE DEF RowsInv
<1>1. ASSUME NEW n \in Names, NEW columns \in ColumnLists, Create(n, columns)
      PROVE  StoredRows'
  BY <1>1, CreateRows
<1>2. ASSUME NEW n \in Names, Truncate(n) \/ Revert(n) \/ Drop(n) \/ Undrop(n)
      PROVE  StoredRows'
  BY <1>2, TruncateRows, RevertRows, DropRows, UndropRows
<1>3. ASSUME NEW n \in Names, NEW r \in Rows, Write(n, r)
      PROVE  StoredRows'
  BY <1>3, StutterRows DEF Write
<1>4. ASSUME NEW n \in Names, NEW c, NEW kills \in Predicates, Delete(n, c, kills)
      PROVE  StoredRows'
  BY <1>4, DeleteRows
<1>5. ASSUME NEW n \in Names, NEW ops \in AlterOps, Alter(n, ops)
      PROVE  StoredRows'
  BY <1>5, AlterRows
<1>6. ASSUME NEW n \in Names, NEW w \in Workers, CompactPrepare(w, n)
      PROVE  StoredRows'
  BY <1>6, CompactPrepareRows
<1>7. CASE FlushTake \/ FlushFail \/ UNCHANGED vars
  BY <1>7, StutterRows DEF FlushTake, FlushFail, Idle, vars
<1>8. CASE FlushCommit
  BY <1>8, FlushCommitRows
<1>9. CASE FlushWrite
  <2>1. UNCHANGED <<manifest, work, committed>>
    BY <1>9 DEF FlushWrite
  <2>2. \A p \in flushing' : p.seg.id \in Nat /\ next_id <= p.seg.id
    BY <1>9, FlushWriteParts
  <2>3. \A w \in Workers : WorkRows(manifest, work'[w])
    BY <2>1 DEF StoredRows, WorkersRows
  <2>4. \A w \in Workers : /\ WorkSegs(work'[w]) = WorkSegs(work[w])
                           /\ SpentBy(work'[w]) = SpentBy(work[w])
    BY <2>1
  <2> QED
    BY <2>1, <2>2, <2>3, <2>4, PrepareRows
<1>10. CASE Reopen
  <2>1. UNCHANGED <<manifest, committed>> /\ flushing' = {}
    BY <1>10 DEF Reopen, Idle
  <2>2. \A w \in Workers : work'[w] = NoWork
    BY <1>10 DEF Reopen
  <2>3. \A w \in Workers : /\ WorkRows(manifest, work'[w])
                           /\ WorkSegs(work'[w]) = {} /\ SpentBy(work'[w]) = {}
    BY <2>2, NoWorkRows
  <2> QED
    BY <2>1, <2>3, PrepareRows
<1>11. ASSUME NEW w \in Workers, CompactCommit(w) \/ JobAdvance(w) \/ Abandon(w)
       PROVE  StoredRows'
  <2>1. CASE Abandon(w)
    <3>1. work' = [work EXCEPT ![w] = NoWork] /\
          UNCHANGED <<manifest, committed, flushing>>
      BY <2>1 DEF Abandon, buffer
    <3> QED
      BY <3>1, NoWorkRows, WorkerPrepareRows
  <2> QED
    BY <1>11, <2>1, CompactCommitRows, JobAdvanceRows
<1>12. ASSUME NEW j \in manifest.jobs, JobSwap(j) \/ Cancel(j)
       PROVE  StoredRows'
  BY <1>12, JobSwapRows, CancelRows
<1>13. ASSUME NEW j \in manifest.jobs, NEW w \in Workers, JobPrepare(w, j)
       PROVE  StoredRows'
  BY <1>13, JobPrepareRows
<1>14. ASSUME NEW expired \in SUBSET manifest.retired, Expire(expired)
       PROVE  StoredRows'
  BY <1>14, ExpireRows
<1>15. ASSUME NEW ids \in SUBSET GarbageIds(manifest), Forget(ids)
       PROVE  StoredRows'
  BY <1>15, ForgetRows
<1> QED
  BY <1>1, <1>2, <1>3, <1>4, <1>5, <1>6, <1>7, <1>8, <1>9, <1>10, <1>11, <1>12,
     <1>13, <1>14, <1>15 DEF Next

-----------------------------------------------------------------------------
(* The buffer.                                                             *)

(* Projecting the pending batches keeps their tables and rows, one image   *)
(* for each batch.                                                         *)
LEMMA ProjectKeepsRows ==
    ASSUME \A b \in pending : IsBatch(b), NEW n, NEW from, NEW to
    PROVE  \A b \in ProjectPending(n, from, to) : \E c \in pending :
             /\ b.row = c.row /\ b.table = c.table
             /\ b = (IF c.table = n THEN ProjectBatch(c, from, to) ELSE c)
<1> SUFFICES ASSUME NEW c \in pending
             PROVE  LET b == IF c.table = n THEN ProjectBatch(c, from, to) ELSE c
                    IN  b.row = c.row /\ b.table = c.table
  BY DEF ProjectPending
<1>1. PICK x : ProjectBatch(c, from, to) = [c EXCEPT !.cols = x]
  BY DEF ProjectBatch
<1>2. IsBatch(c)
  OBVIOUS
<1>3. [c EXCEPT !.cols = x].row = c.row /\ [c EXCEPT !.cols = x].table = c.table
  BY <1>2 DEF IsBatch
<1> QED
  BY <1>1, <1>3

(* A step that projects the pending batches and leaves the flush alone.    *)
LEMMA ProjectBufferRows ==
    ASSUME Buffers, BufferRows, FlushRows, NEW n, NEW from, NEW to,
           pending' = ProjectPending(n, from, to),
             UNCHANGED <<in_flight, flushing, committed>>
    PROVE  (BufferRows /\ FlushRows)'
<1>1. \A b \in pending' : \E c \in pending :
         /\ b.row = c.row /\ b.table = c.table
         /\ b = (IF c.table = n THEN ProjectBatch(c, from, to) ELSE c)
  BY ProjectKeepsRows DEF Buffers
<1>2. \A b, c \in pending' : b.row = c.row => b = c
  BY <1>1 DEF BufferRows
<1>3. \A b \in pending', c \in in_flight : b.row # c.row
  BY <1>1 DEF BufferRows
<1>4. \A b \in pending' : b.row \notin committed
  <2>1. \A b \in pending : b.row \notin committed
    BY DEF BufferRows, Buffered
  <2> QED
    BY <1>1, <2>1
<1>5. \A b \in in_flight : b.row \notin committed
  BY DEF BufferRows, Buffered
<1>6. BufferRows'
  BY <1>2, <1>3, <1>4, <1>5 DEF BufferRows, Buffered
<1>7. FlushRows'
  BY DEF FlushRows
<1> QED
  BY <1>6, <1>7

(* A step that leaves the buffer alone.                                    *)
LEMMA StutterBufferRows ==
    ASSUME BufferRows, FlushRows, UNCHANGED buffer
    PROVE  (BufferRows /\ FlushRows)'
<1>1. UNCHANGED <<pending, in_flight, flushing, committed>>
  BY DEF buffer
<1>2. BufferRows'
  BY <1>1 DEF BufferRows, Buffered
<1>3. FlushRows'
  BY <1>1 DEF FlushRows
<1> QED
  BY <1>2, <1>3

(* Every step keeps one copy of each buffered row, and none of a published *)
(* one.                                                                    *)
LEMMA NextBufferRows ==
    ASSUME SafeInv, Named, Buffers, BufferRows, FlushRows, [Next]_vars
    PROVE  (BufferRows /\ FlushRows)'
<1>1. ASSUME NEW n \in Names, NEW r \in Rows, Write(n, r)
      PROVE  (BufferRows /\ FlushRows)'
  <2>1. PICK x : pending' = pending \union {[table |-> n, row |-> r, cols |-> x]}
    BY <1>1 DEF Write
  <2> DEFINE new == [table |-> n, row |-> r, cols |-> x]
  <2>2. new.row = r
    OBVIOUS
  <2> HIDE DEF new
  <2>3. pending' = pending \union {new}
    BY <2>1 DEF new
  <2>4. UNCHANGED <<in_flight, flushing, committed>>
    BY <1>1 DEF Write
  <2>5. r \notin committed /\ \A b \in pending \union in_flight : b.row # r
    BY <1>1 DEF Write, Buffered
  <2>6. \A b \in pending \union in_flight : b.row \notin committed
    BY DEF BufferRows, Buffered
  <2>7. Buffered' \intersect committed = {}
    BY <2>2, <2>3, <2>4, <2>5, <2>6 DEF Buffered
  <2>8. /\ \A b, c \in pending' : b.row = c.row => b = c
        /\ \A b \in pending', c \in in_flight : b.row # c.row
    BY <2>2, <2>3, <2>5 DEF BufferRows
  <2>9. BufferRows'
    BY <2>4, <2>7, <2>8 DEF BufferRows
  <2>10. FlushRows'
    BY <2>4 DEF FlushRows
  <2> QED
    BY <2>9, <2>10
<1>2. CASE FlushTake
  <2>1. /\ in_flight' = pending /\ pending' = {} /\ in_flight = {}
        /\ UNCHANGED <<flushing, committed>>
    BY <1>2 DEF FlushTake
  <2>2. flushing = {}
    BY <2>1 DEF FlushRows
  <2>3. BufferRows'
    BY <2>1 DEF BufferRows, Buffered
  <2>4. FlushRows'
    BY <2>1, <2>2 DEF FlushRows
  <2> QED
    BY <2>3, <2>4
<1>3. CASE FlushWrite
  <2>1. UNCHANGED <<pending, in_flight, committed>>
    BY <1>3 DEF FlushWrite
  <2>2. BufferRows'
    BY <2>1 DEF BufferRows, Buffered
  <2>3. /\ \A p \in flushing' :
             /\ \E t \in manifest.tables :
                  p.seg.rows = {b.row : b \in {b \in in_flight : b.table = t.name}}
             /\ \E b \in in_flight : b.table = p.table
        /\ \A p, q \in flushing' : (p.table = q.table \/ p.seg.id = q.seg.id) => p = q
    BY <1>3, FlushWriteParts
  <2>4. \A p \in flushing' : p.seg.rows \subseteq {b.row : b \in in_flight}
    BY <2>3
  <2>5. FlushRows'
    BY <2>1, <2>3, <2>4 DEF FlushRows
  <2> QED
    BY <2>2, <2>5
<1>4. CASE FlushCommit \/ FlushFail \/ Reopen
  <2>1. /\ in_flight' = {} /\ flushing' = {} /\ pending' \subseteq pending
        /\ committed' \subseteq committed \union {b.row : b \in in_flight}
    BY <1>4 DEF FlushCommit, FlushFail, Reopen, Idle
  <2>2. \A b \in pending' : b.row \notin committed'
    <3>1. \A b \in pending : b.row \notin committed /\ \A c \in in_flight :
          b.row # c.row
      BY DEF BufferRows, Buffered
    <3> QED
      BY <2>1, <3>1
  <2>3. BufferRows'
    BY <2>1, <2>2 DEF BufferRows, Buffered
  <2>4. FlushRows'
    BY <2>1 DEF FlushRows
  <2> QED
    BY <2>3, <2>4
<1>5. ASSUME NEW n, Revert(n)
      PROVE  (BufferRows /\ FlushRows)'
  BY <1>5, ProjectBufferRows DEF Revert
<1>6. ASSUME NEW j, JobSwap(j)
      PROVE  (BufferRows /\ FlushRows)'
  BY <1>6, ProjectBufferRows DEF JobSwap
<1>7. ASSUME NEW n, Truncate(n) \/ Drop(n) \/ Undrop(n)
      PROVE  (BufferRows /\ FlushRows)'
  BY <1>7, StutterBufferRows DEF Truncate, Drop, Undrop
<1>8. ASSUME NEW n, NEW columns, Create(n, columns)
      PROVE  (BufferRows /\ FlushRows)'
  BY <1>8, StutterBufferRows DEF Create
<1>9. ASSUME NEW n, NEW c, NEW kills, Delete(n, c, kills)
      PROVE  (BufferRows /\ FlushRows)'
  BY <1>9, StutterBufferRows DEF Delete
<1>10. ASSUME NEW n, NEW ops, Alter(n, ops)
       PROVE  (BufferRows /\ FlushRows)'
  BY <1>10, StutterBufferRows DEF Alter
<1>11. ASSUME NEW w, NEW n, CompactPrepare(w, n)
       PROVE  (BufferRows /\ FlushRows)'
  BY <1>11, StutterBufferRows DEF CompactPrepare
<1>12. CASE UNCHANGED vars
  BY <1>12, StutterBufferRows DEF vars, buffer
<1>13. ASSUME NEW w, CompactCommit(w) \/ JobAdvance(w) \/ Abandon(w)
       PROVE  (BufferRows /\ FlushRows)'
  BY <1>13, StutterBufferRows DEF CompactCommit, JobAdvance, Abandon
<1>14. ASSUME NEW j, Cancel(j)
       PROVE  (BufferRows /\ FlushRows)'
  BY <1>14, StutterBufferRows DEF Cancel
<1>15. ASSUME NEW j, NEW w, JobPrepare(w, j)
       PROVE  (BufferRows /\ FlushRows)'
  BY <1>15, StutterBufferRows DEF JobPrepare
<1>16. ASSUME NEW x, Expire(x) \/ Forget(x)
       PROVE  (BufferRows /\ FlushRows)'
  BY <1>16, StutterBufferRows DEF Expire, Forget
<1> QED
  BY <1>1, <1>2, <1>3, <1>4, <1>5, <1>6, <1>7, <1>8, <1>9, <1>10, <1>11, <1>12,
     <1>13, <1>14, <1>15, <1>16 DEF Next

-----------------------------------------------------------------------------
(* A flush is accepted.                                                    *)

(* Every table with buffered batches has a successor in the manifest n of  *)
(* its name and schema.                                                    *)
Keeps(n) ==
    \A t \in manifest.tables :
        BufferHolds(pending \union in_flight, t.name) =>
            \E u \in n.tables : u.name = t.name /\ u.schema = t.schema

(* No new batch, and the tables of the old ones kept.                      *)
LEMMA AcceptedFrame ==
    ASSUME FlushAccepted, FlushRows, Keeps(manifest'),
           pending' \union in_flight' \subseteq pending \union in_flight,
           flushing' \subseteq flushing
    PROVE  FlushAccepted'
<1>1. \A b \in pending' \union in_flight' : \E t \in manifest'.tables :
         t.name = b.table /\ Cols(t.schema) = {c.col : c \in b.cols}
  <2> TAKE b \in pending' \union in_flight'
  <2>1. PICK t \in manifest.tables : t.name = b.table /\ Cols(t.schema) = {c.col :
          c \in b.cols}
    BY DEF FlushAccepted
  <2>2. BufferHolds(pending \union in_flight, t.name)
    BY <2>1 DEF BufferHolds
  <2>3. PICK u \in manifest'.tables : u.name = t.name /\ u.schema = t.schema
    BY <2>2 DEF Keeps
  <2> QED
    BY <2>1, <2>3
<1>2. \A p \in flushing' : \E t \in manifest'.tables :
         t.name = p.table /\ CanAddSegments(t, {p.seg})
  <2> TAKE p \in flushing'
  <2>1. PICK t \in manifest.tables : t.name = p.table /\ CanAddSegments(t, {p.seg})
    BY DEF FlushAccepted
  <2>2. BufferHolds(pending \union in_flight, t.name)
    BY <2>1 DEF BufferHolds, FlushRows
  <2>3. PICK u \in manifest'.tables : u.name = t.name /\ u.schema = t.schema
    BY <2>2 DEF Keeps
  <2> QED
    BY <2>1, <2>3 DEF CanAddSegments
<1> QED
  BY <1>1, <1>2 DEF FlushAccepted

(* The commit of an edit that keeps them.                                  *)
LEMMA AcceptedCommit ==
    ASSUME FlushAccepted, FlushRows, NEW n, IsManifest(n), CommitTo(n), Keeps(n),
           UNCHANGED buffer
    PROVE  FlushAccepted'
<1>1. manifest' = NextVersion(n)
  BY DEF CommitTo
<1>2. manifest'.tables = n.tables
  BY <1>1, NextVersionShape
<1>3. Keeps(manifest')
  BY <1>2 DEF Keeps
<1> QED
  BY <1>3, AcceptedFrame DEF buffer

(* A rebuilt table is kept.                                                *)
LEMMA RebuiltKeeps ==
    ASSUME NEW t \in manifest.tables, NEW u, NEW n, Rebuilt(manifest, n, t, u)
    PROVE  Keeps(n)
  BY DEF Keeps, Rebuilt

(* A table that stays is kept.                                             *)
LEMMA MoreKeeps ==
    ASSUME NEW n, manifest.tables \subseteq n.tables
    PROVE  Keeps(n)
  BY DEF Keeps

(* project_batch leaves a batch with the columns of the new schema.        *)
LEMMA ProjectCols ==
    ASSUME NEW b, IsBatch(b), NEW from, NEW to
    PROVE  {c.col : c \in ProjectBatch(b, from, to).cols} = Cols(to)
<1> DEFINE F(g) == IF g.fid \in Fids(from)
                     THEN (CHOOSE c \in b.cols :
                       c.col = (CHOOSE f \in from : f.fid = g.fid).col).birth
                     ELSE g.birth
           X == {[col |-> g.col, birth |-> F(g)] : g \in to}
<1>1. ProjectBatch(b, from, to) = [b EXCEPT !.cols = X]
  BY DEF ProjectBatch
<1> HIDE DEF F
<1>2. {c.col : c \in X} = Cols(to)
  <2>1. \A c \in X : \E g \in to : c.col = g.col
    OBVIOUS
  <2>2. \A g \in to : \E c \in X : c.col = g.col
    <3> TAKE g \in to
    <3>1. [col |-> g.col, birth |-> F(g)] \in X
      OBVIOUS
    <3> QED
      BY <3>1
  <2> HIDE DEF X
  <2>3. {c.col : c \in X} \subseteq Cols(to)
    BY <2>1 DEF Cols
  <2>4. Cols(to) \subseteq {c.col : c \in X}
    BY <2>2 DEF Cols
  <2> QED
    BY <2>3, <2>4
<1> HIDE DEF X
<1>3. [b EXCEPT !.cols = X].cols = X
  BY DEF IsBatch
<1> QED
  BY <1>1, <1>2, <1>3

(* A commit that changes the schema of one table, while no flush holds its *)
(* batches, and projects the pending ones.                                 *)
LEMMA AcceptedProject ==
    ASSUME Buffers, Named, FlushAccepted, FlushRows, NEW n, IsManifest(n), CommitTo(n),
           NEW t \in manifest.tables, NEW u, u.name = t.name,
           n.tables = (manifest.tables \ {t}) \union {u},
           ~BufferHolds(in_flight, t.name),
           pending' = ProjectPending(t.name, t.schema, u.schema),
           UNCHANGED <<in_flight, flushing>>
    PROVE  FlushAccepted'
<1>1. manifest'.tables = (manifest.tables \ {t}) \union {u}
  BY NextVersionShape DEF CommitTo
<1>2. \A z \in manifest.tables : z.name = t.name => z = t
  BY DEF Named, UniqueIn, Unique, TablesUnique
<1>3. \A b \in in_flight : \E z \in manifest'.tables :
         z.name = b.table /\ Cols(z.schema) = {c.col : c \in b.cols}
  BY <1>1 DEF FlushAccepted, BufferHolds
<1>4. \A p \in flushing : \E z \in manifest'.tables :
         z.name = p.table /\ CanAddSegments(z, {p.seg})
  BY <1>1 DEF FlushAccepted, BufferHolds, FlushRows
<1>5. \A b \in pending' : \E z \in manifest'.tables :
         z.name = b.table /\ Cols(z.schema) = {c.col : c \in b.cols}
  <2> TAKE b \in pending'
  <2>1. PICK c \in pending :
           /\ b.table = c.table
           /\ b = (IF c.table = t.name THEN ProjectBatch(c, t.schema, u.schema) ELSE c)
    BY ProjectKeepsRows DEF Buffers
  <2>2. CASE c.table = t.name
    <3>1. {x.col : x \in b.cols} = Cols(u.schema)
      BY <2>1, <2>2, ProjectCols DEF Buffers
    <3> QED
      BY <1>1, <2>1, <2>2, <3>1
  <2>3. CASE c.table # t.name
    <3>1. b = c
      BY <2>1, <2>3
    <3>2. PICK z \in manifest.tables : z.name = b.table /\ Cols(z.schema) = {x.col :
            x \in b.cols}
      BY <3>1 DEF FlushAccepted
    <3> QED
      BY <1>1, <2>3, <3>1, <3>2
  <2> QED
    BY <2>2, <2>3
<1> QED
  BY <1>3, <1>4, <1>5 DEF FlushAccepted

(* A swap, in one commit, replaces the source by the target of its name.   *)
LEMMA JobSwapParts ==
    ASSUME SafeInv, Named, NEW j \in manifest.jobs, JobSwap(j)
    PROVE  \E t \in manifest.tables : \E u, r, n :
             /\ IsManifest(n) /\ CommitTo(n) /\ n.version = manifest.version
             /\ n.tables = (manifest.tables \ {t}) \union {u}
             /\ n.jobs \subseteq manifest.jobs \ {j}
             /\ n.retired = manifest.retired \union {r}
             /\ t.id = j.source /\ CanRename(t.tombstones, t.schema, j.target.schema)
             /\ u.name = t.name /\ u.schema = j.target.schema
             /\ u.id = j.target.id /\ u.next_field_id = j.target.next_field_id
             /\ u.segments = j.target.segments \union Carried(t, j, SegIds(Gap(t, j)))
             /\ u.tombstones = RenameTombstones(t.tombstones, t.schema, j.target.schema)
             /\ r.entry = t /\ r.successor_segments = SegIds(u.segments)
             /\ r.reason = "swapped" /\ r.version = manifest.version + 1
             /\ ~BufferHolds(in_flight, t.name)
             /\ pending' = ProjectPending(t.name, t.schema, j.target.schema)
<1>1. PICK t \in manifest.tables :
         /\ t.id = j.source
         /\ ~BufferHolds(in_flight, t.name)
         /\ LET m == AdvanceJob(manifest, t, j, SegIds(Gap(t, j)), {}, {})
                k == CHOOSE k \in m.jobs : k.id = j.id
            IN  CanSwapJob(t, k) /\ CommitTo(SwapJob(m, t, k))
         /\ pending' = ProjectPending(t.name, t.schema, j.target.schema)
  BY DEF JobSwap
<1> DEFINE gap == SegIds(Gap(t, j))
           m == AdvanceJob(manifest, t, j, gap, {}, {})
           a == Advanced(t, j, gap, {}, {})
           k == CHOOSE k \in m.jobs : k.id = j.id
           n == SwapJob(m, t, k)
<1>2. /\ IsManifest(manifest) /\ IdsBelow(manifest)
      /\ next_id \in Nat /\ manifest.next_segment_id <= next_id
  BY DEF SafeInv, Safe
<1>3. /\ EditOK(manifest, m, SegIds({}), next_id)
      /\ m.garbage = manifest.garbage /\ m.tables = manifest.tables
      /\ m.retired = manifest.retired /\ m.jobs = (manifest.jobs \ {j}) \union {a}
  <2>1. \A s \in {} : IsSegment(s) /\ s.id < next_id
    OBVIOUS
  <2> HIDE DEF gap
  <2> QED
    BY <1>2, <2>1, AdvanceJobEdit
<1>4. /\ m.tables = manifest.tables /\ m.jobs = (manifest.jobs \ {j}) \union {a}
      /\ m.retired = manifest.retired
      /\ a.id = j.id /\ a.source = j.source
      /\ a.target.segments = j.target.segments \union Carried(t, j, gap) \union {}
      /\ a.target.name = j.target.name /\ a.target.schema = j.target.schema
      /\ a.target.id = j.target.id /\ a.target.next_field_id = j.target.next_field_id
  <2>1. \A s \in {} : IsSegment(s)
    OBVIOUS
  <2> QED
    BY <1>2, <2>1, AdvanceJobParts
<1>5. CommitTo(n) /\ CanSwapJob(t, k)
  BY <1>1
<1>6. /\ \A x, y \in manifest.jobs : x.id = y.id => x = y
      /\ t.name = j.target.name
  BY <1>1 DEF Named, UniqueIn, Unique, TablesUnique, JobsUnique
<1> HIDE DEF gap, a, m
<1>7. k = a
  <2>1. a \in m.jobs /\ \A x \in m.jobs : x.id = j.id => x = a
    BY <1>4, <1>6
  <2>2. k \in m.jobs /\ k.id = j.id
    BY <1>4, <2>1
  <2> QED
    BY <2>1, <2>2
<1> HIDE DEF k
<1>8. k \in m.jobs /\ t \in m.tables /\ t.id = k.source
  BY <1>1, <1>4, <1>7
<1>9. IsManifest(m) /\ m.next_segment_id <= next_id /\ m.version = manifest.version
  BY <1>3 DEF EditOK
<1>10. EditOK(m, n, {}, next_id) /\ n.garbage = m.garbage
  BY <1>2, <1>8, <1>9, SwapJobEdit
<1>11. PICK u, r : /\ n.tables = (m.tables \ {t}) \union {u}
                   /\ n.jobs = m.jobs \ {k}
                   /\ n.retired = m.retired \union {r}
                   /\ u.segments = k.target.segments /\ u.name = k.target.name
                   /\ u.schema = k.target.schema /\ u.id = k.target.id
                   /\ u.next_field_id = k.target.next_field_id
                   /\ u.tombstones =
                        RenameTombstones(t.tombstones, t.schema, k.target.schema)
                   /\ r.entry = t /\ r.successor_segments = SegIds(u.segments)
                   /\ r.reason = "swapped" /\ r.version = m.version + 1
  BY <1>8, <1>9, SwapJobParts
<1> HIDE DEF n
<1>12. IsManifest(n) /\ n.version = manifest.version
  BY <1>9, <1>10 DEF EditOK
<1>13. n.jobs \subseteq manifest.jobs \ {j} /\ n.retired = manifest.retired \union {r}
  BY <1>4, <1>7, <1>11
<1>14. CanRename(t.tombstones, t.schema, j.target.schema)
  BY <1>4, <1>5, <1>7 DEF CanSwapJob
<1>15. /\ u.name = t.name /\ u.schema = j.target.schema
       /\ u.id = j.target.id /\ u.next_field_id = j.target.next_field_id
       /\ u.segments = j.target.segments \union Carried(t, j, gap)
       /\ u.tombstones = RenameTombstones(t.tombstones, t.schema, j.target.schema)
       /\ n.tables = (manifest.tables \ {t}) \union {u} /\ r.version = manifest.version + 1
  BY <1>4, <1>6, <1>7, <1>9, <1>11
<1> USE DEF gap
<1> WITNESS t \in manifest.tables
<1> WITNESS u, r, n
<1> QED
  BY <1>1, <1>5, <1>11, <1>12, <1>13, <1>14, <1>15, SMTT(20), ZenonT(30)

(* Every step keeps the buffered batches acceptable.                       *)
LEMMA NextAccepted ==
    ASSUME SafeInv, Named, Buffers, FlushRows, FlushAccepted, [Next]_vars
    PROVE  FlushAccepted'
<1>0. IsManifest(manifest)
  BY DEF SafeInv, Safe
<1>1. ASSUME NEW nm \in Names, NEW columns \in ColumnLists, Create(nm, columns)
      PROVE  FlushAccepted'
  <2> DEFINE n == CreateTable(manifest, nm, columns)
  <2>1. IsManifest(n) /\ CommitTo(n) /\ UNCHANGED buffer
    BY <1>1, CreateTableEdit DEF SafeInv, Safe, EditOK, Create
  <2>2. PICK e : n.tables = manifest.tables \union {e} /\ e.segments = {}
    BY <1>0, CreateTableParts
  <2> HIDE DEF n
  <2> QED
    BY <2>1, <2>2, MoreKeeps, AcceptedCommit
<1>2. ASSUME NEW nm, NEW c, NEW kills, Delete(nm, c, kills)
      PROVE  FlushAccepted'
  <2>1. PICK t \in manifest.tables : CommitTo(AddTombstone(manifest, t, c, kills))
    BY <1>2 DEF Delete
  <2> DEFINE n == AddTombstone(manifest, t, c, kills)
  <2>2. EditOK(manifest, n, {}, next_id)
    BY AddTombstoneEdit DEF SafeInv, Safe
  <2>3. \E u : Rebuilt(manifest, n, t, u)
    BY <1>0, AddTombstoneParts
  <2>4. IsManifest(n) /\ CommitTo(n) /\ UNCHANGED buffer
    BY <1>2, <2>1, <2>2 DEF EditOK, Delete
  <2> HIDE DEF n
  <2> QED
    BY <2>3, <2>4, RebuiltKeeps, AcceptedCommit
<1>3. ASSUME NEW nm, Truncate(nm)
      PROVE  FlushAccepted'
  <2>1. PICK t \in manifest.tables : CommitTo(TruncateTable(manifest, t))
    BY <1>3 DEF Truncate
  <2> DEFINE n == TruncateTable(manifest, t)
  <2>2. EditOK(manifest, n, {}, next_id)
    BY TruncateEdit DEF SafeInv, Safe
  <2>3. \E u : Rebuilt(manifest, n, t, u)
    BY <1>0, TruncateParts
  <2>4. IsManifest(n) /\ CommitTo(n) /\ UNCHANGED buffer
    BY <1>3, <2>1, <2>2 DEF EditOK, Truncate
  <2> HIDE DEF n
  <2> QED
    BY <2>3, <2>4, RebuiltKeeps, AcceptedCommit
<1>4. ASSUME NEW nm, Drop(nm)
      PROVE  FlushAccepted'
  <2>1. PICK t \in manifest.tables : t.name = nm /\ CommitTo(DropTable(manifest, t))
    BY <1>4 DEF Drop
  <2> DEFINE n == DropTable(manifest, t)
  <2>2. EditOK(manifest, n, {}, next_id)
    BY DropTableEdit DEF SafeInv, Safe
  <2>3. n.tables = manifest.tables \ {t}
    BY <1>0, DropTableParts
  <2>4. /\ IsManifest(n) /\ CommitTo(n) /\ UNCHANGED buffer
        /\ ~BufferHolds(pending \union in_flight, t.name)
    BY <1>4, <2>1, <2>2 DEF EditOK, Drop, BufferHolds
  <2> HIDE DEF n
  <2>5. Keeps(n)
    BY <2>3, <2>4 DEF Keeps
  <2> QED
    BY <2>4, <2>5, AcceptedCommit
<1>5. ASSUME NEW nm, Undrop(nm)
      PROVE  FlushAccepted'
  <2>1. PICK r \in manifest.retired : CommitTo(UndropTable(manifest, r))
    BY <1>5 DEF Undrop
  <2> DEFINE n == UndropTable(manifest, r)
  <2>2. EditOK(manifest, n, {}, next_id)
    BY UndropTableEdit DEF SafeInv, Safe
  <2>3. manifest.tables \subseteq n.tables
    BY <1>0, UndropTableParts
  <2>4. IsManifest(n) /\ CommitTo(n) /\ UNCHANGED buffer
    BY <1>5, <2>1, <2>2 DEF EditOK, Undrop
  <2> HIDE DEF n
  <2> QED
    BY <2>3, <2>4, MoreKeeps, AcceptedCommit
<1>6. ASSUME NEW nm, Revert(nm)
      PROVE  FlushAccepted'
  <2>1. PICK cur \in manifest.tables, r \in manifest.retired :
           /\ cur.name = nm
           /\ CanRevertTable(manifest, r, cur)
           /\ CommitTo(RevertTable(manifest, r, cur))
           /\ pending' = ProjectPending(nm, cur.schema, r.entry.schema)
    BY <1>6 DEF Revert
  <2> DEFINE n == RevertTable(manifest, r, cur)
  <2>2. EditOK(manifest, n, {}, next_id)
    BY RevertTableEdit DEF SafeInv, Safe
  <2>3. PICK v : /\ n.tables = (manifest.tables \ {cur}) \union {v}
                 /\ v.name = r.entry.name /\ v.schema = r.entry.schema
    <3>1. \E v, q : /\ n.tables = (manifest.tables \ {cur}) \union {v}
                    /\ v.name = r.entry.name /\ v.schema = r.entry.schema
      BY <1>0, RevertTableParts
    <3> QED
      BY <3>1
  <2>4. IsManifest(n) /\ CommitTo(n)
    BY <2>1, <2>2 DEF EditOK
  <2>5. /\ v.name = cur.name
        /\ pending' = ProjectPending(cur.name, cur.schema, v.schema)
        /\ ~BufferHolds(in_flight, cur.name)
        /\ UNCHANGED <<in_flight, flushing>>
    BY <1>6, <2>1, <2>3 DEF CanRevertTable, Revert
  <2> HIDE DEF n
  <2> QED
    BY <2>3, <2>4, <2>5, AcceptedProject
<1>7. ASSUME NEW j \in manifest.jobs, JobSwap(j)
      PROVE  FlushAccepted'
  <2>0. PICK t \in manifest.tables : \E u, n :
             /\ IsManifest(n) /\ CommitTo(n)
             /\ n.tables = (manifest.tables \ {t}) \union {u}
             /\ u.name = t.name /\ u.schema = j.target.schema
             /\ ~BufferHolds(in_flight, t.name)
             /\ pending' = ProjectPending(t.name, t.schema, j.target.schema)
    BY <1>7, JobSwapParts
  <2>1. PICK u, n :
             /\ IsManifest(n) /\ CommitTo(n)
             /\ n.tables = (manifest.tables \ {t}) \union {u}
             /\ u.name = t.name /\ u.schema = j.target.schema
             /\ ~BufferHolds(in_flight, t.name)
             /\ pending' = ProjectPending(t.name, t.schema, j.target.schema)
    BY <2>0
  <2>2. UNCHANGED <<in_flight, flushing>>
    BY <1>7 DEF JobSwap
  <2>3. pending' = ProjectPending(t.name, t.schema, u.schema)
    BY <2>1
  <2> QED
    BY <2>1, <2>2, <2>3, AcceptedProject
<1>8. ASSUME NEW nm \in Names, NEW r \in Rows, Write(nm, r)
      PROVE  FlushAccepted'
  <2>1. PICK t \in manifest.tables :
           /\ t.name = nm
           /\ pending' = pending \union
                {[table |-> nm, row |-> r, cols |-> BatchCols(t.schema)]}
    BY <1>8 DEF Write
  <2> DEFINE new == [table |-> nm, row |-> r, cols |-> BatchCols(t.schema)]
  <2>2. new.table = nm /\ new.cols = BatchCols(t.schema)
    OBVIOUS
  <2>3. Cols(t.schema) = {c.col : c \in BatchCols(t.schema)}
    <3> DEFINE X == BatchCols(t.schema)
    <3>1. \A f \in t.schema : \E c \in X : c.col = f.col
      <4> TAKE f \in t.schema
      <4>1. [col |-> f.col, birth |-> f.birth] \in X
        BY DEF BatchCols
      <4> QED
        BY <4>1
    <3>2. \A c \in X : \E f \in t.schema : c.col = f.col
      BY DEF BatchCols
    <3> HIDE DEF X
    <3>3. Cols(t.schema) \subseteq {c.col : c \in X}
      BY <3>1 DEF Cols
    <3>4. {c.col : c \in X} \subseteq Cols(t.schema)
      BY <3>2 DEF Cols
    <3> QED
      BY <3>3, <3>4 DEF X
  <2> HIDE DEF new
  <2>4. Cols(t.schema) = {c.col : c \in new.cols}
    BY <2>2, <2>3
  <2>5. UNCHANGED <<manifest, in_flight, flushing>> /\ pending' = pending \union {new}
    BY <1>8, <2>1 DEF Write, new
  <2> QED
    BY <2>1, <2>2, <2>4, <2>5 DEF FlushAccepted
<1>9. CASE FlushWrite
  <2>1. UNCHANGED <<manifest, pending, in_flight>>
    BY <1>9 DEF FlushWrite
  <2>2. \A p \in flushing' : \E t \in manifest.tables :
           p.table = t.name /\ p.seg.field_ids = Fids(t.schema)
    BY <1>9, FlushWriteParts
  <2>3. \A p \in flushing' : \E t \in manifest.tables :
           t.name = p.table /\ CanAddSegments(t, {p.seg})
    BY <2>2 DEF CanAddSegments
  <2> QED
    BY <2>1, <2>3 DEF FlushAccepted
<1>10. CASE FlushCommit
  <2>1. \A p \in flushing : IsSegment(p.seg) /\ p.seg.id < next_id
    BY DEF SafeInv, Safe, Fresh
  <2>2. /\ AddFlushed.tables = {Grown(t) : t \in manifest.tables}
        /\ \A t \in manifest.tables :
             Grown(t).name = t.name /\ Grown(t).schema = t.schema
    BY <1>0, <2>1, AddFlushedParts
  <2>3. IsManifest(AddFlushed)
    BY <2>1, AddFlushedEdit DEF SafeInv, Safe, EditOK
  <2>4. manifest'.tables = AddFlushed.tables
    BY <1>10, <2>3, NextVersionShape DEF FlushCommit, CommitTo
  <2>5. Keeps(manifest')
    BY <2>2, <2>4 DEF Keeps
  <2>6. /\ pending' \union in_flight' \subseteq pending \union in_flight
        /\ flushing' \subseteq flushing
    BY <1>10 DEF FlushCommit, Idle
  <2> QED
    BY <2>5, <2>6, AcceptedFrame
<1>11. ASSUME UNCHANGED manifest,
              pending' \union in_flight' \subseteq pending \union in_flight,
              flushing' \subseteq flushing
       PROVE  FlushAccepted'
  BY <1>11, MoreKeeps, AcceptedFrame
<1>12. CASE FlushTake \/ FlushFail \/ Reopen \/ UNCHANGED vars
  <2>1. /\ UNCHANGED manifest
        /\ pending' \union in_flight' \subseteq pending \union in_flight
        /\ flushing' \subseteq flushing
    BY <1>12 DEF FlushTake, FlushFail, Reopen, vars, Idle
  <2> QED
    BY <1>11, <2>1
<1>13. ASSUME NEW w \in Workers, CompactCommit(w) \/ JobAdvance(w) \/ Abandon(w)
       PROVE  FlushAccepted'
  <2>1. CASE CompactCommit(w)
    <3>0. PICK t \in manifest.tables : \E v, n :
            /\ CommitTo(n) /\ EditOK(manifest, n, SegIds(work[w].adds), next_id)
            /\ Rebuilt(manifest, n, t, v)
      BY <2>1, CompactCommitParts
    <3>1. PICK v, n : /\ CommitTo(n) /\
                           EditOK(manifest, n, SegIds(work[w].adds), next_id)
                      /\ Rebuilt(manifest, n, t, v)
      BY <3>0
    <3>2. UNCHANGED buffer /\ IsManifest(n)
      BY <2>1, <3>1 DEF CompactCommit, EditOK
    <3> QED
      BY <3>1, <3>2, RebuiltKeeps, AcceptedCommit
  <2>2. CASE JobAdvance(w)
    <3> DEFINE x == work[w]
    <3>1. PICK j \in manifest.jobs, t \in manifest.tables :
             /\ t.id = j.source
             /\ CommitTo(AdvanceJob(manifest, t, j, x.reused, x.rewritten, x.segments))
      BY <2>2 DEF JobAdvance
    <3> DEFINE n == AdvanceJob(manifest, t, j, x.reused, x.rewritten, x.segments)
    <3>2. x.kind = "advance" /\ x.segments = WorkSegs(x)
      BY <2>2 DEF JobAdvance, WorkSegs
    <3>3. \A s \in x.segments : IsSegment(s) /\ s.id < next_id
      BY <3>2 DEF SafeInv, Safe, Fresh
    <3> HIDE DEF x
    <3>4. /\ IdsBelow(manifest) /\ next_id \in Nat /\
               manifest.next_segment_id <= next_id
      BY DEF SafeInv, Safe
    <3>5. EditOK(manifest, n, SegIds(x.segments), next_id)
      BY <1>0, <3>3, <3>4, AdvanceJobEdit
    <3>6. n.tables = manifest.tables
      BY <1>0, <3>3, AdvanceJobParts
    <3>7. IsManifest(n) /\ CommitTo(n) /\ UNCHANGED buffer
      BY <2>2, <3>1, <3>5 DEF EditOK, JobAdvance
    <3> HIDE DEF n
    <3> QED
      BY <3>6, <3>7, MoreKeeps, AcceptedCommit
  <2>3. CASE Abandon(w)
    <3>1. UNCHANGED <<manifest, pending, in_flight, flushing>>
      BY <2>3 DEF Abandon, buffer
    <3> QED
      BY <1>11, <3>1
  <2> QED
    BY <1>13, <2>1, <2>2, <2>3
<1>14. ASSUME NEW nm, NEW ops, Alter(nm, ops)
       PROVE  FlushAccepted'
  <2>1. PICK t \in manifest.tables :
           CanCreateJob(manifest, t, ops) /\ CommitTo(CreateJob(manifest, t, ops))
    BY <1>14 DEF Alter
  <2> DEFINE n == CreateJob(manifest, t, ops)
  <2>2. EditOK(manifest, n, {}, next_id)
    BY <2>1, CreateJobEdit DEF SafeInv, Safe
  <2>3. n.tables = manifest.tables
    BY <1>0, CreateJobParts
  <2>4. IsManifest(n) /\ CommitTo(n) /\ UNCHANGED buffer
    BY <1>14, <2>1, <2>2 DEF EditOK, Alter
  <2> HIDE DEF n
  <2> QED
    BY <2>3, <2>4, MoreKeeps, AcceptedCommit
<1>15. ASSUME NEW j \in manifest.jobs, Cancel(j)
       PROVE  FlushAccepted'
  <2> DEFINE n == CancelJob(manifest, j)
  <2>1. EditOK(manifest, n, {}, next_id)
    BY CancelJobEdit DEF SafeInv, Safe
  <2>2. n.tables = manifest.tables
    BY <1>0, CancelJobParts
  <2>3. IsManifest(n) /\ CommitTo(n) /\ UNCHANGED buffer
    BY <1>15, <2>1 DEF EditOK, Cancel
  <2> HIDE DEF n
  <2> QED
    BY <2>2, <2>3, MoreKeeps, AcceptedCommit
<1>16. ASSUME NEW expired \in SUBSET manifest.retired, Expire(expired)
       PROVE  FlushAccepted'
  <2> DEFINE n == ExpireRetired(manifest, expired)
  <2>1. EditOK(manifest, n, {}, next_id)
    BY ExpireRetiredEdit DEF SafeInv, Safe
  <2>2. n.tables = manifest.tables
    BY <1>0, ExpireRetiredParts
  <2>3. IsManifest(n) /\ CommitTo(n) /\ UNCHANGED buffer
    BY <1>16, <2>1 DEF EditOK, Expire
  <2> HIDE DEF n
  <2> QED
    BY <2>2, <2>3, MoreKeeps, AcceptedCommit
<1>17. ASSUME NEW ids \in SUBSET GarbageIds(manifest), Forget(ids)
       PROVE  FlushAccepted'
  <2> DEFINE n == ForgetGarbage(manifest, ids)
  <2>1. EditOK(manifest, n, {}, next_id)
    BY ForgetGarbageEdit DEF SafeInv, Safe
  <2>2. n.tables = manifest.tables
    BY <1>0, ForgetGarbageParts
  <2>3. IsManifest(n) /\ CommitTo(n) /\ UNCHANGED buffer
    BY <1>17, <2>1 DEF EditOK, Forget
  <2> HIDE DEF n
  <2> QED
    BY <2>2, <2>3, MoreKeeps, AcceptedCommit
<1>18. ASSUME NEW w \in Workers, NEW nm, CompactPrepare(w, nm)
       PROVE  FlushAccepted'
  BY <1>11, <1>18 DEF CompactPrepare, buffer
<1>19. ASSUME NEW w \in Workers, NEW j \in manifest.jobs, JobPrepare(w, j)
       PROVE  FlushAccepted'
  BY <1>11, <1>19 DEF JobPrepare, buffer
<1> QED
  BY <1>1, <1>2, <1>3, <1>4, <1>5, <1>6, <1>7, <1>8, <1>9, <1>10, <1>12, <1>13,
     <1>14, <1>15, <1>16, <1>17, <1>18, <1>19 DEF Next

-----------------------------------------------------------------------------
(* The theorems.                                                           *)

RowsAll == TypeInv /\ RowsInv /\ FlushAccepted

(* An empty store holds no row.                                            *)
LEMMA RowsInit == Init => RowsInv /\ FlushAccepted
<1> SUFFICES ASSUME Init PROVE RowsInv /\ FlushAccepted
  OBVIOUS
<1>1. /\ manifest.tables = {} /\ manifest.retired = {} /\ manifest.jobs = {}
      /\ pending = {} /\ in_flight = {} /\ flushing = {} /\ committed = {}
      /\ \A w \in Workers : work[w] = NoWork
  BY DEF Init, EmptyManifest, Idle
<1>2. Entries(manifest) = {} /\ SegmentsIn(manifest) = {}
  BY <1>1 DEF Entries, SegmentsIn
<1>3. ManifestRows(manifest, committed)
  BY <1>1, <1>2 DEF ManifestRows, SameFile, RowsOf, JobsCarry, Successors
<1>4. \A w \in Workers : WorkRows(manifest, work[w]) /\ SpentBy(work[w]) = {}
  BY <1>1, NoWorkRows
<1>5. StoredRows
  BY <1>1, <1>3, <1>4 DEF StoredRows, WorkersRows, Spent
<1>6. BufferRows
  BY <1>1 DEF BufferRows, Buffered
<1>7. FlushRows
  BY <1>1 DEF FlushRows
<1>8. FlushAccepted
  BY <1>1 DEF FlushAccepted
<1> QED
  BY <1>5, <1>6, <1>7, <1>8 DEF RowsInv

(* The invariant implies that a row is stored once.                        *)
LEMMA RowsInvIsRowsOnce == RowsInv => RowsOnce
<1> SUFFICES ASSUME RowsInv PROVE RowsOnce
  OBVIOUS
<1>1. \A e \in Entries(manifest) : \A s, u \in e.segments :
         s.rows \intersect u.rows # {} => s = u
  BY DEF RowsInv, StoredRows, ManifestRows, Apart
<1>2. ASSUME NEW e \in manifest.tables
      PROVE  RowsOf(e.segments) \intersect Buffered = {}
  <2>1. e \in Entries(manifest)
    BY DEF Entries
  <2>2. \A s \in e.segments : s \in SegmentsIn(manifest)
    BY <2>1, InSegments
  <2>3. RowsOf(e.segments) \subseteq RowsOf(SegmentsIn(manifest))
    BY <2>2 DEF RowsOf
  <2>4. RowsOf(SegmentsIn(manifest)) \subseteq committed /\
        Buffered \intersect committed = {}
    BY DEF RowsInv, StoredRows, ManifestRows, BufferRows
  <2> QED
    BY <2>3, <2>4
<1>3. \A b, c \in pending \union in_flight : b.row = c.row => b = c
  BY DEF RowsInv, BufferRows
<1> QED
  BY <1>1, <1>2, <1>3 DEF RowsOnce

(* The inductive invariant, for any number of tables, rows, workers, jobs  *)
(* and commits.                                                            *)
THEOREM RowsAlways == Spec => []RowsAll
<1>1. RowsAll /\ [Next]_vars => RowsAll'
  <2> SUFFICES ASSUME RowsAll, [Next]_vars PROVE RowsAll'
    OBVIOUS
  <2>1. SafeInv /\ Named /\ next_id <= MaxId + 1 /\ Buffers /\ RowsInv /\ FlushAccepted
    BY DEF RowsAll, TypeInv
  <2>2. BufferRows /\ FlushRows
    BY <2>1 DEF RowsInv
  <2>3. TypeInv'
    BY <2>1, NextSafe, NextNamed, NextAlloc, NextBuffers DEF TypeInv
  <2>4. (BufferRows /\ FlushRows)'
    BY <2>1, <2>2, NextBufferRows
  <2>5. StoredRows'
    BY <2>1, NextStored
  <2>6. FlushAccepted'
    BY <2>1, <2>2, NextAccepted
  <2>7. RowsInv'
    BY <2>4, <2>5 DEF RowsInv
  <2> QED
    BY <2>3, <2>6, <2>7 DEF RowsAll
<1>2. Init => RowsAll
  BY RowsInit, TypeInit DEF RowsAll
<1> QED
  BY <1>1, <1>2, PTL DEF Spec

(* A flush is never refused: the tables of buffered batches stay, with the *)
(* columns the batches were checked against, because DROP looks at the     *)
(* whole buffer, and a swap or a revert waits for the flush in flight and  *)
(* projects what is pending in its own commit.                             *)
THEOREM FlushesAccepted == Spec => []FlushAccepted
<1>1. RowsAll => FlushAccepted
  BY DEF RowsAll
<1> QED
  BY <1>1, RowsAlways, PTL

(* No table definition holds a row twice and no buffered row is stored     *)
(* already, although merges, job steps, swaps and reverts copy rows from   *)
(* manifests they read earlier: each commit checks that its inputs are     *)
(* still listed (remove_segments, advance_job, the revert's successor      *)
(* test), and that is shown to be enough.                                  *)
THEOREM RowsAlwaysOnce == Spec => []RowsOnce
<1>1. RowsAll => RowsOnce
  BY RowsInvIsRowsOnce DEF RowsAll
<1> QED
  BY <1>1, RowsAlways, PTL

(* A job's target holds exactly the rows of the source segments it has     *)
(* handled, and the source still lists them, whatever else commits while   *)
(* the job runs.                                                           *)
THEOREM JobsAlwaysCarry == Spec => []JobCarriesHandled
<1>1. RowsAll => JobCarriesHandled
  BY DEF RowsAll, RowsInv, StoredRows, ManifestRows, JobsCarry, JobCarriesHandled
<1> QED
  BY <1>1, RowsAlways, PTL
=============================================================================
