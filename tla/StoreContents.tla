--------------------------- MODULE StoreContents ---------------------------
(***************************************************************************)
(* TableStore implements TableContents: every step of the store that was   *)
(* asked for a create, a delete, a truncate, a drop, an undrop or an       *)
(* expiry changes what a reader sees by exactly that; a flush adds its     *)
(* rows, once each; and every other step changes nothing of it, neither    *)
(* which rows a scan returns nor how often.                                *)
(*                                                                         *)
(* Three things have to be shown.  What a delete removed stays removed: no *)
(* merge, swap, revert or undrop moves a row past a tombstone or finds a   *)
(* table without the tombstones it was read under.  What a delete did not  *)
(* remove stays: no tombstone comes back over rows younger than it, and    *)
(* what takes the place of segments holds their rows.  Seqs decide both,   *)
(* so the invariant is about the order of seqs and versions, and about     *)
(* what a revert may find under the name it restores.  And no row is       *)
(* returned twice: the steps are followed on sets of rows first, and       *)
(* RowsOnce of StoreRows then says that a set is all there is to count.    *)
(***************************************************************************)
EXTENDS StoreRows, FiniteSetTheorems

-----------------------------------------------------------------------------
(* The invariant.                                                          *)

(* Every row of the table was flushed after version v.                     *)
After(v, e) == \A s \in e.segments : s.rows = {} \/ v < s.seq

(* The tombstones T are, for a reader, among U.                            *)
KillsIn(T, U) == \A k \in T : \E l \in U : l.seq = k.seq /\ l.kills = k.kills

(* The live table c deletes what the swapped definition r deleted, and     *)
(* what it deletes besides was deleted later.                              *)
SameKills(r, c) ==
    /\ KillsIn(r.entry.tombstones, c.tombstones)
    /\ KillsIn({l \in c.tombstones : l.seq <= r.version}, r.entry.tombstones)

(* Seqs and versions are of the past.                                      *)
EntryPast(e, v) ==
    /\ \A s \in e.segments : s.seq \in Nat /\ s.seq <= v
    /\ \A k \in e.tombstones : IsTombstone(k) /\ k.seq <= v
Past(m) ==
    /\ \A t \in m.tables : EntryPast(t, m.version)
    /\ \A j \in m.jobs : EntryPast(j.target, m.version) /\ j.target.tombstones = {}
    /\ \A r \in m.retired :
         r.version \in Nat /\ r.version <= m.version /\ EntryPast(r.entry, r.version)
    /\ \A r, q \in m.retired : r.version = q.version => r = q

(* Definitions that UNDROP and REVERT may bring back.                      *)
Dropped(m) == {d \in m.retired : d.reason = "dropped"}
Swapped(m) == {r \in m.retired : r.reason = "swapped" /\ "revert" \in Ops}

(* A table of a name holds nothing from before the last one was dropped.   *)
DropOrder(m) ==
    \A d \in Dropped(m) :
        /\ \A t \in m.tables : t.name = d.entry.name => After(d.version, t)
        /\ \A c \in Dropped(m) :
              c.entry.name = d.entry.name /\ d.version < c.version =>
                After(d.version, c.entry)

(* What is or may become live under the name of a swapped definition has   *)
(* its deletes, or only younger rows; and a name given up was dropped      *)
(* after the swap.                                                         *)
Follows(r, c) == c.name = r.entry.name => SameKills(r, c) \/ After(r.version, c)
Superseded(m, r) ==
    \/ HasTable(m, r.entry.name)
    \/ \E d \in Dropped(m) : d.entry.name = r.entry.name /\ r.version < d.version
SwapOrder(m) ==
    \A r \in Swapped(m) :
        /\ \A t \in m.tables : Follows(r, t)
        /\ \A d \in Dropped(m) : r.version < d.version => Follows(r, d.entry)
        /\ Superseded(m, r)
ManifestOrder(m) == Past(m) /\ DropOrder(m) /\ SwapOrder(m)

(* No delete that is or may come back in the table of a merge falls        *)
(* between the rows it took and the seq it gives them.                     *)
Killers(m) == m.tables \union {r.entry : r \in Dropped(m) \union Swapped(m)}
MergeClear(m, x) ==
    /\ x.adds # {}
    /\ \A a \in x.adds : \A s \in SegmentsIn(m) : s.id \in x.removes =>
        /\ s.seq <= a.seq
        /\ \A f \in Killers(m) : f.name = x.table /\ s.rows # {} =>
              \A k \in f.tombstones : ~(s.seq < k.seq /\ k.seq <= a.seq)
WorkPast(m, x) ==
    /\ \A s \in WorkSegs(x) : s.seq \in Nat /\ s.seq <= m.version
    /\ x.kind = "merge" => MergeClear(m, x)

(* A flush writes what is in flight, table by table.                       *)
FlushExact ==
    /\ \A p \in flushing : \A b \in in_flight : b.table = p.table => b.row \in p.seg.rows
    /\ \A p \in flushing : \A i \in p.seg.rows :
          \E b \in in_flight : b.table = p.table /\ b.row = i
    /\ flushing # {} => \A b \in in_flight : \E p \in flushing : p.table = b.table

WorkersPast == \A w \in Workers : WorkPast(manifest, work[w])
ContentsInv == ManifestOrder(manifest) /\ WorkersPast /\ FlushExact

(* gc expires the oldest definitions first, which it does unless the wall  *)
(* clock is set back.  Nothing is asked of a store without REVERT.         *)
OldestFirst(expired) ==
    \A r \in expired, q \in manifest.retired : q.version < r.version => q \in expired
ExpiryOrder ==
    "revert" \in Ops =>
      \A expired \in SUBSET manifest.retired : Expire(expired) => OldestFirst(expired)

-----------------------------------------------------------------------------
(* What a reader sees.                                                     *)

(* The rows of segments, one by one.                                       *)
LEMMA InSeqRows ==
    ASSUME NEW S, NEW q, NEW x
    PROVE  <<q, x>> \in SeqRows(S) <=> \E s \in S : s.seq = q /\ x \in s.rows
  BY DEF SeqRows

(* A scan returns the rows no later tombstone matches.                     *)
LEMMA InVisible ==
    ASSUME NEW t, NEW x
    PROVE  x \in Visible(t) <=>
             \E s \in t.segments : /\ x \in s.rows
                                   /\ \A k \in t.tombstones : k.seq > s.seq => x \notin k.kills
  BY DEF Visible, TombstonesFor

(* It depends on the rows with their seqs and on the deletes only.         *)
LEMMA VisibleWithin ==
    ASSUME NEW t, NEW u, SeqRows(t.segments) \subseteq SeqRows(u.segments),
           KillsIn(u.tombstones, t.tombstones)
    PROVE  Visible(t) \subseteq Visible(u)
<1> SUFFICES ASSUME NEW x \in Visible(t) PROVE x \in Visible(u)
  OBVIOUS
<1>1. PICK s \in t.segments : /\ x \in s.rows
                              /\ \A k \in t.tombstones : k.seq > s.seq => x \notin k.kills
  BY InVisible
<1>2. <<s.seq, x>> \in SeqRows(t.segments)
  BY <1>1, InSeqRows
<1>3. PICK o \in u.segments : o.seq = s.seq /\ x \in o.rows
  BY <1>2, InSeqRows
<1>4. ASSUME NEW l \in u.tombstones, l.seq > o.seq PROVE x \notin l.kills
  <2>1. PICK k \in t.tombstones : k.seq = l.seq /\ k.kills = l.kills
    BY DEF KillsIn
  <2>2. k.seq > s.seq
    BY <1>3, <1>4, <2>1
  <2> QED
    BY <1>1, <2>1, <2>2
<1> QED
  BY <1>3, <1>4, InVisible

(* Both ways.                                                              *)
LEMMA SameVisible ==
    ASSUME NEW t, NEW u, SeqRows(t.segments) = SeqRows(u.segments),
           KillsIn(u.tombstones, t.tombstones), KillsIn(t.tombstones, u.tombstones)
    PROVE  Visible(t) = Visible(u)
<1>1. Visible(t) \subseteq Visible(u)
  BY VisibleWithin
<1>2. Visible(u) \subseteq Visible(t)
  BY VisibleWithin
<1> QED
  BY <1>1, <1>2

(* Deletes are among themselves.                                           *)
LEMMA KillsInSelf ==
    /\ \A T, U : T \subseteq U => KillsIn(T, U)
    /\ \A T, U, V : KillsIn(T, U) /\ KillsIn(U, V) => KillsIn(T, V)
<1>1. ASSUME NEW T, NEW U, T \subseteq U PROVE KillsIn(T, U)
  BY <1>1 DEF KillsIn
<1>2. ASSUME NEW T, NEW U, NEW V, KillsIn(T, U), KillsIn(U, V) PROVE KillsIn(T, V)
  <2> SUFFICES ASSUME NEW k \in T
               PROVE  \E l \in V : l.seq = k.seq /\ l.kills = k.kills
    BY DEF KillsIn
  <2>1. PICK j \in U : j.seq = k.seq /\ j.kills = k.kills
    BY <1>2 DEF KillsIn
  <2>2. PICK l \in V : l.seq = j.seq /\ l.kills = j.kills
    BY <1>2 DEF KillsIn
  <2> QED
    BY <2>1, <2>2
<1> QED
  BY <1>1, <1>2

(* Tombstones renamed for another schema delete what they deleted.         *)
LEMMA RenameKills ==
    ASSUME NEW T, \A k \in T : IsTombstone(k), NEW from, NEW to
    PROVE  LET R == RenameTombstones(T, from, to)
           IN  /\ KillsIn(T, R) /\ KillsIn(R, T)
               /\ \A l \in R : IsTombstone(l)
<1> DEFINE R == RenameTombstones(T, from, to)
<1>1. ASSUME NEW k \in T, NEW c
      PROVE  LET l == [k EXCEPT !.col = c]
             IN  IsTombstone(l) /\ l.seq = k.seq /\ l.kills = k.kills
  <2>1. k = [seq |-> k.seq, col |-> k.col, fid |-> k.fid, birth |-> k.birth,
             kills |-> k.kills] /\ k.seq \in Nat
    BY DEF IsTombstone
  <2> DEFINE l == [k EXCEPT !.col = c]
  <2>2. l = [seq |-> k.seq, col |-> c, fid |-> k.fid, birth |-> k.birth,
             kills |-> k.kills]
    BY <2>1
  <2> HIDE DEF l
  <2> QED
    BY <2>1, <2>2 DEF IsTombstone, l
<1> DEFINE C(k) == (CHOOSE g \in to : g.fid = FieldNamed(from, k.col).fid).col
<1>2. R = {[k EXCEPT !.col = C(k)] : k \in T}
  BY DEF RenameTombstones
<1> HIDE DEF C, R
<1>3. KillsIn(T, R)
  <2> SUFFICES ASSUME NEW k \in T
               PROVE  \E l \in R : l.seq = k.seq /\ l.kills = k.kills
    BY DEF KillsIn
  <2>1. [k EXCEPT !.col = C(k)] \in R
    BY <1>2
  <2> QED
    BY <1>1, <2>1
<1>4. ASSUME NEW l \in R
      PROVE  IsTombstone(l) /\ \E k \in T : k.seq = l.seq /\ k.kills = l.kills
  <2>1. PICK k \in T : l = [k EXCEPT !.col = C(k)]
    BY <1>2
  <2> QED
    BY <1>1, <2>1
<1>5. KillsIn(R, T)
  BY <1>4 DEF KillsIn
<1> QED
  BY <1>3, <1>4, <1>5 DEF R

-----------------------------------------------------------------------------
(* How a table changes between two versions.                               *)

(* The rows of u came after version v, or were in t at no later a seq.     *)
RowsKept(t, u, v) ==
    \A s \in u.segments :
        s.rows = {} \/ v < s.seq \/ \E o \in t.segments : o.rows # {} /\ o.seq <= s.seq
(* u deletes what t deleted, and what it deletes besides is later than v.  *)
KillsKept(t, u, v) ==
    /\ KillsIn(t.tombstones, u.tombstones)
    /\ \A l \in u.tombstones :
         v < l.seq \/ \E k \in t.tombstones : k.seq = l.seq /\ k.kills = l.kills

(* A bound that has passed is kept.                                        *)
LEMMA PastLonger ==
    ASSUME NEW e, NEW v \in Nat, NEW w \in Nat, v <= w, EntryPast(e, v)
    PROVE  EntryPast(e, w)
<1>1. \A s \in e.segments : s.seq \in Nat /\ s.seq <= w
  BY DEF EntryPast
<1>2. \A k \in e.tombstones : IsTombstone(k) /\ k.seq <= w
  <2> TAKE k \in e.tombstones
  <2>1. IsTombstone(k) /\ k.seq <= v /\ k.seq \in Nat
    BY DEF EntryPast, IsTombstone
  <2> QED
    BY <2>1
<1> QED
  BY <1>1, <1>2 DEF EntryPast

(* Rows younger than a version are younger than the ones before it.        *)
LEMMA AfterEarlier ==
    ASSUME NEW e, NEW v \in Nat, NEW q \in Nat, q <= v, After(v, e),
           NEW w, EntryPast(e, w)
    PROVE  After(q, e)
  BY DEF After, EntryPast

(* A table keeps its rows younger than a past version.                     *)
LEMMA AfterKept ==
    ASSUME NEW t, NEW u, NEW v \in Nat, NEW q \in Nat, q <= v, RowsKept(t, u, v),
           After(q, t), NEW a, NEW b, EntryPast(t, a), EntryPast(u, b)
    PROVE  After(q, u)
<1> SUFFICES ASSUME NEW s \in u.segments, s.rows # {} PROVE q < s.seq
  BY DEF After
<1>1. s.seq \in Nat
  BY DEF EntryPast
<1>2. CASE v < s.seq
  BY <1>1, <1>2
<1>3. ASSUME NEW o \in t.segments, o.rows # {}, o.seq <= s.seq PROVE q < s.seq
  <2>1. o.seq \in Nat /\ q < o.seq
    BY <1>3 DEF EntryPast, After
  <2> QED
    BY <1>1, <1>3, <2>1
<1> QED
  BY <1>2, <1>3 DEF RowsKept

(* And the deletes of a definition swapped before.                         *)
LEMMA KillsFollow ==
    ASSUME NEW t, NEW u, NEW v \in Nat, NEW r, r.version \in Nat, r.version <= v,
           KillsKept(t, u, v), SameKills(r, t), NEW a, EntryPast(u, a)
    PROVE  SameKills(r, u)
<1>1. KillsIn(r.entry.tombstones, u.tombstones)
  BY KillsInSelf DEF SameKills, KillsKept
<1>2. ASSUME NEW l \in u.tombstones, l.seq <= r.version
      PROVE  \E k \in r.entry.tombstones : k.seq = l.seq /\ k.kills = l.kills
  <2>1. l.seq \in Nat
    BY DEF EntryPast, IsTombstone
  <2>2. ~(v < l.seq)
    BY <1>2, <2>1
  <2>3. PICK j \in t.tombstones : j.seq = l.seq /\ j.kills = l.kills
    BY <2>2 DEF KillsKept
  <2>4. PICK k \in r.entry.tombstones : k.seq = j.seq /\ k.kills = j.kills
    BY <1>2, <2>3 DEF SameKills, KillsIn
  <2> QED
    BY <2>3, <2>4
<1>3. KillsIn({l \in u.tombstones : l.seq <= r.version}, r.entry.tombstones)
  BY <1>2 DEF KillsIn
<1> QED
  BY <1>1, <1>3 DEF SameKills

(* The same rows at the same seqs.                                         *)
LEMMA SeqRowsKept ==
    ASSUME NEW t, NEW u, SeqRows(u.segments) \subseteq SeqRows(t.segments), NEW v,
           NEW a, EntryPast(u, a)
    PROVE  RowsKept(t, u, v)
<1> SUFFICES ASSUME NEW s \in u.segments, s.rows # {}
             PROVE  \E o \in t.segments : o.rows # {} /\ o.seq <= s.seq
  BY DEF RowsKept
<1>1. PICK x : x \in s.rows
  OBVIOUS
<1>2. <<s.seq, x>> \in SeqRows(t.segments)
  BY <1>1, InSeqRows
<1>3. PICK o \in t.segments : o.seq = s.seq /\ x \in o.rows
  BY <1>2, InSeqRows
<1>4. s.seq \in Nat
  BY DEF EntryPast
<1> QED
  BY <1>3, <1>4

(* Deletes that are the same both ways.                                    *)
LEMMA SameKillsKept ==
    ASSUME NEW t, NEW u, KillsIn(t.tombstones, u.tombstones),
           KillsIn(u.tombstones, t.tombstones), NEW v
    PROVE  KillsKept(t, u, v)
  BY DEF KillsKept, KillsIn

(* A table that was not touched.                                           *)
LEMMA SelfKept ==
    ASSUME NEW t, NEW v, NEW a, EntryPast(t, a)
    PROVE  RowsKept(t, t, v) /\ KillsKept(t, t, v)
<1>1. RowsKept(t, t, v)
  BY SeqRowsKept
<1> QED
  BY <1>1, SameKillsKept, KillsInSelf

-----------------------------------------------------------------------------
(* What a commit has to keep.                                              *)

(* The next version of a manifest whose entries are of the past.           *)
LEMMA PastFrame ==
    ASSUME NEW m, NEW n, m.version \in Nat, n.version = m.version + 1, Past(m),
           \A t \in n.tables : EntryPast(t, n.version),
           \A j \in n.jobs : EntryPast(j.target, n.version) /\ j.target.tombstones = {},
           \A r \in n.retired : r \in m.retired \/
              (r.version = n.version /\ EntryPast(r.entry, n.version)),
           \A r, q \in n.retired : r \notin m.retired /\ q \notin m.retired => r = q
    PROVE  Past(n)
<1>1. ASSUME NEW r \in n.retired
      PROVE  r.version \in Nat /\ r.version <= n.version /\ EntryPast(r.entry, r.version)
  <2>1. CASE r \in m.retired
    <3>1. r.version \in Nat /\ r.version <= m.version /\ EntryPast(r.entry, r.version)
      BY <2>1 DEF Past
    <3> QED
      BY <3>1
  <2>2. CASE r.version = n.version /\ EntryPast(r.entry, n.version)
    BY <2>2
  <2> QED
    BY <2>1, <2>2
<1>2. ASSUME NEW r \in n.retired, NEW q \in n.retired, r.version = q.version
      PROVE  r = q
  <2>1. \A x \in m.retired : x.version \in Nat /\ x.version <= m.version
    BY DEF Past
  <2>2. \A x \in n.retired : x \notin m.retired => x.version = n.version
    OBVIOUS
  <2>3. r \in m.retired <=> q \in m.retired
    BY <1>2, <2>1, <2>2
  <2> QED
    BY <1>2, <2>3 DEF Past
<1> QED
  BY <1>1, <1>2 DEF Past

(* The tables of n are new, or the ones m had under their names.           *)
Descends(m, n) ==
    \A u \in n.tables :
        \/ After(m.version, u)
        \/ \E t \in m.tables :
             /\ t.name = u.name /\ RowsKept(t, u, m.version)
             /\ \/ KillsKept(t, u, m.version)
                \/ \A q \in Swapped(n) :
                     q.entry.name = u.name => q.version <= m.version /\ After(q.version, t)

(* DROP order and swap order, for a commit that drops nothing and brings   *)
(* nothing back from a drop.                                               *)
LEMMA OrderFrame ==
    ASSUME NEW m, NEW n, m.version \in Nat, n.version = m.version + 1,
           ManifestOrder(m), Past(n), Descends(m, n), Dropped(n) \subseteq Dropped(m),
           \A q \in Swapped(n) :
              \/ q \in Swapped(m)
              \/ /\ q.version = n.version
                 /\ \A u \in n.tables : u.name = q.entry.name => SameKills(q, u),
           \A q \in Swapped(n) : Superseded(n, q)
    PROVE  ManifestOrder(n)
<1>1. /\ \A r \in m.retired : r.version \in Nat /\ r.version <= m.version
      /\ \A r \in m.retired : EntryPast(r.entry, r.version)
      /\ \A t \in m.tables : EntryPast(t, m.version)
      /\ \A t \in n.tables : EntryPast(t, n.version)
  BY DEF ManifestOrder, Past
<1>2. Dropped(m) \subseteq m.retired /\ Swapped(m) \subseteq m.retired
  BY DEF Dropped, Swapped
<1>3. ASSUME NEW d \in Dropped(n), NEW u \in n.tables, u.name = d.entry.name
      PROVE  After(d.version, u)
  <2>0. d \in Dropped(m) /\ d.version \in Nat /\ d.version <= m.version
    BY <1>1, <1>2
  <2>1. CASE After(m.version, u)
    BY <1>1, <2>0, <2>1, AfterEarlier
  <2>2. ASSUME NEW t \in m.tables, t.name = u.name, RowsKept(t, u, m.version)
        PROVE  After(d.version, u)
    <3>1. After(d.version, t)
      BY <1>3, <2>0, <2>2 DEF ManifestOrder, DropOrder
    <3> QED
      BY <1>1, <2>0, <2>2, <3>1, AfterKept
  <2> QED
    BY <2>1, <2>2 DEF Descends
<1>4. DropOrder(n)
  <2>1. \A d, c \in Dropped(n) : c.entry.name = d.entry.name /\ d.version < c.version =>
          After(d.version, c.entry)
    BY DEF ManifestOrder, DropOrder
  <2> QED
    BY <1>3, <2>1 DEF DropOrder
<1>5. ASSUME NEW r \in Swapped(n), NEW u \in n.tables, u.name = r.entry.name
      PROVE  SameKills(r, u) \/ After(r.version, u)
  <2>1. CASE r \in Swapped(m)
    <3>0. r.version \in Nat /\ r.version <= m.version
      BY <1>1, <1>2, <2>1
    <3>1. CASE After(m.version, u)
      BY <1>1, <3>0, <3>1, AfterEarlier
    <3>2. ASSUME NEW t \in m.tables, t.name = u.name, RowsKept(t, u, m.version),
                 KillsKept(t, u, m.version)
          PROVE  SameKills(r, u) \/ After(r.version, u)
      <4>1. SameKills(r, t) \/ After(r.version, t)
        BY <1>5, <2>1, <3>2 DEF ManifestOrder, SwapOrder, Follows
      <4>2. CASE SameKills(r, t)
        BY <1>1, <3>0, <3>2, <4>2, KillsFollow
      <4>3. CASE After(r.version, t)
        BY <1>1, <3>0, <3>2, <4>3, AfterKept
      <4> QED
        BY <4>1, <4>2, <4>3
    <3>3. ASSUME NEW t \in m.tables, t.name = u.name, RowsKept(t, u, m.version),
                 After(r.version, t)
          PROVE  After(r.version, u)
      BY <1>1, <3>0, <3>3, AfterKept
    <3> QED
      BY <1>5, <3>1, <3>2, <3>3 DEF Descends
  <2> QED
    BY <1>5, <2>1
<1>6. ASSUME NEW r \in Swapped(n), NEW d \in Dropped(n), r.version < d.version
      PROVE  Follows(r, d.entry)
  <2>0. d \in Dropped(m) /\ d.version \in Nat /\ d.version <= m.version
    BY <1>1, <1>2
  <2>1. CASE r \in Swapped(m)
    BY <1>6, <2>0, <2>1 DEF ManifestOrder, SwapOrder
  <2>2. CASE r.version = n.version
    BY <1>6, <2>0, <2>2
  <2> QED
    BY <2>1, <2>2
<1>7. SwapOrder(n)
  BY <1>5, <1>6 DEF SwapOrder, Follows
<1> QED
  BY <1>4, <1>7 DEF ManifestOrder

(* Tombstones of n that m's tables of the name did not have are new.       *)
KillersFrom(m, n) ==
    \A f \in Killers(n) : \A k \in f.tombstones :
        \/ m.version < k.seq
        \/ \E g \in Killers(m) : g.name = f.name /\ \E l \in g.tombstones : l.seq = k.seq

(* So a merge prepared before stays clear of them.                         *)
LEMMA MergeFrame ==
    ASSUME NEW m, NEW n, m.version \in Nat, NEW new, FromOld(m, n, new),
           KillersFrom(m, n), NEW x, x.removes \intersect new = {}, MergeClear(m, x),
           \A a \in x.adds : a.seq \in Nat /\ a.seq <= m.version,
           \A f \in Killers(n) : \A k \in f.tombstones : k.seq \in Nat
    PROVE  MergeClear(n, x)
<1> SUFFICES ASSUME NEW a \in x.adds, NEW s \in SegmentsIn(n), s.id \in x.removes
             PROVE  /\ s.seq <= a.seq
                    /\ \A f \in Killers(n) : f.name = x.table /\ s.rows # {} =>
                         \A k \in f.tombstones : ~(s.seq < k.seq /\ k.seq <= a.seq)
  BY DEF MergeClear
<1>1. PICK o \in SegmentsIn(m) : Kin(s, o)
  BY DEF FromOld
<1>2. o.id \in x.removes /\ s.seq = o.seq /\ s.rows = o.rows
  BY <1>1 DEF Kin
<1>3. s.seq <= a.seq
  BY <1>2 DEF MergeClear
<1>4. ASSUME NEW f \in Killers(n), f.name = x.table, s.rows # {},
             NEW k \in f.tombstones, s.seq < k.seq, k.seq <= a.seq
      PROVE  FALSE
  <2>1. ~(m.version < k.seq)
    BY <1>4
  <2>2. PICK g \in Killers(m) : g.name = f.name /\ \E l \in g.tombstones : l.seq = k.seq
    BY <2>1 DEF KillersFrom
  <2>3. PICK l \in g.tombstones : l.seq = k.seq
    BY <2>2
  <2>4. ~(o.seq < l.seq /\ l.seq <= a.seq)
    BY <1>2, <1>4, <2>2 DEF MergeClear
  <2> QED
    BY <1>2, <1>4, <2>3, <2>4
<1> QED
  BY <1>3, <1>4

-----------------------------------------------------------------------------
(* The mapping.  Rows are stored once, so how often a scan returns a row   *)
(* is whether it does: the steps are followed on sets of rows, and their   *)
(* counts are taken at the end.                                            *)

(* The rows of a live name, and the dropped definitions with their rows.   *)
ShownRows(m) ==
    [n \in {t.name : t \in m.tables} |-> Visible(CHOOSE t \in m.tables : t.name = n)]
KeptRows(m) ==
    {[name |-> r.entry.name, rows |-> Visible(r.entry), at |-> r.version]
       : r \in {r \in m.retired : r.reason = "dropped"}}

NamesUnique(m) == \A t, u \in m.tables : t.name = u.name => t = u
NamesOf(m) == {t.name : t \in m.tables}

(* The rows of a live name are those of the table that has it.             *)
LEMMA LiveOf ==
    ASSUME NEW m, NamesUnique(m)
    PROVE  /\ DOMAIN ShownRows(m) = NamesOf(m)
           /\ \A t \in m.tables : ShownRows(m)[t.name] = Visible(t)
           /\ ShownRows(m) = [n \in NamesOf(m) |-> ShownRows(m)[n]]
<1> DEFINE Of(n) == CHOOSE t \in m.tables : t.name = n
<1>1. ShownRows(m) = [n \in NamesOf(m) |-> Visible(Of(n))]
  BY DEF ShownRows, NamesOf
<1>2. ASSUME NEW t \in m.tables PROVE Of(t.name) = t
  <2>1. Of(t.name) \in m.tables /\ Of(t.name).name = t.name
    OBVIOUS
  <2> HIDE DEF Of
  <2> QED
    BY <2>1 DEF NamesUnique
<1> HIDE DEF Of
<1>3. \A t \in m.tables : t.name \in NamesOf(m)
  BY DEF NamesOf
<1>4. \A t \in m.tables : ShownRows(m)[t.name] = Visible(t)
  BY <1>1, <1>2, <1>3
<1>5. /\ DOMAIN ShownRows(m) = NamesOf(m)
      /\ ShownRows(m) = [n \in NamesOf(m) |-> ShownRows(m)[n]]
  BY <1>1
<1> QED
  BY <1>4, <1>5

(* The same names with the same rows.                                      *)
LEMMA SameLive ==
    ASSUME NEW m, NamesUnique(m), NEW n, NamesUnique(n),
           \A u \in n.tables : \E t \in m.tables :
              t.name = u.name /\ Visible(t) = Visible(u),
           \A t \in m.tables : \E u \in n.tables : u.name = t.name
    PROVE  ShownRows(n) = ShownRows(m)
<1>1. NamesOf(n) = NamesOf(m)
  BY DEF NamesOf
<1>2. ASSUME NEW x \in NamesOf(m) PROVE ShownRows(n)[x] = ShownRows(m)[x]
  <2>1. PICK u \in n.tables : u.name = x
    BY <1>1 DEF NamesOf
  <2>2. PICK t \in m.tables : t.name = u.name /\ Visible(t) = Visible(u)
    OBVIOUS
  <2>3. ShownRows(n)[u.name] = Visible(u) /\ ShownRows(m)[t.name] = Visible(t)
    BY LiveOf
  <2> QED
    BY <2>1, <2>2, <2>3
<1>3. /\ ShownRows(n) = [x \in NamesOf(n) |-> ShownRows(n)[x]]
      /\ ShownRows(m) = [x \in NamesOf(m) |-> ShownRows(m)[x]]
  BY LiveOf
<1> QED
  BY <1>1, <1>2, <1>3

(* One name with other rows, or a new one.                                 *)
LEMMA LiveWith ==
    ASSUME NEW m, NamesUnique(m), NEW n, NamesUnique(n), NEW u \in n.tables,
           \A z \in n.tables : z = u \/ z \in m.tables,
           \A z \in m.tables : z.name = u.name \/ z \in n.tables
    PROVE  ShownRows(n) = Contents!With(ShownRows(m), u.name, Visible(u))
<1> DEFINE f == ShownRows(m)
           g == ShownRows(n)
<1>1. NamesOf(n) = NamesOf(m) \union {u.name}
  BY DEF NamesOf
<1>2. /\ DOMAIN f = NamesOf(m) /\ g = [x \in NamesOf(n) |-> g[x]]
      /\ g[u.name] = Visible(u)
  BY LiveOf
<1>3. ASSUME NEW x \in NamesOf(n), x # u.name PROVE g[x] = f[x]
  <2>1. PICK z \in n.tables : z.name = x
    BY DEF NamesOf
  <2>2. z \in m.tables
    BY <1>3, <2>1
  <2>3. g[z.name] = Visible(z) /\ f[z.name] = Visible(z)
    BY <2>2, LiveOf
  <2> QED
    BY <2>1, <2>3
<1> HIDE DEF f, g
<1>4. g = [x \in NamesOf(m) \union {u.name} |-> IF x = u.name THEN Visible(u) ELSE f[x]]
  BY <1>1, <1>2, <1>3
<1>5. Contents!With(f, u.name, Visible(u)) =
        [x \in DOMAIN f \union {u.name} |-> IF x = u.name THEN Visible(u) ELSE f[x]]
  BY DEF Contents!With
<1> QED
  BY <1>2, <1>4, <1>5 DEF f, g

(* One name less.                                                          *)
LEMMA LiveWithout ==
    ASSUME NEW m, NamesUnique(m), NEW n, NEW t \in m.tables, n.tables = m.tables \ {t}
    PROVE  ShownRows(n) = Contents!Without(ShownRows(m), t.name)
<1> DEFINE f == ShownRows(m)
           g == ShownRows(n)
<1>0. NamesUnique(n)
  BY DEF NamesUnique
<1>1. NamesOf(n) = NamesOf(m) \ {t.name}
  BY DEF NamesOf, NamesUnique
<1>2. DOMAIN f = NamesOf(m) /\ g = [x \in NamesOf(n) |-> g[x]]
  BY <1>0, LiveOf
<1>3. ASSUME NEW x \in NamesOf(n) PROVE g[x] = f[x]
  <2>1. PICK z \in n.tables : z.name = x
    BY DEF NamesOf
  <2>2. g[z.name] = Visible(z) /\ f[z.name] = Visible(z)
    BY <1>0, LiveOf
  <2> QED
    BY <2>1, <2>2
<1> HIDE DEF f, g
<1>4. g = [x \in NamesOf(m) \ {t.name} |-> f[x]]
  BY <1>1, <1>2, <1>3
<1>5. Contents!Without(f, t.name) = [x \in DOMAIN f \ {t.name} |-> f[x]]
  BY DEF Contents!Without
<1> QED
  BY <1>2, <1>4, <1>5 DEF f, g

(* A dropped definition, as a reader knows it.                             *)
Def(r) == [name |-> r.entry.name, rows |-> Visible(r.entry), at |-> r.version]
LEMMA InDropped ==
    ASSUME NEW m, NEW d
    PROVE  d \in KeptRows(m) <=> \E r \in Dropped(m) : d = Def(r)
  BY DEF KeptRows, Dropped, Def

(* They depend on the dropped definitions only.                            *)
LEMMA SameDropped ==
    ASSUME NEW m, NEW n, Dropped(n) = Dropped(m)
    PROVE  KeptRows(n) = KeptRows(m)
<1>1. \A d : d \in KeptRows(n) <=> d \in KeptRows(m)
  BY InDropped
<1>2. KeptRows(n) \subseteq KeptRows(m) /\ KeptRows(m) \subseteq KeptRows(n)
  BY <1>1
<1> QED
  BY <1>2

-----------------------------------------------------------------------------
(* Steps.                                                                  *)

(* What a commit publishes.                                                *)
LEMMA CommitParts ==
    ASSUME SafeInv, NEW n, IsManifest(n), CommitTo(n), n.version = manifest.version
    PROVE  /\ manifest'.tables = n.tables /\ manifest'.jobs = n.jobs
           /\ manifest'.retired = n.retired
           /\ manifest.version \in Nat /\ manifest'.version = manifest.version + 1
<1>1. manifest' = NextVersion(n)
  BY DEF CommitTo
<1> QED
  BY <1>1, NextVersionShape DEF SafeInv, Safe, IsManifest

(* Names are unique.                                                       *)
LEMMA NamedUnique ==
    ASSUME Named
    PROVE  /\ NamesUnique(manifest)
           /\ \A t, u \in manifest.tables : t.id = u.id => t = u
  BY DEF Named, UniqueIn, Unique, TablesUnique, NamesUnique

(* Work prepared before a commit is still clear of tombstones after it.    *)
LEMMA WorkersFrame ==
    ASSUME WorkersPast, ManifestOrder(manifest'), manifest.version \in Nat,
           manifest'.version = manifest.version + 1, FilesKept,
           KillersFrom(manifest, manifest'),
           \A w \in Workers : work'[w] = NoWork \/ work'[w] = work[w]
    PROVE  WorkersPast'
<1> SUFFICES ASSUME NEW w \in Workers PROVE WorkPast(manifest', work'[w])
  BY DEF WorkersPast
<1>1. CASE work'[w] = NoWork
  <2>1. WorkSegs(NoWork) = {} /\ NoWork.kind # "merge"
    BY NoWorkRows DEF NoWork
  <2> QED
    BY <1>1, <2>1 DEF WorkPast
<1>2. CASE work'[w] = work[w]
  <2> DEFINE x == work[w]
  <2>1. WorkPast(manifest, x)
    BY DEF WorkersPast
  <2>2. \A s \in WorkSegs(x) : s.seq \in Nat /\ s.seq <= manifest'.version
    BY <2>1 DEF WorkPast
  <2>3. ASSUME x.kind = "merge" PROVE MergeClear(manifest', x)
    <3>1. PICK new : /\ FromOld(manifest, manifest', new)
                     /\ \A v \in Workers : SpentBy(work'[v]) \intersect new = {}
      BY DEF FilesKept
    <3>2. SpentBy(x) = x.removes /\ WorkSegs(x) = x.adds
      BY <2>3 DEF SpentBy, WorkSegs
    <3>3. x.removes \intersect new = {}
      BY <1>2, <3>1, <3>2
    <3>4. \A a \in x.adds : a.seq \in Nat /\ a.seq <= manifest.version
      BY <2>1, <3>2 DEF WorkPast
    <3>5. \A f \in Killers(manifest') : \A k \in f.tombstones : k.seq \in Nat
      BY DEF ManifestOrder, Past, EntryPast, IsTombstone, Killers, Dropped, Swapped
    <3>6. MergeClear(manifest, x)
      BY <2>1, <2>3 DEF WorkPast
    <3> HIDE DEF x
    <3> QED
      BY <3>1, <3>3, <3>4, <3>5, <3>6, MergeFrame
  <2> QED
    BY <1>2, <2>2, <2>3 DEF WorkPast
<1> QED
  BY <1>1, <1>2

(* A commit that leaves the flusher alone, once what it does to the        *)
(* manifest is known.                                                      *)
LEMMA CommitContents ==
    ASSUME ContentsInv, ManifestOrder(manifest'), manifest.version \in Nat,
           manifest'.version = manifest.version + 1, FilesKept,
           KillersFrom(manifest, manifest'),
           \A w \in Workers : work'[w] = NoWork \/ work'[w] = work[w],
           UNCHANGED <<in_flight, flushing>>
    PROVE  ContentsInv'
<1>1. WorkersPast'
  BY WorkersFrame DEF ContentsInv
<1>2. FlushExact'
  BY DEF ContentsInv, FlushExact
<1> QED
  BY <1>1, <1>2 DEF ContentsInv

(* A step a reader does not notice.                                        *)
Unnoticed == UNCHANGED <<ShownRows(manifest), KeptRows(manifest), committed>>
LEMMA SameContents ==
    ASSUME Named, Named', UNCHANGED committed,
           \A u \in manifest'.tables : \E t \in manifest.tables :
              t.name = u.name /\ Visible(t) = Visible(u),
           \A t \in manifest.tables : \E u \in manifest'.tables : u.name = t.name,
           Dropped(manifest') = Dropped(manifest)
    PROVE  Unnoticed
<1>1. NamesUnique(manifest) /\ NamesUnique(manifest')
  BY DEF Named, UniqueIn, Unique, TablesUnique, NamesUnique
<1>2. ShownRows(manifest') = ShownRows(manifest)
  BY <1>1, SameLive
<1>3. KeptRows(manifest') = KeptRows(manifest)
  BY SameDropped
<1> QED
  BY <1>2, <1>3 DEF Unnoticed

(* A table of the next version: one of this version, or one whose rows and *)
(* deletes are this one's and new ones.                                    *)
Grows(m, u) ==
    \/ u \in m.tables
    \/ /\ EntryPast(u, m.version + 1)
       /\ \/ After(m.version, u) /\ u.tombstones = {}
          \/ \E t \in m.tables : /\ t.name = u.name
                                 /\ RowsKept(t, u, m.version)
                                 /\ KillsKept(t, u, m.version)
NewTarget(m, j) ==
    j \in m.jobs \/ (EntryPast(j.target, m.version + 1) /\ j.target.tombstones = {})

(* A commit that retires and brings back nothing.                          *)
LEMMA TablesOrder ==
    ASSUME NEW m, NEW n, m.version \in Nat, n.version = m.version + 1, ManifestOrder(m),
           n.retired = m.retired,
           \A u \in n.tables : Grows(m, u),
           \A t \in m.tables : \E u \in n.tables : u.name = t.name,
           \A j \in n.jobs : NewTarget(m, j)
    PROVE  ManifestOrder(n) /\ KillersFrom(m, n) /\ Dropped(n) = Dropped(m)
<1>1. /\ \A t \in m.tables : EntryPast(t, m.version)
      /\ \A j \in m.jobs : EntryPast(j.target, m.version) /\ j.target.tombstones = {}
  BY DEF ManifestOrder, Past
<1>2. m.version <= n.version /\ n.version \in Nat
  OBVIOUS
<1>3. \A u \in n.tables : EntryPast(u, n.version)
  BY <1>1, <1>2, PastLonger DEF Grows
<1>4. \A j \in n.jobs : EntryPast(j.target, n.version) /\ j.target.tombstones = {}
  BY <1>1, <1>2, PastLonger DEF NewTarget
<1>5. Past(n)
  BY <1>3, <1>4, PastFrame DEF ManifestOrder
<1>6. Dropped(n) = Dropped(m) /\ Swapped(n) = Swapped(m)
  BY DEF Dropped, Swapped
<1>7. ASSUME NEW u \in n.tables
      PROVE  \/ After(m.version, u) /\ u.tombstones = {}
             \/ \E t \in m.tables : /\ t.name = u.name
                                    /\ RowsKept(t, u, m.version)
                                    /\ KillsKept(t, u, m.version)
  BY <1>1, SelfKept DEF Grows
<1>8. Descends(m, n)
  BY <1>7 DEF Descends
<1>9. \A q \in Swapped(n) : Superseded(n, q)
  <2> TAKE q \in Swapped(n)
  <2>1. Superseded(m, q)
    BY <1>6 DEF ManifestOrder, SwapOrder
  <2> QED
    BY <1>6, <2>1 DEF Superseded, HasTable
<1>10. ManifestOrder(n)
  BY <1>5, <1>6, <1>8, <1>9, OrderFrame
<1>11. KillersFrom(m, n)
  <2> SUFFICES ASSUME NEW f \in Killers(n), NEW k \in f.tombstones, ~(m.version < k.seq)
               PROVE  \E g \in Killers(m) : g.name = f.name /\
                         \E l \in g.tombstones : l.seq = k.seq
    BY DEF KillersFrom
  <2>1. CASE f \in n.tables
    <3>1. PICK t \in m.tables : t.name = f.name /\ KillsKept(t, f, m.version)
      BY <1>7, <2>1
    <3>2. \E l \in t.tombstones : l.seq = k.seq
      BY <3>1 DEF KillsKept
    <3>3. t \in Killers(m)
      BY DEF Killers
    <3> QED
      BY <3>1, <3>2, <3>3
  <2>2. CASE f \notin n.tables
    <3>1. f \in Killers(m)
      BY <1>6, <2>2 DEF Killers
    <3> QED
      BY <3>1
  <2> QED
    BY <2>1, <2>2
<1> QED
  BY <1>6, <1>10, <1>11

(* The steps of TableContents, on sets of rows.                            *)
CreateShown(n) ==
    /\ asked' = [op |-> "create", table |-> n]
    /\ n \in Names /\ n \notin DOMAIN ShownRows(manifest)
    /\ ShownRows(manifest') = Contents!With(ShownRows(manifest), n, {})
    /\ UNCHANGED <<KeptRows(manifest), committed>>
InsertShown(new) ==
    /\ DOMAIN new \subseteq DOMAIN ShownRows(manifest)
    /\ new \in [DOMAIN new -> SUBSET Rows]
    /\ \A n \in DOMAIN new : new[n] \intersect committed = {}
    /\ ShownRows(manifest') = [n \in DOMAIN ShownRows(manifest) |->
          IF n \in DOMAIN new THEN ShownRows(manifest)[n] \union new[n]
                              ELSE ShownRows(manifest)[n]]
    /\ committed' = committed \union UNION {new[n] : n \in DOMAIN new}
    /\ UNCHANGED KeptRows(manifest)
LessShown(n, kills) ==
    /\ n \in DOMAIN ShownRows(manifest)
    /\ ShownRows(manifest') =
          Contents!With(ShownRows(manifest), n, ShownRows(manifest)[n] \ kills)
    /\ UNCHANGED <<KeptRows(manifest), committed>>
DeleteShown(n, kills) ==
    /\ asked' = [op |-> "delete", table |-> n, rows |-> kills]
    /\ kills \subseteq Rows /\ LessShown(n, kills)
TruncateShown(n) ==
    /\ asked' = [op |-> "truncate", table |-> n]
    /\ LessShown(n, Rows)
DropShown(n) ==
    /\ asked' = [op |-> "drop", table |-> n]
    /\ n \in DOMAIN ShownRows(manifest)
    /\ ShownRows(manifest') = Contents!Without(ShownRows(manifest), n)
    /\ \E d \in KeptRows(manifest') :
         /\ d.name = n /\ d.rows = ShownRows(manifest)[n]
         /\ \A e \in KeptRows(manifest) : e.at < d.at
         /\ KeptRows(manifest') = KeptRows(manifest) \union {d}
    /\ UNCHANGED committed
UndropShown(d) ==
    /\ asked' = [op |-> "undrop", table |-> d.name]
    /\ d \in KeptRows(manifest)
    /\ d.name \notin DOMAIN ShownRows(manifest)
    /\ \A e \in KeptRows(manifest) : e.name = d.name => e.at <= d.at
    /\ ShownRows(manifest') = Contents!With(ShownRows(manifest), d.name, d.rows)
    /\ KeptRows(manifest') = KeptRows(manifest) \ {d}
    /\ UNCHANGED committed
ExpireShown(old) ==
    /\ asked' = [op |-> "expire", dropped |-> old]
    /\ old \subseteq {d.at : d \in KeptRows(manifest)}
    /\ KeptRows(manifest') = {d \in KeptRows(manifest) : d.at \notin old}
    /\ UNCHANGED <<ShownRows(manifest), committed>>

(* What a step does that serves no such statement: a flush, or nothing.    *)
Simulated == Unnoticed \/ \E new : InsertShown(new)
(* And what any step does.                                                 *)
Stated ==
    \/ \E n : CreateShown(n) \/ TruncateShown(n) \/ DropShown(n)
    \/ \E n, kills : DeleteShown(n, kills)
    \/ \E d : UndropShown(d)
    \/ \E old : ExpireShown(old)
    \/ asked' = Unasked /\ Simulated
    \/ UNCHANGED asked /\ Unnoticed

(* A table with no segments shows no rows, and any table only rows it      *)
(* holds.                                                                  *)
LEMMA VisibleBounds ==
    ASSUME NEW t
    PROVE  /\ t.segments = {} => Visible(t) = {}
           /\ Visible(t) \subseteq RowsOf(t.segments)
  BY DEF Visible, RowsOf

(* Such a commit, with the flusher left alone.                             *)
LEMMA PlainContents ==
    ASSUME SafeInv, ContentsInv, NEW n, IsManifest(n), n.version = manifest.version,
           CommitTo(n), FilesKept, n.retired = manifest.retired,
           \A u \in n.tables : Grows(manifest, u),
           \A t \in manifest.tables : \E u \in n.tables : u.name = t.name,
           \A j \in n.jobs : NewTarget(manifest, j),
           \A w \in Workers : work'[w] = NoWork \/ work'[w] = work[w],
           UNCHANGED <<in_flight, flushing>>
    PROVE  /\ ContentsInv'
           /\ manifest'.tables = n.tables
           /\ Dropped(manifest') = Dropped(manifest)
<1> DEFINE m == manifest
           o == manifest'
<1>1. /\ o.tables = n.tables /\ o.jobs = n.jobs /\ o.retired = n.retired
      /\ m.version \in Nat /\ o.version = m.version + 1
  BY CommitParts
<1>2. ManifestOrder(m)
  BY DEF ContentsInv
<1>3. /\ \A u \in n.tables : Grows(m, u)
      /\ \A t \in m.tables : \E u \in n.tables : u.name = t.name
      /\ \A j \in n.jobs : NewTarget(m, j)
  OBVIOUS
<1>4. n.retired = m.retired
  OBVIOUS
<1>5. ManifestOrder(o) /\ KillersFrom(m, o) /\ Dropped(o) = Dropped(m)
  <2> HIDE DEF m, o
  <2> QED
    BY <1>1, <1>2, <1>3, <1>4, TablesOrder
<1>6. ContentsInv'
  BY <1>1, <1>5, CommitContents
<1> QED
  BY <1>1, <1>5, <1>6

(* CREATE TABLE.                                                           *)
LEMMA CreateContents ==
    ASSUME SafeInv, Named, Named', StoredRows, ContentsInv,
           NEW nm \in Names, NEW columns, Create(nm, columns)
    PROVE  ContentsInv' /\ CreateShown(nm)
<1> DEFINE n == CreateTable(manifest, nm, columns)
<1>1. /\ CanCreateTable(manifest, nm) /\ CommitTo(n)
      /\ UNCHANGED <<in_flight, flushing, work, committed>>
  BY DEF Create, buffer
<1>2. EditOK(manifest, n, {}, next_id) /\ IsManifest(manifest)
  BY CreateTableEdit DEF SafeInv, Safe
<1>3. PICK e : /\ n.tables = manifest.tables \union {e} /\ e.segments = {}
               /\ e.name = nm /\ e.tombstones = {}
  BY <1>2, CreateTableParts
<1>4. n.jobs = manifest.jobs /\ n.retired = manifest.retired
  BY <1>2, CreateTableParts
<1>5. IsManifest(n) /\ n.version = manifest.version
  BY <1>2 DEF EditOK
<1> HIDE DEF n
<1>6. \A u \in n.tables : Grows(manifest, u)
  <2>1. EntryPast(e, manifest.version + 1) /\ After(manifest.version, e)
    BY <1>3 DEF EntryPast, After
  <2> QED
    BY <1>3, <2>1 DEF Grows
<1>7. /\ \A t \in manifest.tables : \E u \in n.tables : u.name = t.name
      /\ \A j \in n.jobs : NewTarget(manifest, j)
  BY <1>3, <1>4 DEF NewTarget
<1>8. FilesKept
  BY CreateRows
<1>9. /\ ContentsInv' /\ manifest'.tables = n.tables
      /\ Dropped(manifest') = Dropped(manifest)
  BY <1>1, <1>4, <1>5, <1>6, <1>7, <1>8, PlainContents
<1>10. CreateShown(nm)
  <2>1. NamesUnique(manifest) /\ NamesUnique(manifest')
    BY DEF Named, UniqueIn, Unique, TablesUnique, NamesUnique
  <2>2. nm \notin DOMAIN ShownRows(manifest)
    <3>1. DOMAIN ShownRows(manifest) = NamesOf(manifest)
      BY <2>1, LiveOf
    <3>2. nm \notin NamesOf(manifest)
      BY <1>1 DEF CanCreateTable, HasTable, NamesOf
    <3> QED
      BY <3>1, <3>2
  <2>3. ShownRows(manifest') = Contents!With(ShownRows(manifest), e.name, Visible(e))
    BY <1>3, <1>9, <2>1, LiveWith
  <2>4. Visible(e) = {}
    BY <1>3, VisibleBounds
  <2>5. KeptRows(manifest') = KeptRows(manifest)
    BY <1>9, SameDropped
  <2>6. asked' = [op |-> "create", table |-> nm]
    BY DEF Create
  <2> QED
    BY <1>1, <1>3, <2>2, <2>3, <2>4, <2>5, <2>6 DEF CreateShown
<1> QED
  BY <1>9, <1>10

(* The rows a reader may see were committed.                               *)
LEMMA VisibleRows ==
    ASSUME StoredRows, Buffers, NEW t \in manifest.tables
    PROVE  Visible(t) \subseteq Rows
<1>1. t.segments \subseteq SegmentsIn(manifest)
  BY DEF SegmentsIn
<1>2. RowsOf(t.segments) \subseteq RowsOf(SegmentsIn(manifest))
  BY <1>1 DEF RowsOf
<1>3. RowsOf(SegmentsIn(manifest)) \subseteq Rows
  BY DEF StoredRows, ManifestRows, Buffers
<1> QED
  BY <1>2, <1>3, VisibleBounds

(* A tombstone above every segment hides the rows it matches, and no more. *)
LEMMA DeleteVisible ==
    ASSUME NEW t, NEW u, NEW k, u.segments = t.segments,
           u.tombstones = t.tombstones \union {k}, \A s \in t.segments : k.seq > s.seq
    PROVE  Visible(u) = Visible(t) \ k.kills
<1>1. ASSUME NEW x \in Visible(u) PROVE x \in Visible(t) /\ x \notin k.kills
  <2>1. PICK s \in u.segments : /\ x \in s.rows
                                /\ \A l \in u.tombstones : l.seq > s.seq => x \notin l.kills
    BY InVisible
  <2> QED
    BY <2>1, InVisible
<1>2. ASSUME NEW x \in Visible(t), x \notin k.kills PROVE x \in Visible(u)
  <2>1. PICK s \in t.segments : /\ x \in s.rows
                                /\ \A l \in t.tombstones : l.seq > s.seq => x \notin l.kills
    BY InVisible
  <2>2. \A l \in u.tombstones : l.seq > s.seq => x \notin l.kills
    BY <1>2, <2>1
  <2> QED
    BY <2>1, <2>2, InVisible
<1> QED
  BY <1>1, <1>2

(* One table replaced by another that shows fewer rows.                    *)
LEMMA LessRows ==
    ASSUME Named, Named', NEW t \in manifest.tables, NEW u, u.name = t.name,
           manifest'.tables = (manifest.tables \ {t}) \union {u},
           NEW kills, Visible(u) = Visible(t) \ kills,
           Dropped(manifest') = Dropped(manifest), UNCHANGED committed
    PROVE  LessShown(t.name, kills)
<1>1. NamesUnique(manifest) /\ NamesUnique(manifest')
  BY DEF Named, UniqueIn, Unique, TablesUnique, NamesUnique
<1>2. t.name \in DOMAIN ShownRows(manifest) /\ ShownRows(manifest)[t.name] = Visible(t)
  <2>1. /\ DOMAIN ShownRows(manifest) = NamesOf(manifest)
        /\ ShownRows(manifest)[t.name] = Visible(t)
    BY <1>1, LiveOf
  <2> QED
    BY <2>1 DEF NamesOf
<1>3. ShownRows(manifest') = Contents!With(ShownRows(manifest), u.name, Visible(u))
  <2>1. /\ \A z \in manifest'.tables : z = u \/ z \in manifest.tables
        /\ \A z \in manifest.tables : z.name = u.name \/ z \in manifest'.tables
        /\ u \in manifest'.tables
    OBVIOUS
  <2> QED
    BY <1>1, <2>1, LiveWith
<1>4. KeptRows(manifest') = KeptRows(manifest)
  BY SameDropped
<1> QED
  BY <1>2, <1>3, <1>4 DEF LessShown

(* DELETE.                                                                 *)
LEMMA DeleteContents ==
    ASSUME SafeInv, Named, Named', Buffers, StoredRows, ContentsInv,
           NEW nm, NEW c, NEW kills \in SUBSET Rows, Delete(nm, c, kills)
    PROVE  ContentsInv' /\ DeleteShown(nm, kills)
<1>1. PICK t \in manifest.tables :
         t.name = nm /\ CommitTo(AddTombstone(manifest, t, c, kills))
  BY DEF Delete
<1> DEFINE n == AddTombstone(manifest, t, c, kills)
<1>2. EditOK(manifest, n, {}, next_id) /\ IsManifest(manifest)
  BY AddTombstoneEdit DEF SafeInv, Safe
<1>3. CommitTo(n) /\ UNCHANGED <<in_flight, flushing, work, committed>>
  BY <1>1 DEF Delete, buffer
<1>4. PICK u, k : /\ Rebuilt(manifest, n, t, u)
                  /\ u.segments = t.segments
                  /\ u.tombstones = t.tombstones \union {k}
                  /\ IsTombstone(k) /\ k.seq = manifest.version + 1 /\ k.kills = kills
  BY <1>2, AddTombstoneParts
<1>5. IsManifest(n) /\ n.version = manifest.version /\ manifest.version \in Nat
  BY <1>2 DEF EditOK, IsManifest
<1> HIDE DEF n
<1>6. EntryPast(t, manifest.version) /\ EntryPast(t, manifest.version + 1)
  <2>1. EntryPast(t, manifest.version)
    BY DEF ContentsInv, ManifestOrder, Past
  <2> QED
    BY <1>5, <2>1, PastLonger
<1>7. Grows(manifest, u)
  <2>1. EntryPast(u, manifest.version + 1)
    BY <1>4, <1>5, <1>6 DEF EntryPast
  <2>2. RowsKept(t, u, manifest.version)
    BY <1>4, <2>1, SeqRowsKept
  <2>3. KillsKept(t, u, manifest.version)
    <3>1. KillsIn(t.tombstones, u.tombstones)
      BY <1>4, KillsInSelf
    <3>2. \A l \in u.tombstones : manifest.version < l.seq \/ l \in t.tombstones
      BY <1>4, <1>5
    <3> QED
      BY <3>1, <3>2 DEF KillsKept
  <2> QED
    BY <1>4, <2>1, <2>2, <2>3 DEF Grows, Rebuilt
<1>8. /\ n.tables = (manifest.tables \ {t}) \union {u} /\ u.name = t.name
      /\ n.jobs = manifest.jobs /\ n.retired = manifest.retired
  BY <1>4 DEF Rebuilt
<1>9. /\ \A z \in n.tables : Grows(manifest, z)
      /\ \A z \in manifest.tables : \E y \in n.tables : y.name = z.name
      /\ \A j \in n.jobs : NewTarget(manifest, j)
  BY <1>7, <1>8 DEF Grows, NewTarget
<1>10. FilesKept
  BY DeleteRows
<1>11. /\ ContentsInv' /\ manifest'.tables = n.tables
       /\ Dropped(manifest') = Dropped(manifest)
  BY <1>3, <1>5, <1>8, <1>9, <1>10, PlainContents
<1>12. Visible(u) = Visible(t) \ kills
  <2>1. \A s \in t.segments : k.seq > s.seq
    BY <1>4, <1>5, <1>6 DEF EntryPast
  <2> QED
    BY <1>4, <2>1, DeleteVisible
<1>13. LessShown(nm, kills)
  <2>1. UNCHANGED committed
    BY <1>3
  <2>2. LessShown(t.name, kills)
    BY <1>8, <1>11, <1>12, <2>1, LessRows
  <2> QED
    BY <1>1, <2>2
<1>14. asked' = [op |-> "delete", table |-> nm, rows |-> kills]
  BY DEF Delete
<1> QED
  BY <1>11, <1>13, <1>14 DEF DeleteShown

(* TRUNCATE.                                                               *)
LEMMA TruncateContents ==
    ASSUME SafeInv, Named, Named', Buffers, StoredRows, ContentsInv, NEW nm, Truncate(nm)
    PROVE  ContentsInv' /\ TruncateShown(nm)
<1>1. PICK t \in manifest.tables : t.name = nm /\ CommitTo(TruncateTable(manifest, t))
  BY DEF Truncate
<1> DEFINE n == TruncateTable(manifest, t)
<1>2. EditOK(manifest, n, {}, next_id) /\ IsManifest(manifest)
  BY TruncateEdit DEF SafeInv, Safe
<1>3. CommitTo(n) /\ UNCHANGED <<in_flight, flushing, work, committed>>
  BY <1>1 DEF Truncate, buffer
<1>4. PICK u : /\ Rebuilt(manifest, n, t, u)
               /\ u.segments = {} /\ u.tombstones = {}
  BY <1>2, TruncateParts
<1>5. IsManifest(n) /\ n.version = manifest.version
  BY <1>2 DEF EditOK
<1> HIDE DEF n
<1>6. Grows(manifest, u)
  BY <1>4 DEF Grows, EntryPast, After
<1>7. /\ n.tables = (manifest.tables \ {t}) \union {u} /\ u.name = t.name
      /\ n.jobs = manifest.jobs /\ n.retired = manifest.retired
  BY <1>4 DEF Rebuilt
<1>8. /\ \A z \in n.tables : Grows(manifest, z)
      /\ \A z \in manifest.tables : \E y \in n.tables : y.name = z.name
      /\ \A j \in n.jobs : NewTarget(manifest, j)
  BY <1>6, <1>7 DEF Grows, NewTarget
<1>9. FilesKept
  BY TruncateRows
<1>10. /\ ContentsInv' /\ manifest'.tables = n.tables
       /\ Dropped(manifest') = Dropped(manifest)
  BY <1>3, <1>5, <1>7, <1>8, <1>9, PlainContents
<1>11. Visible(u) = Visible(t) \ Rows
  BY <1>4, VisibleRows, VisibleBounds
<1>12. LessShown(nm, Rows)
  <2>1. UNCHANGED committed
    BY <1>3
  <2>2. LessShown(t.name, Rows)
    BY <1>7, <1>10, <1>11, <2>1, LessRows
  <2> QED
    BY <1>1, <2>2
<1>13. asked' = [op |-> "truncate", table |-> nm]
  BY DEF Truncate
<1> QED
  BY <1>10, <1>12, <1>13 DEF TruncateShown

(* A commit that leaves the tables alone is not noticed.                   *)
LEMMA JobsContents ==
    ASSUME SafeInv, Named, Named', ContentsInv, NEW n, IsManifest(n),
           n.version = manifest.version, CommitTo(n), FilesKept,
           n.tables = manifest.tables, n.retired = manifest.retired,
           \A j \in n.jobs : NewTarget(manifest, j),
           \A w \in Workers : work'[w] = NoWork \/ work'[w] = work[w],
           UNCHANGED <<in_flight, flushing, committed>>
    PROVE  ContentsInv' /\ Simulated
<1>1. \A u \in n.tables : Grows(manifest, u)
  BY DEF Grows
<1>2. /\ ContentsInv' /\ manifest'.tables = n.tables
      /\ Dropped(manifest') = Dropped(manifest)
  BY <1>1, PlainContents
<1>3. Unnoticed
  BY <1>2, SameContents
<1> QED
  BY <1>2, <1>3 DEF Simulated, Unnoticed

(* ALTER TABLE.                                                            *)
LEMMA AlterContents ==
    ASSUME SafeInv, Named, Named', StoredRows, ContentsInv, NEW nm, NEW ops, Alter(nm, ops)
    PROVE  ContentsInv' /\ Simulated
<1>1. PICK t \in manifest.tables : CommitTo(CreateJob(manifest, t, ops))
  BY DEF Alter
<1> DEFINE n == CreateJob(manifest, t, ops)
<1>2. EditOK(manifest, n, {}, next_id) /\ IsManifest(manifest)
  BY CreateJobEdit DEF SafeInv, Safe
<1>3. CommitTo(n) /\ UNCHANGED <<in_flight, flushing, work, committed>>
  BY <1>1 DEF Alter, buffer
<1>4. PICK j : /\ n.jobs = manifest.jobs \union {j} /\ j.source = t.id
               /\ j.handled = {} /\ j.target.segments = {}
               /\ j.target.tombstones = {}
               /\ n.tables = manifest.tables /\ n.retired = manifest.retired
  BY <1>2, CreateJobParts
<1>5. IsManifest(n) /\ n.version = manifest.version
  BY <1>2 DEF EditOK
<1> HIDE DEF n
<1>6. \A i \in n.jobs : NewTarget(manifest, i)
  BY <1>4 DEF NewTarget, EntryPast
<1>7. FilesKept
  BY AlterRows
<1> QED
  BY <1>3, <1>4, <1>5, <1>6, <1>7, JobsContents

(* CANCEL.                                                                 *)
LEMMA CancelContents ==
    ASSUME SafeInv, Named, Named', StoredRows, ContentsInv,
           NEW j \in manifest.jobs, Cancel(j)
    PROVE  ContentsInv' /\ Simulated
<1> DEFINE n == CancelJob(manifest, j)
<1>1. EditOK(manifest, n, {}, next_id) /\ IsManifest(manifest)
  BY CancelJobEdit DEF SafeInv, Safe
<1>2. CommitTo(n) /\ UNCHANGED <<in_flight, flushing, work, committed>>
  BY DEF Cancel, buffer
<1>3. /\ n.tables = manifest.tables /\ n.jobs = manifest.jobs \ {j}
      /\ n.retired = manifest.retired
  BY <1>1, CancelJobParts
<1>4. IsManifest(n) /\ n.version = manifest.version
  BY <1>1 DEF EditOK
<1> HIDE DEF n
<1>5. \A i \in n.jobs : NewTarget(manifest, i)
  BY <1>3 DEF NewTarget
<1>6. FilesKept
  BY CancelRows
<1> QED
  BY <1>2, <1>3, <1>4, <1>5, <1>6, JobsContents

(* gc forgets deleted files.                                               *)
LEMMA ForgetContents ==
    ASSUME SafeInv, Named, Named', StoredRows, ContentsInv, NEW ids, Forget(ids)
    PROVE  ContentsInv' /\ Simulated
<1> DEFINE n == ForgetGarbage(manifest, ids)
<1>1. EditOK(manifest, n, {}, next_id) /\ IsManifest(manifest)
  BY ForgetGarbageEdit DEF SafeInv, Safe
<1>2. CommitTo(n) /\ UNCHANGED <<in_flight, flushing, work, committed>>
  BY DEF Forget, buffer
<1>3. /\ n.tables = manifest.tables /\ n.jobs = manifest.jobs
      /\ n.retired = manifest.retired
  BY <1>1, ForgetGarbageParts
<1>4. IsManifest(n) /\ n.version = manifest.version
  BY <1>1 DEF EditOK
<1> HIDE DEF n
<1>5. \A i \in n.jobs : NewTarget(manifest, i)
  BY <1>3 DEF NewTarget
<1>6. FilesKept
  BY ForgetRows
<1> QED
  BY <1>2, <1>3, <1>4, <1>5, <1>6, JobsContents

-----------------------------------------------------------------------------
(* Workers and the flusher.                                                *)

(* A worker that commits is idle afterwards; the others are as they were.  *)
LEMMA WorkerDone ==
    ASSUME SafeInv, NEW w \in Workers, work' = [work EXCEPT ![w] = NoWork]
    PROVE  \A v \in Workers : work'[v] = NoWork \/ work'[v] = work[v]
<1>1. work = [v \in Workers |-> work[v]]
  BY DEF SafeInv, Safe
<1> QED
  BY <1>1

(* A job step's commit.                                                    *)
LEMMA JobAdvanceContents ==
    ASSUME SafeInv, Named, Named', StoredRows, ContentsInv,
           NEW w \in Workers, JobAdvance(w)
    PROVE  ContentsInv' /\ Simulated
<1> DEFINE x == work[w]
<1>1. PICK j \in manifest.jobs, t \in manifest.tables :
         CommitTo(AdvanceJob(manifest, t, j, x.reused, x.rewritten, x.segments))
  BY DEF JobAdvance
<1> DEFINE n == AdvanceJob(manifest, t, j, x.reused, x.rewritten, x.segments)
           k == Advanced(t, j, x.reused, x.rewritten, x.segments)
<1>2. /\ IsManifest(manifest) /\ IdsBelow(manifest) /\ manifest.version \in Nat
      /\ next_id \in Nat /\ manifest.next_segment_id <= next_id
  BY DEF SafeInv, Safe, IsManifest
<1>3. x.kind = "advance" /\ x.segments = WorkSegs(x)
  BY DEF JobAdvance, WorkSegs
<1>4. \A s \in x.segments : IsSegment(s) /\ s.id < next_id
  BY <1>3 DEF SafeInv, Safe, Fresh
<1>5. work' = [work EXCEPT ![w] = NoWork] /\ UNCHANGED <<in_flight, flushing, committed>>
  BY DEF JobAdvance, buffer
<1>6. \A s \in x.segments : s.seq \in Nat /\ s.seq <= manifest.version
  BY <1>3 DEF ContentsInv, WorkersPast, WorkPast
<1> HIDE DEF x
<1>7. EditOK(manifest, n, SegIds(x.segments), next_id)
  BY <1>2, <1>4, AdvanceJobEdit
<1>8. /\ n.tables = manifest.tables /\ n.jobs = (manifest.jobs \ {j}) \union {k}
      /\ n.retired = manifest.retired
      /\ k.target.segments = j.target.segments \union Carried(t, j, x.reused) \union
            x.segments
      /\ k.target.tombstones = j.target.tombstones
  BY <1>2, <1>4, AdvanceJobParts
<1>9. CommitTo(n)
  BY <1>1
<1>10. IsManifest(n) /\ n.version = manifest.version
  BY <1>7 DEF EditOK
<1> HIDE DEF n, k
<1>11. /\ EntryPast(t, manifest.version) /\ EntryPast(j.target, manifest.version)
       /\ j.target.tombstones = {}
  BY DEF ContentsInv, ManifestOrder, Past
<1>12. \A s \in Carried(t, j, x.reused) : s.seq \in Nat /\ s.seq <= manifest.version
  <2> TAKE s \in Carried(t, j, x.reused)
  <2>1. PICK u \in t.segments : Kin(s, u)
    BY CarriedKin
  <2> QED
    BY <1>11, <2>1 DEF EntryPast, Kin
<1>13. EntryPast(k.target, manifest.version)
  <2>1. \A s \in j.target.segments : s.seq \in Nat /\ s.seq <= manifest.version
    BY <1>11 DEF EntryPast
  <2> QED
    BY <1>6, <1>8, <1>11, <1>12, <2>1 DEF EntryPast
<1>14. EntryPast(k.target, manifest.version + 1)
  BY <1>2, <1>13, PastLonger
<1>15. \A i \in n.jobs : NewTarget(manifest, i)
  BY <1>8, <1>11, <1>14 DEF NewTarget
<1>16. FilesKept
  BY JobAdvanceRows
<1>17. \A v \in Workers : work'[v] = NoWork \/ work'[v] = work[v]
  BY <1>5, WorkerDone
<1> QED
  BY <1>5, <1>8, <1>9, <1>10, <1>15, <1>16, <1>17, JobsContents

(* A merge whose inputs are on one side of every tombstone shows what they *)
(* showed.                                                                 *)
LEMMA MergeVisible ==
    ASSUME NEW t, NEW v, NEW x, NEW b, EntryPast(t, b), v.tombstones = t.tombstones,
           v.segments = {s \in t.segments : s.id \notin x.removes} \union x.adds,
           x.adds # {},
           \A a \in x.adds :
              /\ a.seq \in Nat
              /\ a.rows = RowsOf({s \in t.segments : s.id \in x.removes}),
           \A a \in x.adds : \A s \in t.segments : s.id \in x.removes =>
              /\ s.seq <= a.seq
              /\ s.rows # {} => \A k \in t.tombstones : ~(s.seq < k.seq /\ k.seq <= a.seq)
    PROVE  Visible(v) = Visible(t) /\ \A c : RowsKept(t, v, c)
<1>0. /\ \A s \in t.segments : s.seq \in Nat
      /\ \A k \in t.tombstones : k.seq \in Nat
  BY DEF EntryPast, IsTombstone
<1>1. ASSUME NEW a \in x.adds, NEW y \in a.rows
      PROVE  \E s \in t.segments : s.id \in x.removes /\ y \in s.rows
  BY DEF RowsOf
<1>2. ASSUME NEW s \in t.segments, s.id \in x.removes, NEW a \in x.adds, NEW y \in s.rows
      PROVE  y \in a.rows
  BY <1>2 DEF RowsOf
<1>3. ASSUME NEW y \in Visible(v) PROVE y \in Visible(t)
  <2>1. PICK a \in v.segments : /\ y \in a.rows
                                /\ \A k \in v.tombstones : k.seq > a.seq => y \notin k.kills
    BY InVisible
  <2>2. CASE a \in t.segments
    BY <2>1, <2>2, InVisible
  <2>3. CASE a \in x.adds
    <3>1. PICK s \in t.segments : s.id \in x.removes /\ y \in s.rows
      BY <1>1, <2>1, <2>3
    <3>2. ASSUME NEW k \in t.tombstones, k.seq > s.seq PROVE y \notin k.kills
      <4>1. ~(s.seq < k.seq /\ k.seq <= a.seq)
        BY <2>3, <3>1
      <4>2. k.seq \in Nat /\ a.seq \in Nat /\ s.seq \in Nat
        BY <1>0, <2>3
      <4>3. k.seq > a.seq
        BY <3>2, <4>1, <4>2
      <4> QED
        BY <2>1, <4>3
    <3> QED
      BY <3>1, <3>2, InVisible
  <2> QED
    BY <2>2, <2>3
<1>4. ASSUME NEW y \in Visible(t) PROVE y \in Visible(v)
  <2>1. PICK s \in t.segments : /\ y \in s.rows
                                /\ \A k \in t.tombstones : k.seq > s.seq => y \notin k.kills
    BY InVisible
  <2>2. CASE s.id \notin x.removes
    BY <2>1, <2>2, InVisible
  <2>3. CASE s.id \in x.removes
    <3>1. PICK a \in x.adds : TRUE
      OBVIOUS
    <3>2. y \in a.rows /\ s.seq <= a.seq
      BY <1>2, <2>1, <2>3
    <3>3. ASSUME NEW k \in v.tombstones, k.seq > a.seq PROVE y \notin k.kills
      <4>1. k.seq \in Nat /\ a.seq \in Nat /\ s.seq \in Nat
        BY <1>0
      <4>2. k.seq > s.seq
        BY <3>2, <3>3, <4>1
      <4> QED
        BY <2>1, <4>2
    <3> QED
      BY <3>2, <3>3, InVisible
  <2> QED
    BY <2>2, <2>3
<1>5. ASSUME NEW c PROVE RowsKept(t, v, c)
  <2> SUFFICES ASSUME NEW a \in v.segments, a.rows # {}
               PROVE  \E o \in t.segments : o.rows # {} /\ o.seq <= a.seq
    BY DEF RowsKept
  <2>1. CASE a \in t.segments
    BY <1>0, <2>1
  <2>2. CASE a \in x.adds
    BY <1>1, <2>2
  <2> QED
    BY <2>1, <2>2
<1> QED
  BY <1>3, <1>4, <1>5

(* A compaction's commit.                                                  *)
LEMMA CompactCommitContents ==
    ASSUME SafeInv, Named, Named', StoredRows, ContentsInv,
           NEW w \in Workers, CompactCommit(w)
    PROVE  ContentsInv' /\ Simulated
<1> DEFINE x == work[w]
<1>1. PICK t \in manifest.tables : \E v, n :
         /\ CommitTo(n) /\ EditOK(manifest, n, SegIds(x.adds), next_id)
         /\ Rebuilt(manifest, n, t, v)
         /\ t.name = x.table /\ v.tombstones = t.tombstones
         /\ v.segments = {s \in t.segments : s.id \notin x.removes} \union x.adds
         /\ x.removes \subseteq SegIds(t.segments)
         /\ \A j \in manifest.jobs : j.source # t.id
  BY CompactCommitParts
<1>2. PICK v, n :
         /\ CommitTo(n) /\ EditOK(manifest, n, SegIds(x.adds), next_id)
         /\ Rebuilt(manifest, n, t, v)
         /\ t.name = x.table /\ v.tombstones = t.tombstones
         /\ v.segments = {s \in t.segments : s.id \notin x.removes} \union x.adds
         /\ x.removes \subseteq SegIds(t.segments)
         /\ \A j \in manifest.jobs : j.source # t.id
  BY <1>1
<1>3. x.kind = "merge" /\ x.adds = WorkSegs(x)
  BY DEF CompactCommit, WorkSegs
<1>4. MergeRows(manifest, x) /\ ManifestRows(manifest, committed)
  BY <1>3 DEF StoredRows, WorkersRows, WorkRows
<1>5. MergeClear(manifest, x) /\ \A a \in x.adds : a.seq \in Nat /\ a.seq <= manifest.version
  BY <1>3 DEF ContentsInv, WorkersPast, WorkPast
<1>6. work' = [work EXCEPT ![w] = NoWork] /\ UNCHANGED <<in_flight, flushing, committed>>
  BY DEF CompactCommit, buffer
<1>7. \A u \in Workers : work'[u] = NoWork \/ work'[u] = work[u]
  BY <1>6, WorkerDone
<1>8. /\ n.tables = (manifest.tables \ {t}) \union {v} /\ v.name = t.name
      /\ n.jobs = manifest.jobs /\ n.retired = manifest.retired
      /\ IsManifest(n) /\ n.version = manifest.version
  BY <1>2 DEF Rebuilt, EditOK
<1>9. EntryPast(t, manifest.version) /\ manifest.version \in Nat
  BY DEF ContentsInv, ManifestOrder, Past, SafeInv, Safe, IsManifest
<1> HIDE DEF x
<1>10. \A a \in x.adds : a.rows = RowsOf({s \in t.segments : s.id \in x.removes})
  <2>1. /\ StillThere(manifest, x.removes)
        /\ RowsOf(Sel(manifest, x.removes)) = RowsOf({s \in t.segments : s.id \in x.removes})
    <3>1. SameFile(manifest) /\ t \in Entries(manifest) /\ x.removes \subseteq SegIds(t.segments)
      BY <1>2, <1>4 DEF ManifestRows, Entries
    <3> QED
      BY <3>1, SelWithin
  <2> QED
    BY <1>4, <2>1 DEF MergeRows
<1>11. \A a \in x.adds : \A s \in t.segments : s.id \in x.removes =>
          /\ s.seq <= a.seq
          /\ s.rows # {} => \A k \in t.tombstones : ~(s.seq < k.seq /\ k.seq <= a.seq)
  <2>1. t \in Killers(manifest) /\ t.segments \subseteq SegmentsIn(manifest)
    BY DEF Killers, SegmentsIn
  <2> QED
    BY <1>2, <1>5, <2>1 DEF MergeClear
<1>12. Visible(v) = Visible(t) /\ \A c : RowsKept(t, v, c)
  <2>1. x.adds # {} /\ \A a \in x.adds : a.seq \in Nat
    BY <1>5 DEF MergeClear
  <2> QED
    BY <1>2, <1>9, <1>10, <1>11, <2>1, MergeVisible
<1>13. Grows(manifest, v)
  <2>1. EntryPast(v, manifest.version)
    BY <1>2, <1>5, <1>9 DEF EntryPast
  <2>2. EntryPast(v, manifest.version + 1)
    BY <1>9, <2>1, PastLonger
  <2>3. KillsKept(t, v, manifest.version)
    BY <1>2, KillsInSelf, SameKillsKept
  <2>4. RowsKept(t, v, manifest.version)
    BY <1>12
  <2> QED
    BY <1>8, <2>2, <2>3, <2>4 DEF Grows
<1>14. /\ \A z \in n.tables : Grows(manifest, z)
       /\ \A z \in manifest.tables : \E y \in n.tables : y.name = z.name
       /\ \A j \in n.jobs : NewTarget(manifest, j)
  BY <1>8, <1>13 DEF Grows, NewTarget
<1>15. FilesKept
  BY CompactCommitRows
<1>16. /\ ContentsInv' /\ manifest'.tables = n.tables
       /\ Dropped(manifest') = Dropped(manifest)
  BY <1>2, <1>6, <1>7, <1>8, <1>14, <1>15, PlainContents
<1>17. Unnoticed
  <2>1. /\ \A u \in manifest'.tables : \E z \in manifest.tables :
             z.name = u.name /\ Visible(z) = Visible(u)
        /\ \A z \in manifest.tables : \E u \in manifest'.tables : u.name = z.name
    BY <1>8, <1>12, <1>16
  <2>2. UNCHANGED committed
    BY <1>6
  <2> QED
    BY <1>16, <2>1, <2>2, SameContents
<1> QED
  BY <1>16, <1>17 DEF Simulated, Unnoticed

(* The rows of a table in flight.                                          *)
InFlight(n) == {b.row : b \in {c \in in_flight : c.table = n}}

(* A flushed table shows its rows and those that were in flight.           *)
LEMMA GrownVisible ==
    ASSUME \A p \in flushing : IsSegment(p.seg), FlushExact, flushing # {},
           manifest.version \in Nat,
           NEW t \in manifest.tables, EntryPast(t, manifest.version),
           Grown(t).segments = t.segments \union FlushedInto(t),
           Grown(t).tombstones = t.tombstones
    PROVE  /\ Visible(Grown(t)) = Visible(t) \union InFlight(t.name)
           /\ \A s \in FlushedInto(t) : s.seq = manifest.version + 1
<1> DEFINE u == Grown(t)
<1>1. \A s \in FlushedInto(t) : \E p \in flushing :
         /\ p.table = t.name /\ s.rows = p.seg.rows /\ s.seq = manifest.version + 1
  BY FlushedKin
<1>2. \A p \in flushing : p.table = t.name => \E s \in FlushedInto(t) : s.rows = p.seg.rows
  <2> TAKE p \in flushing
  <2> HAVE p.table = t.name
  <2>1. [p.seg EXCEPT !.seq = manifest.version + 1] \in FlushedInto(t)
    BY DEF FlushedInto
  <2>2. [p.seg EXCEPT !.seq = manifest.version + 1].rows = p.seg.rows
    BY DEF IsSegment
  <2> QED
    BY <2>1, <2>2
<1>3. \A s \in FlushedInto(t) : s.seq = manifest.version + 1
  BY <1>1
<1>4. \A k \in t.tombstones : ~(k.seq > manifest.version + 1)
  <2> TAKE k \in t.tombstones
  <2>1. k.seq \in Nat /\ k.seq <= manifest.version
    BY DEF EntryPast, IsTombstone
  <2> QED
    BY <2>1
<1> HIDE DEF u
<1>5. ASSUME NEW x \in Visible(u) PROVE x \in Visible(t) \union InFlight(t.name)
  <2>1. PICK s \in u.segments : /\ x \in s.rows
                                /\ \A k \in u.tombstones : k.seq > s.seq => x \notin k.kills
    BY InVisible
  <2>2. CASE s \in t.segments
    BY <2>1, <2>2, InVisible DEF u
  <2>3. CASE s \in FlushedInto(t)
    <3>1. PICK p \in flushing : p.table = t.name /\ s.rows = p.seg.rows
      BY <1>1, <2>3
    <3>2. PICK b \in in_flight : b.table = p.table /\ b.row = x
      BY <2>1, <3>1 DEF FlushExact
    <3> QED
      BY <3>1, <3>2 DEF InFlight
  <2> QED
    BY <2>2, <2>3 DEF u
<1>6. ASSUME NEW x \in Visible(t) PROVE x \in Visible(u)
  BY InVisible DEF u
<1>7. ASSUME NEW x \in InFlight(t.name) PROVE x \in Visible(u)
  <2>1. PICK b \in in_flight : b.table = t.name /\ b.row = x
    BY DEF InFlight
  <2>2. PICK p \in flushing : p.table = t.name
    BY <2>1 DEF FlushExact
  <2>3. x \in p.seg.rows
    BY <2>1, <2>2 DEF FlushExact
  <2>4. PICK s \in FlushedInto(t) : s.rows = p.seg.rows
    BY <1>2, <2>2
  <2>5. \A k \in u.tombstones : k.seq > s.seq => x \notin k.kills
    BY <1>3, <1>4 DEF u
  <2>6. s \in u.segments
    BY DEF u
  <2> QED
    BY <2>3, <2>4, <2>5, <2>6, InVisible
<1> QED
  BY <1>3, <1>5, <1>6, <1>7 DEF u

(* A flush's commit.                                                       *)
LEMMA FlushCommitContents ==
    ASSUME SafeInv, Named, Named', Buffers, RowsInv, ContentsInv, FlushCommit
    PROVE  ContentsInv' /\ Simulated
<1> DEFINE n == AddFlushed
<1>1. /\ IsManifest(manifest) /\ IdsBelow(manifest) /\ manifest.version \in Nat
      /\ next_id \in Nat /\ manifest.next_segment_id <= next_id
  BY DEF SafeInv, Safe, IsManifest
<1>2. \A p \in flushing : IsSegment(p.seg) /\ p.seg.id < next_id
  BY DEF SafeInv, Safe, Fresh
<1>3. IsManifest(n) /\ n.version = manifest.version
  BY <1>1, <1>2, AddFlushedEdit DEF EditOK
<1>4. /\ n.tables = {Grown(t) : t \in manifest.tables}
      /\ n.jobs = manifest.jobs /\ n.retired = manifest.retired
      /\ \A t \in manifest.tables :
           /\ Grown(t).segments = t.segments \union FlushedInto(t)
           /\ Grown(t).id = t.id /\ Grown(t).name = t.name
           /\ Grown(t).schema = t.schema /\ Grown(t).tombstones = t.tombstones
  BY <1>1, <1>2, AddFlushedParts
<1>5. /\ CommitTo(n) /\ committed' = committed \union {b.row : b \in in_flight}
      /\ flushing' = {} /\ in_flight' = {} /\ work' = work /\ flushing # {}
  BY DEF FlushCommit, Idle
<1> HIDE DEF n
<1>6. \A t \in manifest.tables : EntryPast(t, manifest.version)
  BY DEF ContentsInv, ManifestOrder, Past
<1>7. ASSUME NEW t \in manifest.tables
      PROVE  /\ Visible(Grown(t)) = Visible(t) \union InFlight(t.name)
             /\ \A s \in FlushedInto(t) : s.seq = manifest.version + 1
  BY <1>1, <1>2, <1>4, <1>5, <1>6, GrownVisible DEF ContentsInv
<1>8. ASSUME NEW t \in manifest.tables PROVE Grows(manifest, Grown(t))
  <2> DEFINE u == Grown(t)
  <2>1. /\ u.segments = t.segments \union FlushedInto(t) /\ u.name = t.name
        /\ u.tombstones = t.tombstones
        /\ \A s \in FlushedInto(t) : s.seq = manifest.version + 1
    BY <1>4, <1>7
  <2>2. EntryPast(t, manifest.version + 1) /\ EntryPast(t, manifest.version)
    BY <1>1, <1>6, PastLonger
  <2> HIDE DEF u
  <2>3. EntryPast(u, manifest.version + 1)
    BY <1>1, <2>1, <2>2 DEF EntryPast
  <2>4. RowsKept(t, u, manifest.version)
    <3>1. \A s \in u.segments : s.seq \in Nat
      BY <2>3 DEF EntryPast
    <3>2. \A s \in u.segments : s \in t.segments \/ manifest.version < s.seq
      BY <1>1, <2>1
    <3> QED
      BY <3>1, <3>2 DEF RowsKept
  <2>5. KillsKept(t, u, manifest.version)
    BY <2>1, KillsInSelf, SameKillsKept
  <2> QED
    BY <2>1, <2>3, <2>4, <2>5 DEF Grows, u
<1>9. /\ manifest'.tables = n.tables /\ manifest'.jobs = n.jobs
      /\ manifest'.retired = n.retired /\ manifest'.version = manifest.version + 1
  BY <1>3, <1>5, CommitParts
<1>10. /\ ManifestOrder(manifest') /\ KillersFrom(manifest, manifest')
       /\ Dropped(manifest') = Dropped(manifest)
  <2> DEFINE m == manifest
             o == manifest'
  <2>1. ManifestOrder(m) /\ m.version \in Nat /\ o.version = m.version + 1
    BY <1>1, <1>9 DEF ContentsInv
  <2>2. /\ \A u \in o.tables : Grows(m, u)
        /\ \A t \in m.tables : \E u \in o.tables : u.name = t.name
    BY <1>4, <1>8, <1>9
  <2>3. /\ \A j \in o.jobs : NewTarget(m, j)
        /\ o.retired = m.retired
    BY <1>4, <1>9 DEF NewTarget
  <2> HIDE DEF m, o
  <2>4. ManifestOrder(o) /\ KillersFrom(m, o) /\ Dropped(o) = Dropped(m)
    BY <2>1, <2>2, <2>3, TablesOrder
  <2> QED
    BY <2>4 DEF m, o
<1>11. ContentsInv'
  <2>1. FilesKept
    BY FlushCommitRows DEF RowsInv
  <2>2. \A w \in Workers : work'[w] = work[w]
    BY <1>5
  <2>3. WorkersPast'
    BY <1>1, <1>9, <1>10, <2>1, <2>2, WorkersFrame DEF ContentsInv
  <2>4. FlushExact'
    BY <1>5 DEF FlushExact
  <2> QED
    BY <1>10, <2>3, <2>4 DEF ContentsInv
<1> DEFINE ns == {p.table : p \in flushing}
           new == [x \in ns |-> InFlight(x)]
<1>12. NamesUnique(manifest) /\ NamesUnique(manifest')
  BY DEF Named, UniqueIn, Unique, TablesUnique, NamesUnique
<1>13. ns \subseteq DOMAIN ShownRows(manifest)
  <2>1. DOMAIN ShownRows(manifest) = NamesOf(manifest)
    BY <1>12, LiveOf
  <2>2. \A p \in flushing : \E t \in manifest.tables : t.name = p.table
    BY DEF FlushCommit
  <2> QED
    BY <2>1, <2>2 DEF NamesOf
<1>14. /\ new \in [ns -> SUBSET Rows]
       /\ \A x \in DOMAIN new : new[x] \intersect committed = {}
  <2>1. \A b \in in_flight : b.row \in Rows /\ b.row \notin committed
    BY DEF Buffers, IsBatch, RowsInv, BufferRows, Buffered
  <2>2. \A x : InFlight(x) \subseteq Rows /\ InFlight(x) \intersect committed = {}
    BY <2>1 DEF InFlight
  <2> QED
    BY <2>2
<1>15. committed' = committed \union UNION {new[x] : x \in DOMAIN new}
  <2>1. UNION {new[x] : x \in DOMAIN new} = UNION {InFlight(x) : x \in ns}
    OBVIOUS
  <2>2. \A b \in in_flight : b.table \in ns
    BY <1>5 DEF ContentsInv, FlushExact
  <2>3. UNION {InFlight(x) : x \in ns} = {b.row : b \in in_flight}
    BY <2>2 DEF InFlight
  <2> HIDE DEF ns, new
  <2> QED
    BY <1>5, <2>1, <2>3
<1>16. ShownRows(manifest') = [x \in DOMAIN ShownRows(manifest) |->
          IF x \in DOMAIN new THEN ShownRows(manifest)[x] \union new[x]
                              ELSE ShownRows(manifest)[x]]
  <2> DEFINE f == ShownRows(manifest)
             g == ShownRows(manifest')
  <2>1. NamesOf(manifest') = NamesOf(manifest)
    BY <1>4, <1>9 DEF NamesOf
  <2>2. /\ DOMAIN f = NamesOf(manifest) /\ g = [x \in NamesOf(manifest') |-> g[x]]
    BY <1>12, LiveOf
  <2>3. ASSUME NEW x \in NamesOf(manifest)
        PROVE  g[x] = IF x \in ns THEN f[x] \union InFlight(x) ELSE f[x]
    <3>1. PICK t \in manifest.tables : t.name = x
      BY DEF NamesOf
    <3>2. Grown(t) \in manifest'.tables /\ Grown(t).name = x
      BY <1>4, <1>9, <3>1
    <3>3. g[Grown(t).name] = Visible(Grown(t)) /\ f[t.name] = Visible(t)
      BY <1>12, <3>2, LiveOf
    <3>4. g[x] = f[x] \union InFlight(x)
      BY <1>7, <3>1, <3>2, <3>3
    <3>5. x \notin ns => InFlight(x) = {}
      BY <1>5 DEF ContentsInv, FlushExact, InFlight
    <3> QED
      BY <3>4, <3>5
  <2>4. DOMAIN new = ns /\ \A x \in ns : new[x] = InFlight(x)
    OBVIOUS
  <2> HIDE DEF f, g, ns, new
  <2>5. g = [x \in DOMAIN f |-> IF x \in DOMAIN new THEN f[x] \union new[x] ELSE f[x]]
    BY <2>1, <2>2, <2>3, <2>4
  <2> QED
    BY <2>5 DEF f, g
<1>17. KeptRows(manifest') = KeptRows(manifest)
  BY <1>10, SameDropped
<1> HIDE DEF ns, new
<1>18. InsertShown(new)
  <2>1. DOMAIN new = ns
    BY <1>14
  <2> QED
    BY <1>13, <1>14, <1>15, <1>16, <1>17, <2>1 DEF InsertShown
<1> QED
  BY <1>11, <1>18 DEF Simulated

-----------------------------------------------------------------------------
(* Swap and revert: another definition under the same name.                *)

(* The order of a manifest in which the table t gives way to u.            *)
LEMMA ReplaceOrder ==
    ASSUME NEW m, NEW n, m.version \in Nat, n.version = m.version + 1, ManifestOrder(m),
           NEW t \in m.tables, NEW u, u.name = t.name,
           n.tables = (m.tables \ {t}) \union {u}, n.jobs \subseteq m.jobs,
           EntryPast(u, n.version), RowsKept(t, u, m.version),
           NEW q, q.entry = t, q.version = n.version, q.reason # "dropped",
           n.retired \subseteq m.retired \union {q}, Dropped(m) \subseteq n.retired,
           q \in Swapped(n) => \A z \in n.tables : z.name = t.name => SameKills(q, z),
           \/ KillsKept(t, u, m.version)
           \/ \A r \in Swapped(n) : r.entry.name = u.name =>
                r.version <= m.version /\ After(r.version, t),
           \A k \in u.tombstones : \E g \in Killers(m) : g.name = u.name /\
              \E l \in g.tombstones : l.seq = k.seq
    PROVE  ManifestOrder(n) /\ KillersFrom(m, n) /\ Dropped(n) = Dropped(m)
<1>1. /\ \A z \in m.tables : EntryPast(z, m.version)
      /\ \A j \in m.jobs : EntryPast(j.target, m.version) /\ j.target.tombstones = {}
  BY DEF ManifestOrder, Past
<1>2. m.version <= n.version /\ n.version \in Nat
  OBVIOUS
<1>3. Past(n)
  <2>1. \A z \in m.tables : EntryPast(z, n.version)
    BY <1>1, <1>2, PastLonger
  <2>2. \A j \in m.jobs : EntryPast(j.target, n.version) /\ j.target.tombstones = {}
    BY <1>1, <1>2, PastLonger
  <2>3. /\ \A z \in n.tables : EntryPast(z, n.version)
        /\ \A j \in n.jobs : EntryPast(j.target, n.version) /\ j.target.tombstones = {}
    BY <2>1, <2>2
  <2>4. /\ \A r \in n.retired : r \in m.retired \/
            (r.version = n.version /\ EntryPast(r.entry, n.version))
        /\ \A r, p \in n.retired : r \notin m.retired /\ p \notin m.retired => r = p
    BY <2>1
  <2> QED
    BY <2>3, <2>4, PastFrame DEF ManifestOrder
<1>4. Dropped(n) = Dropped(m)
  BY DEF Dropped
<1>5. \A r \in Swapped(n) : r \in Swapped(m) \/ r = q
  BY DEF Swapped
<1>6. Descends(m, n)
  <2> SUFFICES ASSUME NEW z \in n.tables
               PROVE  \E y \in m.tables :
                        /\ y.name = z.name /\ RowsKept(y, z, m.version)
                        /\ \/ KillsKept(y, z, m.version)
                           \/ \A r \in Swapped(n) : r.entry.name = z.name =>
                                r.version <= m.version /\ After(r.version, y)
    BY DEF Descends
  <2>1. CASE z = u
    BY <2>1
  <2>2. CASE z \in m.tables
    BY <1>1, <2>2, SelfKept
  <2> QED
    BY <2>1, <2>2
<1>7. \A r \in Swapped(n) : Superseded(n, r)
  <2> TAKE r \in Swapped(n)
  <2>1. CASE r \in Swapped(m)
    <3>1. Superseded(m, r)
      BY <2>1 DEF ManifestOrder, SwapOrder
    <3>2. \A z \in m.tables : \E y \in n.tables : y.name = z.name
      OBVIOUS
    <3> QED
      BY <1>4, <3>1, <3>2 DEF Superseded, HasTable
  <2>2. CASE r = q
    BY <2>2 DEF Superseded, HasTable
  <2> QED
    BY <1>5, <2>1, <2>2
<1>8. \A r \in Swapped(n) :
         \/ r \in Swapped(m)
         \/ /\ r.version = n.version
            /\ \A z \in n.tables : z.name = r.entry.name => SameKills(r, z)
  BY <1>5
<1>9. ManifestOrder(n)
  BY <1>3, <1>4, <1>6, <1>7, <1>8, OrderFrame
<1>10. KillersFrom(m, n)
  <2> SUFFICES ASSUME NEW f \in Killers(n), NEW k \in f.tombstones
               PROVE  \E g \in Killers(m) : g.name = f.name /\
                         \E l \in g.tombstones : l.seq = k.seq
    BY DEF KillersFrom
  <2>1. CASE f = u
    BY <2>1
  <2>2. CASE f # u
    <3>1. \A r \in Dropped(n) \union Swapped(n) :
             r \in Dropped(m) \union Swapped(m) \/ r.entry = t
      BY <1>4, <1>5
    <3>2. f \in Killers(m)
      BY <2>2, <3>1 DEF Killers
    <3> QED
      BY <3>2
  <2> QED
    BY <2>1, <2>2
<1> QED
  BY <1>4, <1>9, <1>10

(* Such a commit is not noticed when the rows shown are the same.          *)
LEMMA ReplaceContents ==
    ASSUME SafeInv, Named, Named', ContentsInv, NEW n, IsManifest(n),
           n.version = manifest.version, CommitTo(n), FilesKept,
           NEW t \in manifest.tables, NEW u, u.name = t.name, Visible(u) = Visible(t),
           n.tables = (manifest.tables \ {t}) \union {u}, n.jobs \subseteq manifest.jobs,
           EntryPast(u, manifest.version + 1), RowsKept(t, u, manifest.version),
           NEW q, q.entry = t, q.version = manifest.version + 1, q.reason # "dropped",
           n.retired \subseteq manifest.retired \union {q},
           Dropped(manifest) \subseteq n.retired,
           q.reason = "swapped" => SameKills(q, u),
           \/ KillsKept(t, u, manifest.version)
           \/ \A r \in Swapped(n) : r.entry.name = u.name =>
                r.version <= manifest.version /\ After(r.version, t),
           \A k \in u.tombstones : \E g \in Killers(manifest) : g.name = u.name /\
              \E l \in g.tombstones : l.seq = k.seq,
           UNCHANGED <<in_flight, flushing, work, committed>>
    PROVE  ContentsInv' /\ Simulated
<1> DEFINE m == manifest
           o == manifest'
<1>1. /\ o.tables = n.tables /\ o.jobs = n.jobs /\ o.retired = n.retired
      /\ m.version \in Nat /\ o.version = m.version + 1
  BY CommitParts
<1>2. ManifestOrder(m)
  BY DEF ContentsInv
<1>3. Swapped(o) = Swapped(n)
  BY <1>1 DEF Swapped
<1>4. /\ t \in m.tables /\ o.tables = (m.tables \ {t}) \union {u} /\ o.jobs \subseteq m.jobs
      /\ EntryPast(u, o.version) /\ RowsKept(t, u, m.version)
      /\ q.version = o.version /\ o.retired \subseteq m.retired \union {q}
      /\ Dropped(m) \subseteq o.retired
  BY <1>1
<1>5. q \in Swapped(o) => \A z \in o.tables : z.name = t.name => SameKills(q, z)
  <2>1. \A z \in o.tables : z.name = t.name => z = u
    BY <1>4 DEF Named, UniqueIn, Unique, TablesUnique
  <2> QED
    BY <2>1 DEF Swapped
<1>6. /\ \/ KillsKept(t, u, m.version)
         \/ \A r \in Swapped(o) : r.entry.name = u.name =>
              r.version <= m.version /\ After(r.version, t)
      /\ \A k \in u.tombstones : \E g \in Killers(m) : g.name = u.name /\
           \E l \in g.tombstones : l.seq = k.seq
  BY <1>3
<1>7. ManifestOrder(o) /\ KillersFrom(m, o) /\ Dropped(o) = Dropped(m)
  <2> HIDE DEF m, o
  <2> QED
    BY <1>1, <1>2, <1>4, <1>5, <1>6, ReplaceOrder
<1>8. ContentsInv'
  BY <1>1, <1>7, CommitContents
<1>9. Unnoticed
  <2>1. /\ \A z \in manifest'.tables : \E y \in manifest.tables :
             y.name = z.name /\ Visible(y) = Visible(z)
        /\ \A y \in manifest.tables : \E z \in manifest'.tables : z.name = y.name
    BY <1>1
  <2> QED
    BY <1>7, <2>1, SameContents
<1> QED
  BY <1>8, <1>9 DEF Simulated, Unnoticed

(* A swap: the target has the rows of the source, at their seqs, and its   *)
(* tombstones, renamed.                                                    *)
LEMMA JobSwapContents ==
    ASSUME SafeInv, Named, Named', StoredRows, StoredRows', ContentsInv,
           NEW j \in manifest.jobs, JobSwap(j)
    PROVE  ContentsInv' /\ Simulated
<1>1. PICK t \in manifest.tables : \E u, r, n :
         /\ IsManifest(n) /\ CommitTo(n) /\ n.version = manifest.version
         /\ n.tables = (manifest.tables \ {t}) \union {u}
         /\ n.jobs \subseteq manifest.jobs /\ n.retired = manifest.retired \union {r}
         /\ u.name = t.name /\ u.schema = j.target.schema
         /\ u.segments = j.target.segments \union Carried(t, j, SegIds(Gap(t, j)))
         /\ u.tombstones = RenameTombstones(t.tombstones, t.schema, j.target.schema)
         /\ r.entry = t /\ r.successor_segments = SegIds(u.segments)
         /\ r.reason = "swapped" /\ r.version = manifest.version + 1
         /\ ~BufferHolds(in_flight, t.name)
         /\ pending' = ProjectPending(t.name, t.schema, j.target.schema)
  BY JobSwapParts
<1>2. PICK u, r, n :
         /\ IsManifest(n) /\ CommitTo(n) /\ n.version = manifest.version
         /\ n.tables = (manifest.tables \ {t}) \union {u}
         /\ n.jobs \subseteq manifest.jobs /\ n.retired = manifest.retired \union {r}
         /\ u.name = t.name
         /\ u.segments = j.target.segments \union Carried(t, j, SegIds(Gap(t, j)))
         /\ u.tombstones = RenameTombstones(t.tombstones, t.schema, j.target.schema)
         /\ r.entry = t /\ r.successor_segments = SegIds(u.segments)
         /\ r.reason = "swapped" /\ r.version = manifest.version + 1
  BY <1>1
<1>3. UNCHANGED <<in_flight, flushing, work, committed>>
  BY DEF JobSwap
<1>4. /\ manifest'.tables = n.tables /\ manifest'.retired = n.retired
      /\ manifest.version \in Nat
  BY <1>2, CommitParts
<1>5. SeqRows(u.segments) = SeqRows(t.segments)
  <2> DEFINE o == manifest'
  <2>1. SameFile(o) /\ Successors(o)
    BY DEF StoredRows, ManifestRows
  <2>2. u.segments \subseteq SegmentsIn(o) /\ r \in o.retired
    BY <1>2, <1>4 DEF SegmentsIn
  <2> HIDE DEF o
  <2>3. Carries(o, SegIds(u.segments), t.segments)
    BY <1>2, <2>1, <2>2 DEF Successors
  <2>4. /\ SeqRows(Sel(o, SegIds(u.segments))) = SeqRows(u.segments)
        /\ StillThere(o, SegIds(u.segments))
    BY <2>1, <2>2, SelOf DEF StillThere
  <2> QED
    BY <2>3, <2>4 DEF Carries
<1>6. EntryPast(t, manifest.version) /\ EntryPast(j.target, manifest.version)
  BY DEF ContentsInv, ManifestOrder, Past
<1>7. /\ KillsIn(t.tombstones, u.tombstones) /\ KillsIn(u.tombstones, t.tombstones)
      /\ \A l \in u.tombstones : IsTombstone(l)
  <2>1. \A k \in t.tombstones : IsTombstone(k)
    BY <1>6 DEF EntryPast
  <2> QED
    BY <1>2, <2>1, RenameKills
<1>8. EntryPast(u, manifest.version)
  <2>1. \A s \in Carried(t, j, SegIds(Gap(t, j))) : s.seq \in Nat /\ s.seq <= manifest.version
    <3> TAKE s \in Carried(t, j, SegIds(Gap(t, j)))
    <3>1. PICK x \in t.segments : Kin(s, x)
      BY CarriedKin
    <3> QED
      BY <1>6, <3>1 DEF EntryPast, Kin
  <2>2. \A s \in u.segments : s.seq \in Nat /\ s.seq <= manifest.version
    BY <1>2, <1>6, <2>1 DEF EntryPast
  <2>3. \A l \in u.tombstones : l.seq <= manifest.version
    BY <1>6, <1>7 DEF KillsIn, EntryPast
  <2> QED
    BY <1>7, <2>2, <2>3 DEF EntryPast
<1>9. EntryPast(u, manifest.version + 1)
  BY <1>4, <1>8, PastLonger
<1>10. Visible(u) = Visible(t)
  BY <1>5, <1>7, SameVisible
<1>11. RowsKept(t, u, manifest.version) /\ KillsKept(t, u, manifest.version)
  BY <1>5, <1>7, <1>8, SeqRowsKept, SameKillsKept
<1>12. SameKills(r, u)
  <2>1. {l \in u.tombstones : l.seq <= r.version} \subseteq u.tombstones
    OBVIOUS
  <2>2. KillsIn({l \in u.tombstones : l.seq <= r.version}, t.tombstones)
    BY <1>7, <2>1, KillsInSelf
  <2> QED
    BY <1>2, <1>7, <2>2 DEF SameKills
<1>13. \A k \in u.tombstones : \E g \in Killers(manifest) : g.name = u.name /\
          \E l \in g.tombstones : l.seq = k.seq
  <2>1. t \in Killers(manifest)
    BY DEF Killers
  <2> QED
    BY <1>2, <1>7, <2>1 DEF KillsIn
<1>14. FilesKept
  BY JobSwapRows
<1>15. Dropped(manifest) \subseteq n.retired /\ r.reason # "dropped"
  BY <1>2 DEF Dropped
<1>16. n.retired \subseteq manifest.retired \union {r}
  BY <1>2
<1> QED
  BY <1>2, <1>3, <1>9, <1>10, <1>11, <1>12, <1>13, <1>14, <1>15, <1>16, ReplaceContents

(* Rows and deletes that differ only below the rows.                       *)
LEMMA VisibleAbove ==
    ASSUME NEW t, NEW u, SeqRows(t.segments) \subseteq SeqRows(u.segments), NEW v,
           After(v, t), NEW b, EntryPast(t, b), v \in Nat,
           \A l \in u.tombstones : l.seq \in Nat /\
              (l.seq <= v \/ \E k \in t.tombstones : k.seq = l.seq /\ k.kills = l.kills)
    PROVE  Visible(t) \subseteq Visible(u)
<1> SUFFICES ASSUME NEW x \in Visible(t) PROVE x \in Visible(u)
  OBVIOUS
<1>1. PICK s \in t.segments : /\ x \in s.rows
                              /\ \A k \in t.tombstones : k.seq > s.seq => x \notin k.kills
  BY InVisible
<1>2. s.seq \in Nat /\ v < s.seq
  BY <1>1 DEF EntryPast, After
<1>3. <<s.seq, x>> \in SeqRows(t.segments)
  BY <1>1, InSeqRows
<1>4. PICK o \in u.segments : o.seq = s.seq /\ x \in o.rows
  BY <1>3, InSeqRows
<1>5. ASSUME NEW l \in u.tombstones, l.seq > o.seq PROVE x \notin l.kills
  <2>1. l.seq \in Nat /\ ~(l.seq <= v)
    BY <1>2, <1>4, <1>5
  <2>2. PICK k \in t.tombstones : k.seq = l.seq /\ k.kills = l.kills
    BY <2>1
  <2> QED
    BY <1>1, <1>4, <1>5, <2>2
<1> QED
  BY <1>4, <1>5, InVisible

(* What a revert restores: the rows of the live table, at their seqs.      *)
LEMMA RestoredRows ==
    ASSUME NEW m, SameFile(m), Successors(m), NEW cur \in m.tables, NEW r \in m.retired,
           r.reason = "swapped", r.successor_segments \subseteq SegIds(cur.segments),
           NEW schema, NEW S,
           S = r.entry.segments \union {ProjectOnto(s, schema) : s \in Since(r, cur)}
    PROVE  /\ SeqRows(S) = SeqRows(cur.segments)
           /\ \A s \in S : \/ s \in r.entry.segments
                           \/ \E o \in cur.segments : o.seq = s.seq
<1> DEFINE ids == r.successor_segments
           left == {s \in cur.segments : s.id \in ids}
           more == {ProjectOnto(s, schema) : s \in Since(r, cur)}
<1>1. /\ \A s \in more : \E o \in Since(r, cur) : o.seq = s.seq /\ o.rows = s.rows
      /\ \A o \in Since(r, cur) : \E s \in more : s.seq = o.seq /\ s.rows = o.rows
  <2>1. \A s : ProjectOnto(s, schema).seq = s.seq /\ ProjectOnto(s, schema).rows = s.rows
    BY DEF ProjectOnto
  <2> QED
    BY <2>1
<1>2. SeqRows(more) = SeqRows(Since(r, cur))
  <2> HIDE DEF more
  <2>1. SeqRows(more) \subseteq SeqRows(Since(r, cur))
    BY <1>1, SeqRowsWithin
  <2>2. SeqRows(Since(r, cur)) \subseteq SeqRows(more)
    BY <1>1, SeqRowsWithin
  <2> QED
    BY <2>1, <2>2
<1>3. StillThere(m, ids) /\ SeqRows(Sel(m, ids)) = SeqRows(left)
  <2>1. cur \in Entries(m) /\ ids \subseteq SegIds(cur.segments)
    BY DEF Entries
  <2> HIDE DEF ids
  <2> QED
    BY <2>1, SelWithin
<1>4. SeqRows(r.entry.segments) = SeqRows(left)
  BY <1>3 DEF Successors, Carries
<1>5. cur.segments = left \union Since(r, cur)
  BY DEF Since
<1>6. \A s \in S : s \in r.entry.segments \/ s \in more
  OBVIOUS
<1>7. Since(r, cur) \subseteq cur.segments
  BY DEF Since
<1>8. S = r.entry.segments \union more
  OBVIOUS
<1> HIDE DEF left, more
<1>9. SeqRows(S) = SeqRows(cur.segments)
  <2>1. SeqRows(r.entry.segments \union more) =
          SeqRows(r.entry.segments) \union SeqRows(more)
    BY SeqRowsUnion
  <2>2. SeqRows(left \union Since(r, cur)) = SeqRows(left) \union SeqRows(Since(r, cur))
    BY SeqRowsUnion
  <2> QED
    BY <1>2, <1>4, <1>5, <1>8, <2>1, <2>2
<1> QED
  BY <1>1, <1>6, <1>7, <1>9

(* REVERT.                                                                 *)
LEMMA RevertContents ==
    ASSUME SafeInv, Named, Named', StoredRows, ContentsInv, NEW nm, Revert(nm)
    PROVE  ContentsInv' /\ Simulated
<1>1. PICK cur \in manifest.tables, r \in manifest.retired :
         CanRevertTable(manifest, r, cur) /\ CommitTo(RevertTable(manifest, r, cur))
  BY DEF Revert
<1> DEFINE n == RevertTable(manifest, r, cur)
           later == RenameTombstones(LaterKills(r, cur), cur.schema, r.entry.schema)
<1>2. EditOK(manifest, n, {}, next_id) /\ IsManifest(manifest)
  BY RevertTableEdit DEF SafeInv, Safe
<1>3. CommitTo(n) /\ UNCHANGED <<in_flight, flushing, work, committed>>
  BY <1>1 DEF Revert
<1>4. PICK v, q : /\ n.tables = (manifest.tables \ {cur}) \union {v}
                  /\ n.jobs = manifest.jobs
                  /\ n.retired = (manifest.retired \ {r}) \union {q}
                  /\ v.segments = r.entry.segments \union
                       {ProjectOnto(s, r.entry.schema) : s \in Since(r, cur)}
                  /\ v.name = r.entry.name /\ v.schema = r.entry.schema
                  /\ v.id = r.entry.id /\ v.next_field_id = NextField(r, cur)
                  /\ v.tombstones = r.entry.tombstones \union later
                  /\ q.entry = cur /\ q.reason = "reverted"
                  /\ q.successor_segments = {} /\ q.version = manifest.version + 1
  BY <1>2, RevertTableParts, SMTT(20), ZenonT(20)
<1>5. /\ IsManifest(n) /\ n.version = manifest.version /\ manifest.version \in Nat
  BY <1>2 DEF EditOK, IsManifest
<1> HIDE DEF n
<1>6. /\ r.reason = "swapped" /\ r.entry.name = cur.name
      /\ r.successor_segments \subseteq SegIds(cur.segments)
      /\ \A p \in manifest.retired :
           p.reason = "swapped" /\ p.entry.name = r.entry.name => p.version <= r.version
  BY <1>1 DEF CanRevertTable, LastRetired
<1>7. r \in Swapped(manifest)
  BY <1>6 DEF Swapped, Revert
<1>8. /\ EntryPast(cur, manifest.version) /\ EntryPast(r.entry, r.version)
      /\ r.version \in Nat /\ r.version <= manifest.version
      /\ SameKills(r, cur) \/ After(r.version, cur)
  BY <1>6, <1>7 DEF ContentsInv, ManifestOrder, Past, SwapOrder, Follows
<1>9. /\ SeqRows(v.segments) = SeqRows(cur.segments)
      /\ \A s \in v.segments : s \in r.entry.segments \/ \E o \in cur.segments : o.seq = s.seq
  <2>1. SameFile(manifest) /\ Successors(manifest)
    BY DEF StoredRows, ManifestRows
  <2> DEFINE schema == r.entry.schema
             S == v.segments
  <2>2. S = r.entry.segments \union {ProjectOnto(s, schema) : s \in Since(r, cur)}
    BY <1>4
  <2> HIDE DEF schema, S
  <2>3. /\ SeqRows(S) = SeqRows(cur.segments)
        /\ \A s \in S : s \in r.entry.segments \/ \E o \in cur.segments : o.seq = s.seq
    BY <1>6, <2>1, <2>2, RestoredRows
  <2> QED
    BY <2>3 DEF S
<1>10. /\ KillsIn(LaterKills(r, cur), later) /\ KillsIn(later, LaterKills(r, cur))
       /\ \A l \in later : IsTombstone(l)
  <2>1. \A k \in LaterKills(r, cur) : IsTombstone(k)
    BY <1>8 DEF EntryPast, LaterKills
  <2> QED
    BY <2>1, RenameKills
<1> HIDE DEF later
<1>11. \A l \in later : \E k \in cur.tombstones : k.seq = l.seq /\ k.kills = l.kills
  BY <1>10 DEF KillsIn, LaterKills
<1>12. \A k \in cur.tombstones : k.seq > r.version =>
          \E l \in later : l.seq = k.seq /\ l.kills = k.kills
  BY <1>10 DEF KillsIn, LaterKills
<1>13. EntryPast(v, manifest.version)
  <2>1. EntryPast(r.entry, manifest.version)
    BY <1>5, <1>8, PastLonger
  <2>2. \A s \in v.segments : s.seq \in Nat /\ s.seq <= manifest.version
    BY <1>8, <1>9, <2>1 DEF EntryPast
  <2>3. \A l \in later : l.seq <= manifest.version
    BY <1>8, <1>11 DEF EntryPast
  <2> QED
    BY <1>4, <1>10, <2>1, <2>2, <2>3 DEF EntryPast
<1>14. EntryPast(v, manifest.version + 1)
  BY <1>5, <1>13, PastLonger
<1>15. RowsKept(cur, v, manifest.version)
  BY <1>9, <1>13, SeqRowsKept
<1>16. /\ Visible(v) = Visible(cur)
       /\ \/ KillsKept(cur, v, manifest.version)
          \/ \A p \in Swapped(n) : p.entry.name = v.name =>
                p.version <= manifest.version /\ After(p.version, cur)
  <2>1. CASE SameKills(r, cur)
    <3>1. KillsIn(v.tombstones, cur.tombstones)
      BY <1>4, <1>11, <2>1 DEF SameKills, KillsIn
    <3>2. KillsIn(cur.tombstones, v.tombstones)
      <4> SUFFICES ASSUME NEW k \in cur.tombstones
                   PROVE  \E l \in v.tombstones : l.seq = k.seq /\ l.kills = k.kills
        BY DEF KillsIn
      <4>1. CASE k.seq <= r.version
        BY <1>4, <2>1, <4>1 DEF SameKills, KillsIn
      <4>2. CASE k.seq > r.version
        BY <1>4, <1>12, <4>2
      <4>3. k.seq \in Nat
        BY <1>8 DEF EntryPast, IsTombstone
      <4> QED
        BY <1>8, <4>1, <4>2, <4>3
    <3> QED
      BY <1>9, <3>1, <3>2, SameVisible, SameKillsKept
  <2>2. CASE After(r.version, cur)
    <3>1. After(r.version, v)
      BY <1>5, <1>8, <1>13, <1>15, <2>2, AfterKept
    <3>2. \A k \in cur.tombstones : k.seq \in Nat /\
             (k.seq <= r.version \/ \E l \in v.tombstones : l.seq = k.seq /\ l.kills = k.kills)
      <4> TAKE k \in cur.tombstones
      <4>1. k.seq \in Nat
        BY <1>8 DEF EntryPast, IsTombstone
      <4>2. k.seq <= r.version \/ k.seq > r.version
        BY <1>8, <4>1
      <4> QED
        BY <1>4, <1>12, <4>1, <4>2
    <3>3. \A l \in v.tombstones : l.seq \in Nat /\
             (l.seq <= r.version \/ \E k \in cur.tombstones : k.seq = l.seq /\ k.kills = l.kills)
      <4> TAKE l \in v.tombstones
      <4>1. l.seq \in Nat
        BY <1>13 DEF EntryPast, IsTombstone
      <4>2. l \in r.entry.tombstones => l.seq <= r.version
        BY <1>8 DEF EntryPast
      <4> QED
        BY <1>4, <1>11, <4>1, <4>2
    <3>4. Visible(v) \subseteq Visible(cur)
      BY <1>8, <1>9, <1>13, <3>1, <3>2, VisibleAbove
    <3>5. Visible(cur) \subseteq Visible(v)
      BY <1>8, <1>9, <2>2, <3>3, VisibleAbove
    <3>6. ASSUME NEW p \in Swapped(n), p.entry.name = v.name
          PROVE  p.version <= manifest.version /\ After(p.version, cur)
      <4>1. p \in manifest.retired /\ p.reason = "swapped"
        BY <1>4 DEF Swapped
      <4>2. p.version \in Nat /\ p.version <= manifest.version /\ p.version <= r.version
        BY <1>4, <1>6, <3>6, <4>1 DEF ContentsInv, ManifestOrder, Past
      <4> QED
        BY <1>8, <2>2, <4>2, AfterEarlier
    <3> QED
      BY <3>4, <3>5, <3>6
  <2> QED
    BY <1>8, <2>1, <2>2
<1>17. \A k \in v.tombstones : \E g \in Killers(manifest) : g.name = v.name /\
          \E l \in g.tombstones : l.seq = k.seq
  <2>1. cur \in Killers(manifest) /\ r.entry \in Killers(manifest)
    BY <1>7 DEF Killers
  <2> QED
    BY <1>4, <1>6, <1>11, <2>1
<1>18. FilesKept
  BY RevertRows
<1>19. /\ Dropped(manifest) \subseteq n.retired
       /\ n.retired \subseteq manifest.retired \union {q}
       /\ n.jobs \subseteq manifest.jobs /\ v.name = cur.name
       /\ q.reason # "dropped" /\ q.reason # "swapped"
  BY <1>4, <1>6 DEF Dropped
<1> QED
  BY <1>3, <1>4, <1>5, <1>14, <1>15, <1>16, <1>17, <1>18, <1>19, ReplaceContents

-----------------------------------------------------------------------------
(* DROP, UNDROP and expiry.                                                *)

(* The order of a manifest in which t is retired.                          *)
LEMMA DropOrdered ==
    ASSUME NEW m, NEW n, m.version \in Nat, n.version = m.version + 1, ManifestOrder(m),
           NamesUnique(m), NEW t \in m.tables, n.tables = m.tables \ {t},
           n.jobs = m.jobs, NEW r, n.retired = m.retired \union {r}, r.entry = t,
           r.reason = "dropped", r.version = n.version
    PROVE  /\ ManifestOrder(n) /\ KillersFrom(m, n)
           /\ Dropped(n) = Dropped(m) \union {r}
<1>1. /\ \A z \in m.tables : EntryPast(z, m.version)
      /\ \A j \in m.jobs : EntryPast(j.target, m.version) /\ j.target.tombstones = {}
      /\ \A q \in m.retired : q.version \in Nat /\ q.version <= m.version
  BY DEF ManifestOrder, Past
<1>2. m.version <= n.version /\ n.version \in Nat
  OBVIOUS
<1>3. Past(n)
  <2>1. \A z \in m.tables : EntryPast(z, n.version)
    BY <1>1, <1>2, PastLonger
  <2>2. \A j \in n.jobs : EntryPast(j.target, n.version) /\ j.target.tombstones = {}
    BY <1>1, <1>2, PastLonger
  <2>3. \A q \in n.retired : q \in m.retired \/
           (q.version = n.version /\ EntryPast(q.entry, n.version))
    BY <2>1
  <2> QED
    BY <2>1, <2>2, <2>3, PastFrame DEF ManifestOrder
<1>4. Dropped(n) = Dropped(m) \union {r} /\ Swapped(n) = Swapped(m)
  BY DEF Dropped, Swapped
<1>5. /\ \A d \in Dropped(m) : d.version \in Nat /\ d.version < r.version
      /\ \A d \in Swapped(m) : d.version \in Nat /\ d.version < r.version
  BY <1>1 DEF Dropped, Swapped
<1>6. DropOrder(n)
  <2>1. ASSUME NEW d \in Dropped(n), NEW z \in n.tables, z.name = d.entry.name
        PROVE  After(d.version, z)
    <3>1. d # r
      BY <2>1 DEF NamesUnique
    <3> QED
      BY <1>4, <2>1, <3>1 DEF ManifestOrder, DropOrder
  <2>2. ASSUME NEW d \in Dropped(n), NEW c \in Dropped(n), c.entry.name = d.entry.name,
               d.version < c.version
        PROVE  After(d.version, c.entry)
    <3>1. d # r
      BY <1>4, <1>5, <2>2
    <3> QED
      BY <1>4, <2>2, <3>1 DEF ManifestOrder, DropOrder
  <2> QED
    BY <2>1, <2>2 DEF DropOrder
<1>7. SwapOrder(n)
  <2> SUFFICES ASSUME NEW q \in Swapped(m)
               PROVE  /\ \A z \in n.tables : Follows(q, z)
                      /\ \A d \in Dropped(n) : q.version < d.version => Follows(q, d.entry)
                      /\ Superseded(n, q)
    BY <1>4 DEF SwapOrder
  <2>1. /\ \A z \in m.tables : Follows(q, z)
        /\ \A d \in Dropped(m) : q.version < d.version => Follows(q, d.entry)
        /\ Superseded(m, q)
    BY DEF ManifestOrder, SwapOrder
  <2>2. \A d \in Dropped(n) : q.version < d.version => Follows(q, d.entry)
    BY <1>4, <2>1
  <2>3. Superseded(n, q)
    <3>1. CASE q.entry.name = t.name
      BY <1>4, <1>5, <3>1 DEF Superseded
    <3>2. CASE q.entry.name # t.name
      BY <1>4, <2>1, <3>2 DEF Superseded, HasTable
    <3> QED
      BY <3>1, <3>2
  <2> QED
    BY <2>1, <2>2, <2>3
<1>8. KillersFrom(m, n)
  <2>1. Killers(n) \subseteq Killers(m)
    BY <1>4 DEF Killers
  <2> QED
    BY <2>1 DEF KillersFrom
<1> QED
  BY <1>3, <1>4, <1>6, <1>7, <1>8 DEF ManifestOrder

(* DROP TABLE.                                                             *)
LEMMA DropContents ==
    ASSUME SafeInv, Named, Named', StoredRows, ContentsInv, NEW nm, Drop(nm)
    PROVE  ContentsInv' /\ DropShown(nm)
<1>1. PICK t \in manifest.tables : t.name = nm /\ CommitTo(DropTable(manifest, t))
  BY DEF Drop
<1> DEFINE n == DropTable(manifest, t)
<1>2. EditOK(manifest, n, {}, next_id) /\ IsManifest(manifest)
  BY DropTableEdit DEF SafeInv, Safe
<1>3. CommitTo(n) /\ UNCHANGED <<in_flight, flushing, work, committed>>
  BY <1>1 DEF Drop, buffer
<1>4. PICK r : /\ n.tables = manifest.tables \ {t} /\ n.jobs = manifest.jobs
               /\ n.retired = manifest.retired \union {r} /\ r.entry = t
               /\ r.reason = "dropped" /\ r.successor_segments = {}
               /\ r.version = manifest.version + 1
  BY <1>2, DropTableParts
<1>5. IsManifest(n) /\ n.version = manifest.version
  BY <1>2 DEF EditOK
<1> HIDE DEF n
<1> DEFINE m == manifest
           o == manifest'
<1>6. /\ o.tables = m.tables \ {t} /\ o.jobs = m.jobs /\ o.retired = m.retired \union {r}
      /\ m.version \in Nat /\ o.version = m.version + 1 /\ r.version = o.version
  BY <1>3, <1>4, <1>5, CommitParts
<1>7. NamesUnique(m)
  BY DEF Named, UniqueIn, Unique, TablesUnique, NamesUnique
<1>8. t \in m.tables /\ ManifestOrder(m)
  BY DEF ContentsInv
<1>9. /\ ManifestOrder(o) /\ KillersFrom(m, o)
      /\ Dropped(o) = Dropped(m) \union {r}
  <2> HIDE DEF m, o
  <2> QED
    BY <1>4, <1>6, <1>7, <1>8, DropOrdered
<1>10. FilesKept
  BY DropRows
<1>11. ContentsInv'
  <2>1. \A w \in Workers : work'[w] = work[w]
    BY <1>3
  <2> QED
    BY <1>3, <1>6, <1>9, <1>10, <2>1, CommitContents
<1>12. ShownRows(o) = Contents!Without(ShownRows(m), t.name)
  BY <1>6, <1>7, LiveWithout
<1>13. t.name \in DOMAIN ShownRows(m) /\ ShownRows(m)[t.name] = Visible(t)
  <2>1. DOMAIN ShownRows(m) = NamesOf(m) /\ ShownRows(m)[t.name] = Visible(t)
    BY <1>7, LiveOf
  <2> QED
    BY <2>1 DEF NamesOf
<1>14. /\ KeptRows(o) = KeptRows(m) \union {Def(r)}
       /\ \A e \in KeptRows(m) : e.at < Def(r).at
       /\ Def(r).name = t.name /\ Def(r).rows = Visible(t)
  <2>1. \A d : d \in KeptRows(o) <=> d \in KeptRows(m) \/ d = Def(r)
    BY <1>9, InDropped
  <2>2. KeptRows(o) = KeptRows(m) \union {Def(r)}
    <3> HIDE DEF m, o
    <3> QED
      BY <2>1
  <2>3. ASSUME NEW e \in KeptRows(m) PROVE e.at < Def(r).at
    <3>1. PICK q \in Dropped(m) : e = Def(q)
      BY InDropped
    <3>2. q.version \in Nat /\ q.version <= m.version
      BY <1>8 DEF Dropped, ManifestOrder, Past
    <3>3. Def(q).at = q.version /\ Def(r).at = r.version
      BY DEF Def
    <3> QED
      BY <1>6, <3>1, <3>2, <3>3
  <2>4. Def(r).name = t.name /\ Def(r).rows = Visible(t)
    BY <1>4 DEF Def
  <2> QED
    BY <2>2, <2>3, <2>4
<1>15. DropShown(t.name)
  <2>1. Def(r) \in KeptRows(o)
    BY <1>14
  <2>2. UNCHANGED committed
    BY <1>3
  <2>3. asked' = [op |-> "drop", table |-> t.name]
    BY <1>1 DEF Drop
  <2> QED
    BY <1>12, <1>13, <1>14, <2>1, <2>2, <2>3 DEF DropShown
<1> QED
  BY <1>1, <1>11, <1>15

(* The order of a manifest in which the last definition dropped under its  *)
(* name is back.                                                           *)
LEMMA UndropOrdered ==
    ASSUME NEW m, NEW n, m.version \in Nat, n.version = m.version + 1, ManifestOrder(m),
           NEW r \in m.retired, n.tables = m.tables \union {r.entry},
           n.jobs = m.jobs, n.retired = m.retired \ {r},
           LastRetired(m, r, "dropped"), ~HasTable(m, r.entry.name)
    PROVE  /\ ManifestOrder(n) /\ KillersFrom(m, n)
           /\ r \in Dropped(m) /\ Dropped(n) = Dropped(m) \ {r}
<1>1. /\ \A z \in m.tables : EntryPast(z, m.version)
      /\ \A j \in m.jobs : EntryPast(j.target, m.version) /\ j.target.tombstones = {}
      /\ \A q \in m.retired : q.version \in Nat /\ q.version <= m.version
      /\ EntryPast(r.entry, r.version)
  BY DEF ManifestOrder, Past
<1>2. m.version <= n.version /\ n.version \in Nat /\ r.version <= n.version
  BY <1>1
<1>3. Past(n)
  <2>1. \A z \in n.tables : EntryPast(z, n.version)
    BY <1>1, <1>2, PastLonger
  <2>2. \A j \in n.jobs : EntryPast(j.target, n.version) /\ j.target.tombstones = {}
    BY <1>1, <1>2, PastLonger
  <2> QED
    BY <2>1, <2>2, PastFrame DEF ManifestOrder
<1>4. /\ r \in Dropped(m) /\ Dropped(n) = Dropped(m) \ {r} /\ Swapped(n) = Swapped(m)
      /\ \A d \in Dropped(m) : d.entry.name = r.entry.name => d.version <= r.version
  BY DEF Dropped, Swapped, LastRetired
<1>5. DropOrder(n)
  <2>1. ASSUME NEW d \in Dropped(n), NEW z \in n.tables, z.name = d.entry.name
        PROVE  After(d.version, z)
    <3>1. CASE z \in m.tables
      BY <1>4, <2>1, <3>1 DEF ManifestOrder, DropOrder
    <3>2. CASE z = r.entry
      <4>1. d \in m.retired /\ d # r /\ d.version <= r.version
        BY <1>4, <2>1, <3>2 DEF Dropped
      <4>2. d.version # r.version
        BY <4>1 DEF ManifestOrder, Past
      <4>3. d.version < r.version
        BY <1>1, <4>1, <4>2
      <4> QED
        BY <1>4, <2>1, <3>2, <4>3 DEF ManifestOrder, DropOrder
    <3> QED
      BY <3>1, <3>2
  <2>2. \A d, c \in Dropped(n) : c.entry.name = d.entry.name /\ d.version < c.version =>
           After(d.version, c.entry)
    BY <1>4 DEF ManifestOrder, DropOrder
  <2> QED
    BY <2>1, <2>2 DEF DropOrder
<1>6. SwapOrder(n)
  <2> SUFFICES ASSUME NEW q \in Swapped(m)
               PROVE  /\ \A z \in n.tables : Follows(q, z)
                      /\ \A d \in Dropped(n) : q.version < d.version => Follows(q, d.entry)
                      /\ Superseded(n, q)
    BY <1>4 DEF SwapOrder
  <2>1. /\ \A z \in m.tables : Follows(q, z)
        /\ \A d \in Dropped(m) : q.version < d.version => Follows(q, d.entry)
        /\ Superseded(m, q)
    BY DEF ManifestOrder, SwapOrder
  <2>2. CASE q.entry.name = r.entry.name
    <3>1. PICK d \in Dropped(m) : d.entry.name = r.entry.name /\ q.version < d.version
      BY <2>1, <2>2 DEF Superseded
    <3>2. d.version \in Nat /\ q.version \in Nat /\ r.version \in Nat /\ d.version <= r.version
      BY <1>1, <1>4, <3>1 DEF Dropped, Swapped
    <3>3. q.version < r.version
      BY <3>1, <3>2
    <3>4. Superseded(n, q)
      BY <2>2 DEF Superseded, HasTable
    <3> QED
      BY <1>4, <2>1, <3>3, <3>4
  <2>3. CASE q.entry.name # r.entry.name
    <3>1. Follows(q, r.entry)
      BY <2>3 DEF Follows
    <3>2. Superseded(n, q)
      BY <1>4, <2>1, <2>3 DEF Superseded, HasTable
    <3> QED
      BY <1>4, <2>1, <3>1, <3>2
  <2> QED
    BY <2>2, <2>3
<1>7. KillersFrom(m, n)
  <2>1. Killers(n) \subseteq Killers(m)
    BY <1>4 DEF Killers
  <2> QED
    BY <2>1 DEF KillersFrom
<1> QED
  BY <1>3, <1>4, <1>5, <1>6, <1>7 DEF ManifestOrder

(* UNDROP TABLE.                                                           *)
LEMMA UndropContents ==
    ASSUME SafeInv, Named, Named', StoredRows, ContentsInv, NEW nm, Undrop(nm)
    PROVE  ContentsInv' /\ \E d : UndropShown(d)
<1>1. PICK r \in manifest.retired :
         r.entry.name = nm /\ CanUndropTable(manifest, r) /\ CommitTo(UndropTable(manifest, r))
  BY DEF Undrop
<1> DEFINE n == UndropTable(manifest, r)
<1>2. EditOK(manifest, n, {}, next_id) /\ IsManifest(manifest)
  BY UndropTableEdit DEF SafeInv, Safe
<1>3. CommitTo(n) /\ UNCHANGED <<in_flight, flushing, work, committed>>
  BY <1>1 DEF Undrop, buffer
<1>4. /\ n.tables = manifest.tables \union {r.entry} /\ n.jobs = manifest.jobs
      /\ n.retired = manifest.retired \ {r}
  BY <1>2, UndropTableParts
<1>5. IsManifest(n) /\ n.version = manifest.version
  BY <1>2 DEF EditOK
<1> HIDE DEF n
<1> DEFINE m == manifest
           o == manifest'
<1>6. /\ o.tables = m.tables \union {r.entry} /\ o.jobs = m.jobs
      /\ o.retired = m.retired \ {r}
      /\ m.version \in Nat /\ o.version = m.version + 1
  BY <1>3, <1>4, <1>5, CommitParts
<1>7. NamesUnique(m) /\ NamesUnique(o)
  BY DEF Named, UniqueIn, Unique, TablesUnique, NamesUnique
<1>8. /\ r \in m.retired /\ ManifestOrder(m) /\ LastRetired(m, r, "dropped")
      /\ ~HasTable(m, r.entry.name)
  BY <1>1 DEF ContentsInv, CanUndropTable
<1>9. /\ ManifestOrder(o) /\ KillersFrom(m, o)
      /\ r \in Dropped(m) /\ Dropped(o) = Dropped(m) \ {r}
  <2> HIDE DEF m, o
  <2> QED
    BY <1>6, <1>8, UndropOrdered
<1>10. FilesKept
  BY UndropRows
<1>11. ContentsInv'
  <2>1. \A w \in Workers : work'[w] = work[w]
    BY <1>3
  <2> QED
    BY <1>3, <1>6, <1>9, <1>10, <2>1, CommitContents
<1> DEFINE d == Def(r)
<1>12. d.name = r.entry.name /\ d.rows = Visible(r.entry) /\ d.at = r.version
  BY DEF Def
<1>13. d.name \notin DOMAIN ShownRows(m)
  <2>1. DOMAIN ShownRows(m) = NamesOf(m)
    BY <1>7, LiveOf
  <2> QED
    BY <1>8, <1>12, <2>1 DEF NamesOf, HasTable
<1>14. ShownRows(o) = Contents!With(ShownRows(m), d.name, d.rows)
  <2> DEFINE u == r.entry
  <2>1. /\ u \in o.tables /\ \A z \in o.tables : z = u \/ z \in m.tables
        /\ \A z \in m.tables : z.name = u.name \/ z \in o.tables
    BY <1>6
  <2>2. ShownRows(o) = Contents!With(ShownRows(m), u.name, Visible(u))
    <3> HIDE DEF u, m, o
    <3> QED
      BY <1>7, <2>1, LiveWith
  <2> QED
    BY <1>12, <2>2
<1>15. /\ d \in KeptRows(m)
       /\ \A e \in KeptRows(m) : e.name = d.name => e.at <= d.at
  <2>1. d \in KeptRows(m)
    BY <1>9, InDropped
  <2>2. ASSUME NEW e \in KeptRows(m), e.name = d.name PROVE e.at <= d.at
    <3>1. PICK q \in Dropped(m) : e = Def(q)
      BY InDropped
    <3>2. e.name = q.entry.name /\ e.at = q.version
      BY <3>1 DEF Def
    <3> QED
      BY <1>8, <1>12, <2>2, <3>2 DEF LastRetired, Dropped
  <2> QED
    BY <2>1, <2>2
<1>16. KeptRows(o) = KeptRows(m) \ {d}
  <2>1. ASSUME NEW q \in Dropped(m), Def(q) = d PROVE q = r
    <3>1. q.version = r.version
      BY <2>1 DEF Def
    <3> QED
      BY <1>8, <3>1 DEF Dropped, ManifestOrder, Past
  <2>2. \A e : e \in KeptRows(o) <=> e \in KeptRows(m) /\ e # d
    BY <1>9, <2>1, InDropped
  <2> HIDE DEF m, o, d
  <2> QED
    BY <2>2
<1>17. UndropShown(d)
  <2>1. UNCHANGED committed
    BY <1>3
  <2>2. asked' = [op |-> "undrop", table |-> d.name]
    BY <1>1, <1>12 DEF Undrop
  <2> HIDE DEF d
  <2> QED
    BY <1>13, <1>14, <1>15, <1>16, <2>1, <2>2 DEF UndropShown
<1> QED
  BY <1>11, <1>17

(* The order of a manifest in which retired definitions have expired.      *)
LEMMA ExpireOrdered ==
    ASSUME NEW m, NEW n, m.version \in Nat, n.version = m.version + 1, ManifestOrder(m),
           n.tables = m.tables, n.jobs = m.jobs, n.retired \subseteq m.retired,
           \A d \in m.retired, q \in Swapped(n) : q.version < d.version => d \in n.retired
    PROVE  ManifestOrder(n) /\ KillersFrom(m, n) /\ Dropped(n) \subseteq Dropped(m)
<1>1. /\ \A z \in m.tables : EntryPast(z, m.version)
      /\ \A j \in m.jobs : EntryPast(j.target, m.version) /\ j.target.tombstones = {}
  BY DEF ManifestOrder, Past
<1>2. m.version <= n.version /\ n.version \in Nat
  OBVIOUS
<1>3. Past(n)
  <2>1. \A z \in n.tables : EntryPast(z, n.version)
    BY <1>1, <1>2, PastLonger
  <2>2. \A j \in n.jobs : EntryPast(j.target, n.version) /\ j.target.tombstones = {}
    BY <1>1, <1>2, PastLonger
  <2> QED
    BY <2>1, <2>2, PastFrame DEF ManifestOrder
<1>4. Dropped(n) \subseteq Dropped(m) /\ Swapped(n) \subseteq Swapped(m)
  BY DEF Dropped, Swapped
<1>5. Descends(m, n)
  BY <1>1, SelfKept DEF Descends
<1>6. \A q \in Swapped(n) : Superseded(n, q)
  <2> TAKE q \in Swapped(n)
  <2>1. Superseded(m, q)
    BY <1>4 DEF ManifestOrder, SwapOrder
  <2>2. ASSUME NEW d \in Dropped(m), d.entry.name = q.entry.name, q.version < d.version
        PROVE  d \in Dropped(n)
    BY <2>2 DEF Dropped
  <2> QED
    BY <2>1, <2>2 DEF Superseded, HasTable
<1>7. ManifestOrder(n)
  BY <1>3, <1>4, <1>5, <1>6, OrderFrame
<1>8. KillersFrom(m, n)
  <2>1. Killers(n) \subseteq Killers(m)
    BY <1>4 DEF Killers
  <2> QED
    BY <2>1 DEF KillersFrom
<1> QED
  BY <1>4, <1>7, <1>8

(* gc's first commit.                                                      *)
LEMMA ExpireContents ==
    ASSUME SafeInv, Named, Named', StoredRows, ContentsInv, ExpiryOrder,
           NEW expired \in SUBSET manifest.retired, Expire(expired)
    PROVE  ContentsInv' /\ \E old : ExpireShown(old)
<1> DEFINE n == ExpireRetired(manifest, expired)
<1>1. EditOK(manifest, n, {}, next_id) /\ IsManifest(manifest)
  BY ExpireRetiredEdit DEF SafeInv, Safe
<1>2. CommitTo(n) /\ UNCHANGED <<in_flight, flushing, work, committed>>
  BY DEF Expire, buffer
<1>3. /\ n.tables = manifest.tables /\ n.jobs = manifest.jobs
      /\ n.retired = manifest.retired \ expired
  BY <1>1, ExpireRetiredParts
<1>4. IsManifest(n) /\ n.version = manifest.version
  BY <1>1 DEF EditOK
<1> HIDE DEF n
<1> DEFINE m == manifest
           o == manifest'
<1>5. /\ o.tables = m.tables /\ o.jobs = m.jobs /\ o.retired = m.retired \ expired
      /\ m.version \in Nat /\ o.version = m.version + 1
  BY <1>2, <1>3, <1>4, CommitParts
<1>6. \A d \in m.retired, q \in Swapped(o) : q.version < d.version => d \in o.retired
  BY <1>5 DEF ExpiryOrder, OldestFirst, Swapped
<1>0. o.retired \subseteq m.retired
  BY <1>5
<1>7. ManifestOrder(m)
  BY DEF ContentsInv
<1>8. ManifestOrder(o) /\ KillersFrom(m, o) /\ Dropped(o) \subseteq Dropped(m)
  <2> HIDE DEF m, o
  <2> QED
    BY <1>0, <1>5, <1>6, <1>7, ExpireOrdered
<1>9. FilesKept
  BY ExpireRows
<1>10. ContentsInv'
  <2>1. \A w \in Workers : work'[w] = work[w]
    BY <1>2
  <2> QED
    BY <1>2, <1>5, <1>8, <1>9, <2>1, CommitContents
<1>11. ShownRows(o) = ShownRows(m)
  <2>1. NamesUnique(m) /\ NamesUnique(o)
    BY DEF Named, UniqueIn, Unique, TablesUnique, NamesUnique
  <2>2. /\ \A u \in o.tables : \E t \in m.tables : t.name = u.name /\ Visible(t) = Visible(u)
        /\ \A t \in m.tables : \E u \in o.tables : u.name = t.name
    BY <1>5
  <2> HIDE DEF m, o
  <2> QED
    BY <2>1, <2>2, SameLive
<1> DEFINE old == {r.version : r \in {r \in expired : r.reason = "dropped"}}
<1>12. /\ old \subseteq {d.at : d \in KeptRows(m)}
       /\ KeptRows(o) = {d \in KeptRows(m) : d.at \notin old}
  <2>1. /\ \A r \in Dropped(m) : Def(r) \in KeptRows(m) /\ Def(r).at = r.version
        /\ \A r \in expired : r.reason = "dropped" => r \in Dropped(m)
    BY InDropped DEF Def, Dropped
  <2>2. \A r \in Dropped(m) : r.version \in old <=> r \in expired
    BY <1>7 DEF ManifestOrder, Past, Dropped
  <2>3. \A r : r \in Dropped(o) <=> r \in Dropped(m) /\ r \notin expired
    BY <1>5 DEF Dropped
  <2>4. \A d : d \in KeptRows(o) <=> d \in KeptRows(m) /\ d.at \notin old
    BY <2>1, <2>2, <2>3, InDropped
  <2>5. \A v \in old : \E r \in Dropped(m) : r.version = v
    BY <2>1
  <2> HIDE DEF m, o, old
  <2> QED
    BY <2>1, <2>4, <2>5
<1>13. ExpireShown(old)
  <2>1. UNCHANGED committed /\ asked' = [op |-> "expire", dropped |-> old]
    BY <1>2 DEF Expire
  <2> HIDE DEF old
  <2> QED
    BY <1>11, <1>12, <2>1 DEF ExpireShown
<1> QED
  BY <1>10, <1>13

-----------------------------------------------------------------------------
(* Steps that commit nothing.                                              *)

(* The manifest stays; what workers hold is checked one by one.            *)
LEMMA IdleContents ==
    ASSUME ContentsInv, UNCHANGED <<manifest, committed>>,
           \A w \in Workers : work'[w] = work[w] \/ WorkPast(manifest, work'[w]),
           FlushExact'
    PROVE  ContentsInv' /\ Simulated
<1>1. WorkersPast'
  BY DEF ContentsInv, WorkersPast
<1>2. ManifestOrder(manifest')
  BY DEF ContentsInv
<1>3. Unnoticed
  BY DEF Unnoticed
<1> QED
  BY <1>1, <1>2, <1>3 DEF ContentsInv, Simulated, Unnoticed

(* A worker with nothing prepared.                                         *)
LEMMA NoWorkPast == \A m : WorkPast(m, NoWork)
<1>1. WorkSegs(NoWork) = {} /\ NoWork.kind # "merge"
  BY NoWorkRows DEF NoWork
<1> QED
  BY <1>1 DEF WorkPast

(* A worker that prepares or gives up.                                     *)
LEMMA WorkerContents ==
    ASSUME SafeInv, ContentsInv, UNCHANGED <<manifest, committed, in_flight, flushing>>,
           NEW w \in Workers, NEW x, work' = [work EXCEPT ![w] = x], WorkPast(manifest, x)
    PROVE  ContentsInv' /\ Simulated
<1>1. work = [v \in Workers |-> work[v]]
  BY DEF SafeInv, Safe
<1>2. \A v \in Workers : work'[v] = work[v] \/ work'[v] = x
  BY <1>1
<1>3. FlushExact'
  BY DEF ContentsInv, FlushExact
<1> QED
  BY <1>2, <1>3, IdleContents

(* No delete that may come back falls among the inputs of a merge the rule *)
(* of validate_merge allows.                                               *)
LEMMA InputsClear ==
    ASSUME NEW m, ManifestOrder(m), NamesUnique(m), NEW t \in m.tables,
           NEW i \in t.segments, i.rows # {}, NEW z \in t.segments,
           \A k \in t.tombstones : ~(i.seq < k.seq /\ k.seq <= z.seq),
           NEW f \in Killers(m), f.name = t.name, NEW k \in f.tombstones
    PROVE  ~(i.seq < k.seq /\ k.seq <= z.seq)
<1>1. EntryPast(t, m.version) /\ i.seq \in Nat
  BY DEF ManifestOrder, Past, EntryPast
<1>2. CASE f \in m.tables
  BY <1>2 DEF NamesUnique
<1>3. ASSUME NEW d \in m.retired, f = d.entry, After(d.version, t) PROVE ~(i.seq < k.seq)
  <2>1. d.version \in Nat /\ EntryPast(f, d.version)
    BY <1>3 DEF ManifestOrder, Past
  <2>2. k.seq \in Nat /\ k.seq <= d.version /\ d.version < i.seq
    BY <1>3, <2>1 DEF EntryPast, IsTombstone, After
  <2> QED
    BY <1>1, <2>1, <2>2
<1>4. ASSUME NEW d \in Dropped(m), f = d.entry PROVE ~(i.seq < k.seq)
  <2>1. d \in m.retired /\ After(d.version, t)
    BY <1>4 DEF Dropped, ManifestOrder, DropOrder
  <2> QED
    BY <1>3, <1>4, <2>1
<1>5. ASSUME NEW r \in Swapped(m), f = r.entry PROVE ~(i.seq < k.seq /\ k.seq <= z.seq)
  <2>1. r \in m.retired /\ (SameKills(r, t) \/ After(r.version, t))
    BY <1>5 DEF Swapped, ManifestOrder, SwapOrder, Follows
  <2>2. CASE After(r.version, t)
    BY <1>3, <1>5, <2>1, <2>2
  <2>3. CASE SameKills(r, t)
    <3>1. PICK l \in t.tombstones : l.seq = k.seq
      BY <1>5, <2>3 DEF SameKills, KillsIn
    <3> QED
      BY <3>1
  <2> QED
    BY <2>1, <2>2, <2>3
<1> QED
  BY <1>2, <1>4, <1>5 DEF Killers

(* A compaction prepares.                                                  *)
LEMMA CompactPrepareContents ==
    ASSUME SafeInv, Named, StoredRows, ContentsInv,
           NEW w \in Workers, NEW nm, CompactPrepare(w, nm)
    PROVE  ContentsInv' /\ Simulated
<1>0. PICK t \in manifest.tables : t.name = nm /\ \E inputs \in SUBSET t.segments :
         /\ Cardinality(inputs) >= CompactMinInputs
         /\ ~Straddles(t, inputs)
         /\ work' = [work EXCEPT ![w] =
              [kind |-> "merge", table |-> nm, removes |-> SegIds(inputs),
               adds |-> {MergedSegment(t, inputs, next_id)}]]
  BY DEF CompactPrepare
<1>1. PICK inputs \in SUBSET t.segments :
         /\ Cardinality(inputs) >= CompactMinInputs
         /\ ~Straddles(t, inputs)
         /\ work' = [work EXCEPT ![w] =
              [kind |-> "merge", table |-> nm, removes |-> SegIds(inputs),
               adds |-> {MergedSegment(t, inputs, next_id)}]]
  BY <1>0
<1> DEFINE a == MergedSegment(t, inputs, next_id)
           ids == SegIds(inputs)
           seqs == {s.seq : s \in inputs}
           x == [kind |-> "merge", table |-> nm, removes |-> ids, adds |-> {a}]
<1>2. UNCHANGED <<manifest, committed, in_flight, flushing>>
  BY DEF CompactPrepare, buffer
<1>3. a.seq = Max(seqs)
  BY DEF MergedSegment
<1>4. work' = [work EXCEPT ![w] = x]
  BY <1>1
<1>5. /\ ManifestOrder(manifest) /\ NamesUnique(manifest) /\ SameFile(manifest)
      /\ manifest.version \in Nat
  BY DEF ContentsInv, Named, UniqueIn, Unique, TablesUnique, NamesUnique, StoredRows,
     ManifestRows, SafeInv, Safe, IsManifest
<1>6. \A s \in t.segments : s.seq \in Nat /\ s.seq <= manifest.version
  BY <1>5 DEF ManifestOrder, Past, EntryPast
<1>7. inputs # {}
  <2>1. Cardinality({}) = 0
    BY FS_EmptySet
  <2>2. CompactMinInputs \in Nat /\ CompactMinInputs # 0
    BY StoreAssumption DEF StoreAssumption
  <2>3. ~(0 >= CompactMinInputs)
    BY <2>2
  <2> QED
    BY <1>1, <2>1, <2>3
<1>8. /\ a.seq \in Nat /\ a.seq <= manifest.version
      /\ \A s \in inputs : s.seq <= a.seq
      /\ \E z \in inputs : z.seq = a.seq
  <2>1. seqs \in SUBSET Nat /\ seqs # {} /\ \A q \in seqs : q <= manifest.version
    BY <1>6, <1>7
  <2>2. \A s \in inputs : s.seq \in seqs
    OBVIOUS
  <2>3. \A q \in seqs : \E z \in inputs : z.seq = q
    OBVIOUS
  <2> HIDE DEF seqs
  <2>4. Max(seqs) \in seqs /\ \A q \in seqs : q <= Max(seqs)
    BY <1>5, <2>1, MaxExists
  <2> HIDE DEF a
  <2> QED
    BY <1>3, <2>1, <2>2, <2>3, <2>4
<1>9. \A s \in SegmentsIn(manifest) : s.id \in ids =>
         \E i \in inputs : s.seq = i.seq /\ s.rows = i.rows
  <2> TAKE s \in SegmentsIn(manifest)
  <2> HAVE s.id \in ids
  <2>1. PICK i \in inputs : i.id = s.id
    BY DEF SegIds
  <2>2. i \in SegmentsIn(manifest)
    BY DEF SegmentsIn
  <2> QED
    BY <1>5, <2>1, <2>2 DEF SameFile
<1> HIDE DEF a, ids
<1>10. x.kind = "merge" /\ x.removes = ids /\ x.adds = {a} /\ x.table = nm
  OBVIOUS
<1> HIDE DEF x, seqs
<1>11. MergeClear(manifest, x)
  <2>1. x.adds # {}
    BY <1>10
  <2>2. ASSUME NEW s \in SegmentsIn(manifest), s.id \in ids
        PROVE  s.seq <= a.seq
    BY <1>8, <1>9, <2>2
  <2>3. ASSUME NEW s \in SegmentsIn(manifest), s.id \in ids, s.rows # {},
               NEW f \in Killers(manifest), f.name = nm, NEW k \in f.tombstones
        PROVE  ~(s.seq < k.seq /\ k.seq <= a.seq)
    <3>1. PICK i \in inputs : s.seq = i.seq /\ s.rows = i.rows
      BY <1>9, <2>3
    <3>2. PICK z \in inputs : z.seq = a.seq
      BY <1>8
    <3>3. \A l \in t.tombstones : ~(i.seq < l.seq /\ l.seq <= z.seq)
      BY <1>1 DEF Straddles
    <3>4. i \in t.segments /\ z \in t.segments /\ i.rows # {} /\ f.name = t.name
      BY <1>0, <2>3, <3>1
    <3>5. ~(i.seq < k.seq /\ k.seq <= z.seq)
      BY <1>5, <3>3, <3>4, InputsClear
    <3> QED
      BY <3>1, <3>2, <3>5
  <2> QED
    BY <1>10, <2>1, <2>2, <2>3 DEF MergeClear
<1>12. WorkPast(manifest, x)
  <2>1. WorkSegs(x) = {a}
    BY <1>10 DEF WorkSegs
  <2> QED
    BY <1>8, <1>11, <2>1 DEF WorkPast
<1> QED
  BY <1>2, <1>4, <1>12, WorkerContents

(* A job step prepares.                                                    *)
LEMMA JobPrepareContents ==
    ASSUME SafeInv, ContentsInv, NEW w \in Workers, NEW j, JobPrepare(w, j)
    PROVE  ContentsInv' /\ Simulated
<1>1. UNCHANGED <<manifest, committed, in_flight, flushing>>
  BY DEF JobPrepare, buffer
<1>2. PICK t \in manifest.tables :
         LET chosen == Chosen(Gap(t, j))
         IN  \/ \E next \in next_id + 1 .. MaxId + 1 :
                \E id \in [chosen -> next_id .. next - 1] :
                  work' = [work EXCEPT ![w] =
                       [kind |-> "advance", job |-> j.id, reused |-> {},
                        rewritten |-> SegIds(chosen),
                        segments |-> {RewrittenSegment(s, j.target.schema, id[s])
                                        : s \in chosen}]]
             \/ work' = [work EXCEPT ![w] =
                     [kind |-> "advance", job |-> j.id, reused |-> SegIds(chosen),
                      rewritten |-> {}, segments |-> {}]]
  BY DEF JobPrepare
<1> DEFINE chosen == Chosen(Gap(t, j))
<1>3. \A s \in chosen : s.seq \in Nat /\ s.seq <= manifest.version
  <2>1. chosen \subseteq t.segments
    BY DEF Chosen, Gap
  <2> QED
    BY <2>1 DEF ContentsInv, ManifestOrder, Past, EntryPast
<1> HIDE DEF chosen
<1>4. ASSUME NEW y, y.kind = "advance", work' = [work EXCEPT ![w] = y],
             \A s \in y.segments : s.seq \in Nat /\ s.seq <= manifest.version
      PROVE  ContentsInv' /\ Simulated
  <2>1. WorkSegs(y) = y.segments /\ y.kind # "merge"
    BY <1>4 DEF WorkSegs
  <2>2. WorkPast(manifest, y)
    BY <1>4, <2>1 DEF WorkPast
  <2> QED
    BY <1>1, <1>4, <2>2, WorkerContents
<1>5. ASSUME NEW next \in next_id + 1 .. MaxId + 1,
             NEW id \in [chosen -> next_id .. next - 1],
             work' = [work EXCEPT ![w] =
                       [kind |-> "advance", job |-> j.id, reused |-> {},
                        rewritten |-> SegIds(chosen),
                        segments |-> {RewrittenSegment(s, j.target.schema, id[s])
                                        : s \in chosen}]]
      PROVE  ContentsInv' /\ Simulated
  <2> DEFINE segs == {RewrittenSegment(s, j.target.schema, id[s]) : s \in chosen}
             x == [kind |-> "advance", job |-> j.id, reused |-> {},
                   rewritten |-> SegIds(chosen), segments |-> segs]
  <2>1. \A u \in segs : u.seq \in Nat /\ u.seq <= manifest.version
    <3>1. \A s, i : RewrittenSegment(s, j.target.schema, i).seq = s.seq
      BY DEF RewrittenSegment
    <3> QED
      BY <1>3, <3>1
  <2>2. work' = [work EXCEPT ![w] = x]
    BY <1>5
  <2> HIDE DEF segs
  <2>3. x.kind = "advance" /\ x.segments = segs
    OBVIOUS
  <2> HIDE DEF x
  <2> QED
    BY <1>4, <2>1, <2>2, <2>3
<1>6. ASSUME work' = [work EXCEPT ![w] =
                     [kind |-> "advance", job |-> j.id, reused |-> SegIds(chosen),
                      rewritten |-> {}, segments |-> {}]]
      PROVE  ContentsInv' /\ Simulated
  <2> DEFINE x == [kind |-> "advance", job |-> j.id, reused |-> SegIds(chosen),
                   rewritten |-> {}, segments |-> {}]
  <2>1. x.kind = "advance" /\ x.segments = {} /\ work' = [work EXCEPT ![w] = x]
    BY <1>6
  <2> HIDE DEF x
  <2> QED
    BY <1>4, <2>1
<1> QED
  BY <1>2, <1>5, <1>6 DEF chosen

(* The flusher writes its segments.                                        *)
LEMMA FlushWriteContents ==
    ASSUME SafeInv, Named, ContentsInv, FlushWrite
    PROVE  ContentsInv' /\ Simulated
<1>1. UNCHANGED <<manifest, committed, in_flight, work>>
  BY DEF FlushWrite
<1>2. \A p \in flushing' :
         p.seg.rows = {b.row : b \in {b \in in_flight : b.table = p.table}}
  BY FlushWriteParts
<1>3. \A b \in in_flight : \E p \in flushing' : p.table = b.table
  <2> DEFINE names == {b.table : b \in in_flight}
  <2>0. PICK next \in next_id + 1 .. MaxId + 1 :
          \E id \in [names -> next_id .. next - 1] :
            flushing' = {[table |-> t.name, seg |-> FlushedSegment(t, id[t.name])]
                           : t \in {t \in manifest.tables : t.name \in names}}
    BY DEF FlushWrite
  <2>1. PICK id \in [names -> next_id .. next - 1] :
            flushing' = {[table |-> t.name, seg |-> FlushedSegment(t, id[t.name])]
                           : t \in {t \in manifest.tables : t.name \in names}}
    BY <2>0
  <2>2. \A n \in names : \E t \in manifest.tables : t.name = n
    BY DEF FlushWrite, HasTable
  <2>3. ASSUME NEW b \in in_flight PROVE \E p \in flushing' : p.table = b.table
    <3>1. PICK t \in manifest.tables : t.name = b.table
      BY <2>2
    <3> DEFINE p == [table |-> t.name, seg |-> FlushedSegment(t, id[t.name])]
    <3>2. p \in flushing'
      BY <2>1, <3>1
    <3>3. p.table = t.name
      OBVIOUS
    <3> HIDE DEF p
    <3> QED
      BY <3>1, <3>2, <3>3
  <2> QED
    BY <2>3
<1>4. FlushExact'
  <2>1. \A p \in flushing' : \A b \in in_flight : b.table = p.table => b.row \in p.seg.rows
    BY <1>2
  <2>2. \A p \in flushing' : \A i \in p.seg.rows : \E b \in in_flight :
           b.table = p.table /\ b.row = i
    BY <1>2
  <2> QED
    BY <1>1, <1>3, <2>1, <2>2 DEF FlushExact
<1>5. \A w \in Workers : work'[w] = work[w]
  BY <1>1
<1> QED
  BY <1>1, <1>4, <1>5, IdleContents

(* A step that leaves the flusher nothing it has written.                  *)
LEMMA NoFlushContents ==
    ASSUME ContentsInv, UNCHANGED <<manifest, committed>>, flushing' = {},
           \A w \in Workers : work'[w] = work[w] \/ work'[w] = NoWork
    PROVE  ContentsInv' /\ Simulated
<1>1. FlushExact'
  BY DEF FlushExact
<1> QED
  BY <1>1, NoWorkPast, IdleContents
-----------------------------------------------------------------------------
(* The theorem.                                                            *)

(* A step that changes nothing at all.                                     *)
LEMMA IdleVars ==
    ASSUME ContentsInv, UNCHANGED vars
    PROVE  ContentsInv' /\ Stated
<1>1. UNCHANGED <<manifest, committed, in_flight, flushing, work, asked>>
  BY DEF vars
<1>2. FlushExact'
  BY <1>1 DEF ContentsInv, FlushExact
<1>3. ContentsInv'
  BY <1>1, <1>2, IdleContents
<1>4. Unnoticed
  BY <1>1 DEF Unnoticed
<1> QED
  BY <1>1, <1>3, <1>4 DEF Stated

(* Every step keeps the order and is a step of the contents.               *)
LEMMA NextContents ==
    ASSUME SafeInv, Named, Named', Buffers, RowsInv, StoredRows', ContentsInv,
           [ExpiryOrder]_vars, [Next]_vars
    PROVE  ContentsInv' /\ Stated
<1>0. StoredRows /\ FlushRows
  BY DEF RowsInv
<1>1. ASSUME NEW n \in Names, NEW columns \in ColumnLists, Create(n, columns)
      PROVE  ContentsInv' /\ Stated
  BY <1>0, <1>1, CreateContents DEF Stated
<1>2. ASSUME NEW n \in Names, Truncate(n) \/ Drop(n) \/ Undrop(n)
      PROVE  ContentsInv' /\ Stated
  BY <1>0, <1>2, TruncateContents, DropContents, UndropContents DEF Stated
<1>3. ASSUME NEW n \in Names, NEW c, NEW kills \in Predicates, Delete(n, c, kills)
      PROVE  ContentsInv' /\ Stated
  <2>1. kills \in SUBSET Rows
    BY StatementAssumption DEF StatementAssumption
  <2> QED
    BY <1>0, <1>3, <2>1, DeleteContents DEF Stated
<1>4. ASSUME NEW expired \in SUBSET manifest.retired, Expire(expired)
      PROVE  ContentsInv' /\ Stated
  <2>1. CASE UNCHANGED vars
    BY <1>4, <2>1, IdleVars
  <2>2. CASE ExpiryOrder
    BY <1>0, <1>4, <2>2, ExpireContents DEF Stated
  <2> QED
    BY <2>1, <2>2
<1>5. CASE UNCHANGED vars
  BY <1>5, IdleVars
<1>6. ASSUME asked' = Unasked, Simulated PROVE Stated
  BY <1>6 DEF Stated
<1>7. ASSUME NEW n \in Names, NEW r \in Rows, Write(n, r)
      PROVE  ContentsInv' /\ Stated
  <2>1. UNCHANGED <<manifest, committed, in_flight, flushing, work>> /\ asked' = Unasked
    BY <1>7 DEF Write
  <2>2. FlushExact'
    BY <2>1 DEF ContentsInv, FlushExact
  <2> QED
    BY <1>6, <2>1, <2>2, IdleContents
<1>8. ASSUME NEW n \in Names, Revert(n) PROVE ContentsInv' /\ Stated
  <2>1. asked' = Unasked
    BY <1>8 DEF Revert
  <2> QED
    BY <1>0, <1>6, <1>8, <2>1, RevertContents
<1>9. ASSUME NEW n \in Names, NEW ops \in AlterOps, Alter(n, ops)
      PROVE  ContentsInv' /\ Stated
  <2>1. asked' = Unasked
    BY <1>9 DEF Alter
  <2> QED
    BY <1>0, <1>6, <1>9, <2>1, AlterContents
<1>10. ASSUME NEW n \in Names, NEW w \in Workers, CompactPrepare(w, n)
       PROVE  ContentsInv' /\ Stated
  <2>1. asked' = Unasked
    BY <1>10 DEF CompactPrepare
  <2> QED
    BY <1>0, <1>6, <1>10, <2>1, CompactPrepareContents
<1>11. CASE FlushTake
  <2>1. in_flight = {} /\ UNCHANGED <<manifest, flushing, work, committed>> /\ asked' = Unasked
    BY <1>11 DEF FlushTake
  <2>2. flushing = {}
    BY <1>0, <2>1 DEF FlushRows
  <2> QED
    BY <1>6, <2>1, <2>2, NoFlushContents
<1>12. CASE FlushWrite
  <2>1. asked' = Unasked
    BY <1>12 DEF FlushWrite
  <2> QED
    BY <1>6, <1>12, <2>1, FlushWriteContents
<1>13. CASE FlushCommit
  <2>1. asked' = Unasked
    BY <1>13 DEF FlushCommit
  <2> QED
    BY <1>6, <1>13, <2>1, FlushCommitContents
<1>14. CASE FlushFail
  <2>1. flushing' = {} /\ UNCHANGED <<manifest, work, committed>> /\ asked' = Unasked
    BY <1>14 DEF FlushFail, Idle
  <2> QED
    BY <1>6, <2>1, NoFlushContents
<1>15. CASE Reopen
  <2>1. flushing' = {} /\ UNCHANGED <<manifest, committed>> /\ asked' = Unasked
    BY <1>15 DEF Reopen, Idle
  <2>2. \A w \in Workers : work'[w] = NoWork
    BY <1>15 DEF Reopen
  <2> QED
    BY <1>6, <2>1, <2>2, NoFlushContents
<1>16. ASSUME NEW w \in Workers, CompactCommit(w) \/ JobAdvance(w)
       PROVE  ContentsInv' /\ Stated
  <2>1. asked' = Unasked
    BY <1>16 DEF CompactCommit, JobAdvance
  <2> QED
    BY <1>0, <1>6, <1>16, <2>1, CompactCommitContents, JobAdvanceContents
<1>17. ASSUME NEW w \in Workers, Abandon(w) PROVE ContentsInv' /\ Stated
  <2>1. /\ work' = [work EXCEPT ![w] = NoWork] /\ asked' = Unasked
        /\ UNCHANGED <<manifest, committed, in_flight, flushing>>
    BY <1>17 DEF Abandon, buffer
  <2> QED
    BY <1>6, <2>1, NoWorkPast, WorkerContents
<1>18. ASSUME NEW j \in manifest.jobs, JobSwap(j) \/ Cancel(j)
       PROVE  ContentsInv' /\ Stated
  <2>1. asked' = Unasked
    BY <1>18 DEF JobSwap, Cancel
  <2> QED
    BY <1>0, <1>6, <1>18, <2>1, JobSwapContents, CancelContents
<1>19. ASSUME NEW j \in manifest.jobs, NEW w \in Workers, JobPrepare(w, j)
       PROVE  ContentsInv' /\ Stated
  <2>1. asked' = Unasked
    BY <1>19 DEF JobPrepare
  <2> QED
    BY <1>6, <1>19, <2>1, JobPrepareContents
<1>20. ASSUME NEW ids \in SUBSET GarbageIds(manifest), Forget(ids)
       PROVE  ContentsInv' /\ Stated
  <2>1. asked' = Unasked
    BY <1>20 DEF Forget
  <2> QED
    BY <1>0, <1>6, <1>20, <2>1, ForgetContents
<1> QED
  BY <1>1, <1>2, <1>3, <1>4, <1>5, <1>7, <1>8, <1>9, <1>10, <1>11, <1>12,
     <1>13, <1>14, <1>15, <1>16, <1>17, <1>18, <1>19, <1>20 DEF Next

(* Every step of the whole invariant.                                      *)
LEMMA StepContents ==
    ASSUME RowsAll, RowsAll', ContentsInv, [Next]_vars, [ExpiryOrder]_vars
    PROVE  ContentsInv' /\ Stated
<1>1. SafeInv /\ Named /\ Buffers /\ RowsInv /\ Named' /\ StoredRows'
  BY DEF RowsAll, TypeInv, RowsInv
<1> QED
  BY <1>1, NextContents

(* A new store is in order.                                                *)
LEMMA ContentsFirst == Init => ContentsInv
<1> SUFFICES ASSUME Init PROVE ContentsInv
  OBVIOUS
<1>1. manifest.tables = {} /\ manifest.retired = {} /\ manifest.jobs = {}
  BY DEF Init, EmptyManifest
<1>2. flushing = {} /\ \A w \in Workers : work[w] = NoWork
  BY DEF Init, Idle
<1>3. Dropped(manifest) = {} /\ Swapped(manifest) = {}
  BY <1>1 DEF Dropped, Swapped
<1>4. ManifestOrder(manifest)
  BY <1>1, <1>3 DEF ManifestOrder, Past, DropOrder, SwapOrder
<1>5. WorkersPast
  BY <1>2, NoWorkPast DEF WorkersPast
<1>6. FlushExact
  BY <1>2 DEF FlushExact
<1> QED
  BY <1>4, <1>5, <1>6 DEF ContentsInv

(* The order holds in every state, under the hypothesis on gc that is      *)
(* explained below.                                                        *)
THEOREM ContentsAlways == Spec /\ [][ExpiryOrder]_vars => []ContentsInv
<1>1. Init => ContentsInv
  BY ContentsFirst
<1>2. RowsAll /\ RowsAll' /\ ContentsInv /\ [Next]_vars /\ [ExpiryOrder]_vars
        => ContentsInv'
  BY StepContents
<1> QED
  BY <1>1, <1>2, RowsAlways, PTL DEF Spec

-----------------------------------------------------------------------------
(* From sets of rows to what a scan returns.                               *)

(* How often a scan returns each of the rows V when each is there once.    *)
Once(V) == [r \in Rows |-> IF r \in V THEN 1 ELSE 0]
EachOnce(f) == [n \in DOMAIN f |-> Once(f[n])]
OnceDef(d) == [name |-> d.name, rows |-> Once(d.rows), at |-> d.at]

(* No definition of the manifest holds a row in two segments.              *)
Disjoint(t) == \A s, u \in t.segments : s.rows \intersect u.rows # {} => s = u
OnceIn(m) == \A e \in Entries(m) : Disjoint(e)

(* A scan of such a table returns each row it shows once.                  *)
LEMMA CopiesOnce ==
    ASSUME NEW t, Disjoint(t)
    PROVE  Copies(t) = Once(Visible(t))
<1> DEFINE Holding(r) == {s \in t.segments :
             r \in s.rows /\ \A k \in TombstonesFor(t, s) : r \notin k.kills}
<1>1. Copies(t) = [r \in Rows |-> Cardinality(Holding(r))]
  BY DEF Copies
<1>2. ASSUME NEW r \in Rows
      PROVE  Cardinality(Holding(r)) = IF r \in Visible(t) THEN 1 ELSE 0
  <2>1. r \in Visible(t) <=> Holding(r) # {}
    BY DEF Visible
  <2>2. \A s, u \in Holding(r) : s = u
    BY DEF Disjoint
  <2> HIDE DEF Holding
  <2>3. CASE Holding(r) = {}
    <3>1. Cardinality(Holding(r)) = 0
      BY <2>3, FS_EmptySet
    <3> QED
      BY <2>1, <2>3, <3>1
  <2>4. CASE Holding(r) # {}
    <3>1. PICK s : s \in Holding(r)
      BY <2>4
    <3>2. Holding(r) = {s}
      BY <2>2, <3>1
    <3>3. Cardinality({s}) = 1
      BY FS_Singleton
    <3>4. Cardinality(Holding(r)) = 1
      BY <3>2, <3>3
    <3> QED
      BY <2>1, <2>4, <3>4
  <2> QED
    BY <2>3, <2>4
<1> HIDE DEF Holding
<1> QED
  BY <1>1, <1>2 DEF Once

(* The mapping, in terms of the sets.                                      *)
LEMMA MappedOnce ==
    ASSUME NEW m, OnceIn(m)
    PROVE  /\ LiveRows(m) = EachOnce(ShownRows(m))
           /\ DroppedRows(m) = {OnceDef(d) : d \in KeptRows(m)}
<1> DEFINE ns == {t.name : t \in m.tables}
           Of(n) == CHOOSE t \in m.tables : t.name = n
           D == {r \in m.retired : r.reason = "dropped"}
<1>1. ASSUME NEW n \in ns PROVE Copies(Of(n)) = Once(Visible(Of(n)))
  <2>1. Of(n) \in m.tables
    OBVIOUS
  <2> HIDE DEF Of
  <2>2. Disjoint(Of(n))
    BY <2>1 DEF OnceIn, Entries
  <2> QED
    BY <2>2, CopiesOnce
<1>2. LiveRows(m) = [n \in ns |-> Copies(Of(n))]
  BY DEF LiveRows
<1>3. ShownRows(m) = [n \in ns |-> Visible(Of(n))]
  BY DEF ShownRows
<1>4. LiveRows(m) = EachOnce(ShownRows(m))
  <2> HIDE DEF Of, ns
  <2> QED
    BY <1>1, <1>2, <1>3 DEF EachOnce
<1>5. ASSUME NEW r \in D PROVE Copies(r.entry) = Once(Visible(r.entry))
  <2>1. Disjoint(r.entry)
    BY DEF OnceIn, Entries
  <2> QED
    BY <2>1, CopiesOnce
<1>6. DroppedRows(m) = {[name |-> r.entry.name, rows |-> Once(Visible(r.entry)),
                         at |-> r.version] : r \in D}
  BY <1>5 DEF DroppedRows
<1>7. KeptRows(m) = {Def(r) : r \in D}
  BY DEF KeptRows, Def
<1>8. \A r : OnceDef(Def(r)) = [name |-> r.entry.name, rows |-> Once(Visible(r.entry)),
                                at |-> r.version]
  BY DEF OnceDef, Def
<1>9. DroppedRows(m) = {OnceDef(d) : d \in KeptRows(m)}
  <2> HIDE DEF D
  <2> QED
    BY <1>6, <1>7, <1>8
<1> QED
  BY <1>4, <1>9

(* Changing one name, or taking one away, before or after the count.       *)
LEMMA OnceWith ==
    ASSUME NEW f, NEW n, NEW V
    PROVE  EachOnce(Contents!With(f, n, V)) = Contents!With(EachOnce(f), n, Once(V))
  BY DEF EachOnce, Contents!With
LEMMA OnceWithout ==
    ASSUME NEW f, NEW n
    PROVE  EachOnce(Contents!Without(f, n)) = Contents!Without(EachOnce(f), n)
  BY DEF EachOnce, Contents!Without
LEMMA OnceNone == Once({}) = Contents!NoRows
  BY DEF Once, Contents!NoRows
LEMMA OnceLess ==
    ASSUME NEW V, NEW kills
    PROVE  /\ Once(V \ kills) = [r \in Rows |-> IF r \in kills THEN 0 ELSE Once(V)[r]]
           /\ Rows \subseteq kills => Once(V \ kills) = Contents!NoRows
  BY DEF Once, Contents!NoRows

StoredOnce == OnceIn(manifest)
Counted == StoredOnce /\ StoredOnce'

(* How the variables of TableContents follow the sets.                     *)
LEMMA Mapped ==
    ASSUME Counted
    PROVE  /\ LiveRows(manifest) = EachOnce(ShownRows(manifest))
           /\ LiveRows(manifest') = EachOnce(ShownRows(manifest'))
           /\ DroppedRows(manifest) = {OnceDef(d) : d \in KeptRows(manifest)}
           /\ DroppedRows(manifest') = {OnceDef(d) : d \in KeptRows(manifest')}
  BY MappedOnce DEF Counted, StoredOnce

(* Names are the same, and a row of the sets is a row of the counts.       *)
LEMMA EachOf ==
    ASSUME NEW f
    PROVE  /\ DOMAIN EachOnce(f) = DOMAIN f
           /\ \A n \in DOMAIN f : EachOnce(f)[n] = Once(f[n])
  BY DEF EachOnce
LEMMA DefOf ==
    ASSUME NEW d
    PROVE  /\ OnceDef(d).name = d.name /\ OnceDef(d).at = d.at
           /\ OnceDef(d).rows = Once(d.rows)
  BY DEF OnceDef

LEMMA CountUnnoticed ==
    ASSUME Counted, Unnoticed
    PROVE  UNCHANGED <<LiveRows(manifest), DroppedRows(manifest), committed>>
  BY Mapped DEF Unnoticed

LEMMA CountCreate ==
    ASSUME Counted, NEW n, CreateShown(n)
    PROVE  n \in Names /\ Contents!Create(n)
<1> DEFINE f == ShownRows(manifest)
           g == ShownRows(manifest')
<1>1. /\ n \in Names /\ n \notin DOMAIN f /\ g = Contents!With(f, n, {})
      /\ UNCHANGED <<KeptRows(manifest), committed>>
      /\ asked' = [op |-> "create", table |-> n]
  BY DEF CreateShown
<1>2. /\ LiveRows(manifest) = EachOnce(f) /\ LiveRows(manifest') = EachOnce(g)
      /\ DroppedRows(manifest') = DroppedRows(manifest)
  BY <1>1, Mapped
<1> HIDE DEF f, g
<1>3. EachOnce(g) = Contents!With(EachOnce(f), n, Contents!NoRows)
  BY <1>1, OnceWith, OnceNone
<1>4. n \notin DOMAIN EachOnce(f)
  BY <1>1, EachOf
<1> QED
  BY <1>1, <1>2, <1>3, <1>4 DEF Contents!Create

(* Some rows fewer, whatever was asked.                                    *)
LEMMA CountLess ==
    ASSUME Counted, NEW n, NEW kills, LessShown(n, kills)
    PROVE  /\ n \in DOMAIN LiveRows(manifest)
           /\ LiveRows(manifest') = Contents!With(LiveRows(manifest), n,
                [r \in Rows |-> IF r \in kills THEN 0 ELSE LiveRows(manifest)[n][r]])
           /\ Rows \subseteq kills => LiveRows(manifest') =
                Contents!With(LiveRows(manifest), n, Contents!NoRows)
           /\ UNCHANGED <<DroppedRows(manifest), committed>>
<1> DEFINE f == ShownRows(manifest)
           g == ShownRows(manifest')
<1>1. /\ n \in DOMAIN f /\ g = Contents!With(f, n, f[n] \ kills)
      /\ UNCHANGED <<KeptRows(manifest), committed>>
  BY DEF LessShown
<1>2. /\ LiveRows(manifest) = EachOnce(f) /\ LiveRows(manifest') = EachOnce(g)
      /\ DroppedRows(manifest') = DroppedRows(manifest)
  BY <1>1, Mapped
<1> HIDE DEF f, g
<1>3. EachOnce(g) = Contents!With(EachOnce(f), n, Once(f[n] \ kills))
  BY <1>1, OnceWith
<1>4. n \in DOMAIN EachOnce(f) /\ EachOnce(f)[n] = Once(f[n])
  BY <1>1, EachOf
<1>5. /\ Once(f[n] \ kills) =
           [r \in Rows |-> IF r \in kills THEN 0 ELSE EachOnce(f)[n][r]]
      /\ Rows \subseteq kills => Once(f[n] \ kills) = Contents!NoRows
  <2> DEFINE c == Once(f[n])
  <2>1. /\ Once(f[n] \ kills) = [r \in Rows |-> IF r \in kills THEN 0 ELSE c[r]]
        /\ Rows \subseteq kills => Once(f[n] \ kills) = Contents!NoRows
    BY OnceLess
  <2>2. EachOnce(f)[n] = c
    BY <1>4
  <2> HIDE DEF c
  <2> QED
    BY <2>1, <2>2
<1> QED
  BY <1>1, <1>2, <1>3, <1>4, <1>5

LEMMA CountInsert ==
    ASSUME Counted, NEW new, InsertShown(new), asked' = Unasked
    PROVE  /\ DOMAIN new \in SUBSET DOMAIN LiveRows(manifest)
           /\ new \in [DOMAIN new -> SUBSET Rows]
           /\ Contents!Insert(new)
<1> DEFINE f == ShownRows(manifest)
           g == ShownRows(manifest')
           h == [n \in DOMAIN EachOnce(f) |->
                   IF n \in DOMAIN new
                     THEN [r \in Rows |-> IF r \in new[n] THEN 1 ELSE EachOnce(f)[n][r]]
                     ELSE EachOnce(f)[n]]
<1>1. /\ DOMAIN new \subseteq DOMAIN f /\ new \in [DOMAIN new -> SUBSET Rows]
      /\ g = [n \in DOMAIN f |-> IF n \in DOMAIN new THEN f[n] \union new[n] ELSE f[n]]
      /\ \A n \in DOMAIN new : new[n] \intersect committed = {}
      /\ committed' = committed \union UNION {new[n] : n \in DOMAIN new}
      /\ UNCHANGED KeptRows(manifest)
  BY DEF InsertShown
<1>2. /\ LiveRows(manifest) = EachOnce(f) /\ LiveRows(manifest') = EachOnce(g)
      /\ DroppedRows(manifest') = DroppedRows(manifest)
  BY <1>1, Mapped
<1> HIDE DEF f, g
<1>3. ASSUME NEW n \in DOMAIN f
      PROVE  Once(g[n]) = IF n \in DOMAIN new
                 THEN [r \in Rows |-> IF r \in new[n] THEN 1 ELSE Once(f[n])[r]]
                 ELSE Once(f[n])
  <2>1. CASE n \in DOMAIN new
    <3>1. g[n] = f[n] \union new[n]
      BY <1>1, <2>1
    <3> QED
      BY <2>1, <3>1 DEF Once
  <2>2. CASE n \notin DOMAIN new
    BY <1>1, <2>2
  <2> QED
    BY <2>1, <2>2
<1>4. DOMAIN g = DOMAIN f
  BY <1>1
<1>5. EachOnce(g) = h
  <2>1. EachOnce(g) = [n \in DOMAIN f |-> Once(g[n])]
    BY <1>4 DEF EachOnce
  <2>2. h = [n \in DOMAIN f |-> IF n \in DOMAIN new
               THEN [r \in Rows |-> IF r \in new[n] THEN 1 ELSE Once(f[n])[r]]
               ELSE Once(f[n])]
    BY EachOf
  <2> HIDE DEF h
  <2> QED
    BY <1>3, <2>1, <2>2
<1>6. Contents!Insert(new)
  <2>1. asked' = Contents!Unasked
    BY DEF Unasked, Contents!Unasked
  <2> QED
    BY <1>1, <1>2, <1>5, <2>1 DEF Contents!Insert
<1>7. DOMAIN EachOnce(f) = DOMAIN f
  BY EachOf
<1> QED
  BY <1>1, <1>2, <1>6, <1>7

LEMMA CountDrop ==
    ASSUME Counted, NEW n, DropShown(n)
    PROVE  n \in DOMAIN LiveRows(manifest) /\ Contents!Drop(n)
<1> DEFINE f == ShownRows(manifest)
           g == ShownRows(manifest')
           K == KeptRows(manifest)
           L == KeptRows(manifest')
<1>1. /\ n \in DOMAIN f /\ g = Contents!Without(f, n) /\ UNCHANGED committed
      /\ asked' = [op |-> "drop", table |-> n]
  BY DEF DropShown
<1>2. PICK d \in L : /\ d.name = n /\ d.rows = f[n]
                     /\ \A e \in K : e.at < d.at
                     /\ L = K \union {d}
  BY DEF DropShown
<1>3. /\ LiveRows(manifest) = EachOnce(f) /\ LiveRows(manifest') = EachOnce(g)
      /\ DroppedRows(manifest) = {OnceDef(e) : e \in K}
      /\ DroppedRows(manifest') = {OnceDef(e) : e \in L}
  BY Mapped
<1> HIDE DEF f, g, K, L
<1>4. EachOnce(g) = Contents!Without(EachOnce(f), n)
  BY <1>1, OnceWithout
<1>5. n \in DOMAIN EachOnce(f) /\ EachOnce(f)[n] = Once(f[n])
  BY <1>1, EachOf
<1>6. /\ OnceDef(d).name = n /\ OnceDef(d).rows = EachOnce(f)[n]
      /\ \A c \in {OnceDef(e) : e \in K} : c.at < OnceDef(d).at
  BY <1>2, <1>5, DefOf
<1>7. {OnceDef(e) : e \in L} = {OnceDef(e) : e \in K} \union {OnceDef(d)}
  BY <1>2
<1>8. \E c \in DroppedRows(manifest') :
         /\ c.name = n /\ c.rows = LiveRows(manifest)[n]
         /\ \A e \in DroppedRows(manifest) : e.at < c.at
         /\ DroppedRows(manifest') = DroppedRows(manifest) \union {c}
  BY <1>3, <1>6, <1>7
<1> QED
  BY <1>1, <1>3, <1>4, <1>5, <1>8 DEF Contents!Drop

(* No two dropped definitions have the same version.                       *)
LEMMA KeptApart ==
    ASSUME ContentsInv
    PROVE  \A c, d \in KeptRows(manifest) : c.at = d.at => c = d
<1> SUFFICES ASSUME NEW c \in KeptRows(manifest), NEW d \in KeptRows(manifest), c.at = d.at
             PROVE  c = d
  OBVIOUS
<1>1. PICK r \in Dropped(manifest) : c = Def(r)
  BY InDropped
<1>2. PICK q \in Dropped(manifest) : d = Def(q)
  BY InDropped
<1>3. r.version = q.version
  BY <1>1, <1>2 DEF Def
<1>4. r = q
  BY <1>3 DEF Dropped, ContentsInv, ManifestOrder, Past
<1> QED
  BY <1>1, <1>2, <1>4

LEMMA CountUndrop ==
    ASSUME Counted, ContentsInv, NEW d, UndropShown(d)
    PROVE  \E c \in DroppedRows(manifest) : Contents!Undrop(c)
<1> DEFINE f == ShownRows(manifest)
           g == ShownRows(manifest')
           K == KeptRows(manifest)
           L == KeptRows(manifest')
           c == OnceDef(d)
<1>1. /\ d \in K /\ d.name \notin DOMAIN f /\ g = Contents!With(f, d.name, d.rows)
      /\ \A e \in K : e.name = d.name => e.at <= d.at
      /\ L = K \ {d} /\ UNCHANGED committed
      /\ asked' = [op |-> "undrop", table |-> d.name]
  BY DEF UndropShown
<1>2. /\ LiveRows(manifest) = EachOnce(f) /\ LiveRows(manifest') = EachOnce(g)
      /\ DroppedRows(manifest) = {OnceDef(e) : e \in K}
      /\ DroppedRows(manifest') = {OnceDef(e) : e \in L}
  BY Mapped
<1>3. \A a, b \in K : a.at = b.at => a = b
  BY KeptApart
<1>4. c.name = d.name /\ c.rows = Once(d.rows)
  BY DefOf
<1> HIDE DEF f, g, K, L
<1>5. {OnceDef(e) : e \in L} = {OnceDef(e) : e \in K} \ {c}
  <2>1. ASSUME NEW e \in K, OnceDef(e) = OnceDef(d) PROVE e = d
    <3>1. e.at = d.at
      BY <2>1, DefOf
    <3> QED
      BY <1>1, <1>3, <3>1
  <2> QED
    BY <1>1, <2>1
<1>6. c \in {OnceDef(e) : e \in K}
  BY <1>1
<1>7. \A a \in {OnceDef(e) : e \in K} : a.name = c.name => a.at <= c.at
  BY <1>1, DefOf
<1>8. EachOnce(g) = Contents!With(EachOnce(f), c.name, c.rows)
  BY <1>1, <1>4, OnceWith
<1>9. c.name \notin DOMAIN EachOnce(f) /\ asked' = [op |-> "undrop", table |-> c.name]
  BY <1>1, <1>4, EachOf
<1> HIDE DEF c
<1>10. Contents!Undrop(c)
  BY <1>1, <1>2, <1>5, <1>7, <1>8, <1>9 DEF Contents!Undrop
<1> QED
  BY <1>2, <1>6, <1>10

LEMMA CountExpire ==
    ASSUME Counted, NEW old, ExpireShown(old)
    PROVE  Contents!Expire
<1> DEFINE K == KeptRows(manifest)
           L == KeptRows(manifest')
<1>1. /\ asked' = [op |-> "expire", dropped |-> old]
      /\ old \subseteq {d.at : d \in K} /\ L = {d \in K : d.at \notin old}
      /\ UNCHANGED <<ShownRows(manifest), committed>>
  BY DEF ExpireShown
<1>2. /\ LiveRows(manifest') = LiveRows(manifest)
      /\ DroppedRows(manifest) = {OnceDef(e) : e \in K}
      /\ DroppedRows(manifest') = {OnceDef(e) : e \in L}
  BY <1>1, Mapped
<1> HIDE DEF K, L
<1>3. {OnceDef(e) : e \in L} = {c \in {OnceDef(e) : e \in K} : c.at \notin old}
  BY <1>1, DefOf
<1>4. old \in SUBSET {c.at : c \in {OnceDef(e) : e \in K}}
  BY <1>1, DefOf
<1> QED
  BY <1>1, <1>2, <1>3, <1>4 DEF Contents!Expire

(* Every step is one of TableContents.                                     *)
LEMMA StatedCounts ==
    ASSUME Counted, ContentsInv, Stated
    PROVE  [Contents!Next]_(Contents!vars)
<1>1. ASSUME NEW n, CreateShown(n) PROVE Contents!Next
  BY <1>1, CountCreate DEF Contents!Next
<1>2. ASSUME NEW n, TruncateShown(n) PROVE Contents!Next
  <2>1. LessShown(n, Rows) /\ asked' = [op |-> "truncate", table |-> n]
    BY <1>2 DEF TruncateShown
  <2>2. n \in DOMAIN LiveRows(manifest) /\ Contents!Truncate(n)
    BY <2>1, CountLess DEF Contents!Truncate
  <2> QED
    BY <2>2 DEF Contents!Next
<1>3. ASSUME NEW n, DropShown(n) PROVE Contents!Next
  BY <1>3, CountDrop DEF Contents!Next
<1>4. ASSUME NEW n, NEW kills, DeleteShown(n, kills) PROVE Contents!Next
  <2>1. /\ kills \in SUBSET Rows /\ LessShown(n, kills)
        /\ asked' = [op |-> "delete", table |-> n, rows |-> kills]
    BY <1>4 DEF DeleteShown
  <2>2. n \in DOMAIN LiveRows(manifest) /\ Contents!Delete(n, kills)
    BY <2>1, CountLess DEF Contents!Delete
  <2> QED
    BY <2>1, <2>2 DEF Contents!Next
<1>5. ASSUME NEW d, UndropShown(d) PROVE Contents!Next
  BY <1>5, CountUndrop DEF Contents!Next
<1>6. ASSUME NEW old, ExpireShown(old) PROVE Contents!Next
  BY <1>6, CountExpire DEF Contents!Next
<1>7. ASSUME asked' = Unasked, Unnoticed PROVE Contents!Next
  <2>1. asked' = Contents!Unasked
    BY <1>7 DEF Unasked, Contents!Unasked
  <2>2. Contents!Quiet
    BY <1>7, <2>1, CountUnnoticed DEF Contents!Quiet
  <2> QED
    BY <2>2 DEF Contents!Next
<1>8. ASSUME asked' = Unasked, NEW new, InsertShown(new) PROVE Contents!Next
  BY <1>8, CountInsert DEF Contents!Next
<1>9. ASSUME UNCHANGED asked, Unnoticed PROVE UNCHANGED Contents!vars
  BY <1>9, CountUnnoticed DEF Contents!vars
<1> QED
  BY <1>1, <1>2, <1>3, <1>4, <1>5, <1>6, <1>7, <1>8, <1>9 DEF Stated, Simulated

(* A new store shows no tables.                                            *)
LEMMA ContentsInit == Init => Contents!Init
<1> SUFFICES ASSUME Init PROVE Contents!Init
  OBVIOUS
<1>1. manifest.tables = {} /\ manifest.retired = {} /\ committed = {} /\ asked = Unasked
  BY DEF Init, EmptyManifest
<1>2. LiveRows(manifest) = [n \in {} |-> Contents!NoRows]
  <2>1. {t.name : t \in manifest.tables} = {}
    BY <1>1
  <2> QED
    BY <2>1 DEF LiveRows
<1>3. DroppedRows(manifest) = {}
  BY <1>1 DEF DroppedRows
<1> QED
  BY <1>1, <1>2, <1>3 DEF Contents!Init, Unasked, Contents!Unasked

(* A row is stored once, before and after the step.                        *)
LEMMA RowsCounted == RowsAll => StoredOnce
<1>1. RowsAll => RowsOnce
  BY RowsInvIsRowsOnce DEF RowsAll
<1> QED
  BY <1>1 DEF RowsOnce, StoredOnce, OnceIn, Disjoint

(* The store implements its contents, for any number of tables, rows,      *)
(* workers, jobs and commits: a merge, a job step, a swap, a revert, an    *)
(* ALTER, a cancel, a failed flush, a crash with its recovery and a        *)
(* cleanup change nothing a reader sees; a flush adds its rows to all its  *)
(* tables at once, each row for the first time and once; a DELETE, a       *)
(* TRUNCATE and a DROP remove the rows they were asked to, and no other    *)
(* step removes any; an undrop brings back the last definition dropped     *)
(* under the name, as it was; and gc gives up the definitions it was to.   *)
(*                                                                         *)
(* The hypothesis is about gc (expire_retired): where REVERT is used, the  *)
(* definitions a gc removes are the oldest.  retire() stamps them with the *)
(* wall clock and gc compares that with now minus the age, so it holds     *)
(* while the clock is not set back.  Without it, expiring a newer dropped  *)
(* definition and keeping an older one lets UNDROP bring back a table that *)
(* a still older swapped definition does not follow, and REVERT to that    *)
(* definition would change what a reader sees.                             *)
THEOREM StoreRefines == Spec /\ [][ExpiryOrder]_vars => RefinesContents
<1>1. Init => ContentsInv /\ Contents!Init
  BY ContentsFirst, ContentsInit
<1>2. RowsAll => StoredOnce
  BY RowsCounted
<1>3. RowsAll' => StoredOnce'
  BY RowsCounted, PTL
<1>4. RowsAll /\ RowsAll' /\ ContentsInv /\ [Next]_vars /\ [ExpiryOrder]_vars
        => ContentsInv' /\ [Contents!Next]_(Contents!vars)
  BY <1>2, <1>3, StepContents, StatedCounts DEF Counted
<1> QED
  BY <1>1, <1>4, RowsAlways, PTL DEF Spec, RefinesContents, Contents!Spec
=============================================================================
