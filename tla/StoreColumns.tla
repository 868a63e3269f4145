---------------------------- MODULE StoreColumns ----------------------------
(***************************************************************************)
(* Columns keep their identity.  A tombstone names a column of its table,  *)
(* and a running job can always carry it over the swap: for that, ALTER's  *)
(* clauses are followed one by one, by induction on their number.  The     *)
(* column it names stays the one the delete was written for, through       *)
(* renames, re-added names, swaps, reverts, drops and undrops.  And what   *)
(* the files of a table hold for a column was written for that column: for *)
(* that, definitions are followed along their lineage, over which a field  *)
(* id is given once.                                                       *)
(***************************************************************************)
EXTENDS StoreContents

-----------------------------------------------------------------------------
(* The invariants.                                                         *)

(* A schema names a column once and gives a field id once, below the       *)
(* counter new ids come from.                                              *)
IsField(f) == f = [col |-> f.col, fid |-> f.fid, birth |-> f.birth]
Below(S, n) == \A f \in S : IsField(f) /\ f.fid \in Nat /\ f.fid < n
OneEach(S) == \A f, g \in S : (f.col = g.col \/ f.fid = g.fid) => f = g
SchemaOK(S, n) == n \in Nat /\ Below(S, n) /\ OneEach(S)

(* A tombstone names a column of the table, by its name and by its id.     *)
KillsNamed(T, S) ==
    \A k \in T : IsTombstone(k) /\ \E f \in S : f.col = k.col /\ f.fid = k.fid

(* A job's target has the columns that tombstones of its source name.      *)
KillsCarried(T, S) == \A k \in T : k.fid \in Fids(S)

EntryOK(e) == SchemaOK(e.schema, e.next_field_id) /\ KillsNamed(e.tombstones, e.schema)
ColumnsOK(m) ==
    /\ \A t \in m.tables : EntryOK(t)
    /\ \A r \in m.retired : EntryOK(r.entry)
    /\ \A j \in m.jobs : EntryOK(j.target)
    /\ \A j \in m.jobs, t \in m.tables :
         t.id = j.source => KillsCarried(t.tombstones, j.target.schema)
ColumnsInv == ColumnsOK(manifest)

(* Definitions that give an id to a column mean the same column by it.     *)
Agree(S, U) == \A f \in S, g \in U : f.fid = g.fid => f.birth = g.birth
KillsBorn(e) == \A k \in e.tombstones, f \in e.schema : f.fid = k.fid => f.birth = k.birth

(* A definition made from another by ALTER: its other columns have new ids. *)
Derived(t, e) ==
    /\ t.next_field_id <= e.next_field_id
    /\ Agree(t.schema, e.schema)
    /\ \A g \in e.schema : g.fid \in Fids(t.schema) \/ t.next_field_id <= g.fid

(* The table c goes back to the swapped definition r.                      *)
CameFrom(r, c) ==
    c.name = r.entry.name =>
      Agree(r.entry.schema, c.schema) /\ r.entry.next_field_id <= c.next_field_id
LinesOK(m) ==
    \A r \in Swapped(m) :
        /\ \A t \in m.tables : CameFrom(r, t)
        /\ \A d \in Dropped(m) : r.version < d.version => CameFrom(r, d.entry)
        /\ \A q \in Swapped(m) :
              q.entry.name = r.entry.name => Agree(r.entry.schema, q.entry.schema)
BirthsOK(m) ==
    /\ \A t \in m.tables : KillsBorn(t)
    /\ \A r \in m.retired : KillsBorn(r.entry)
    /\ \A j \in m.jobs, t \in m.tables : t.id = j.source => Derived(t, j.target)
    /\ LinesOK(m)
BirthsInv == BirthsOK(manifest)

(* A name is not created again while REVERT can still find a definition of *)
(* the table that had it.                                                  *)
NameUnused ==
    \A n \in Names, columns \in ColumnLists :
        Create(n, columns) => \A r \in Swapped(manifest) : r.entry.name # n

-----------------------------------------------------------------------------
(* Induction, as the principle of the least number.                        *)

LEMMA Least ==
    ASSUME NEW T, T \subseteq Nat, T # {}
    PROVE  \E x \in T : \A y \in T : x <= y
<1> DEFINE R == {ss \in Nat \X Nat : ss[1] < ss[2]}
<1>1. IsWellFoundedOn(R, Nat)
  BY NatLessThanWellFounded DEF OpToRel
<1>2. PICK x \in T : \A y \in T : ~(<<y, x>> \in R)
  <2> HIDE DEF R
  <2> QED
    BY <1>1, WFMin
<1>3. ASSUME NEW y \in T PROVE x <= y
  <2>1. x \in Nat /\ y \in Nat
    OBVIOUS
  <2>2. <<y, x>> \in Nat \X Nat /\ <<y, x>>[1] = y /\ <<y, x>>[2] = x
    BY <2>1
  <2>3. ~(y < x)
    BY <1>2, <2>2
  <2> QED
    BY <2>1, <2>3
<1> QED
  BY <1>3

(* A set of numbers that has 0 and, with a number, the next one.           *)
LEMMA Induction ==
    ASSUME NEW S, 0 \in S, \A n \in Nat : n \in S => n + 1 \in S
    PROVE  Nat \subseteq S
<1> SUFFICES ASSUME Nat \ S # {} PROVE FALSE
  OBVIOUS
<1>1. PICK x \in Nat \ S : \A y \in Nat \ S : x <= y
  BY Least
<1>2. x # 0
  OBVIOUS
<1>3. x - 1 \in Nat /\ (x - 1) + 1 = x /\ ~(x <= x - 1)
  BY <1>2
<1>4. x - 1 \in S
  BY <1>1, <1>3
<1>5. x \in S
  BY <1>3, <1>4
<1> QED
  BY <1>5

-----------------------------------------------------------------------------
(* ALTER's plan.                                                           *)

(* The definition the plan starts from.                                    *)
Start(t, id) ==
    [id |-> id, schema |-> t.schema, order_by |-> t.order_by,
     next_field_id |-> t.next_field_id]

(* The plan after each clause is what the clause makes of the one before.  *)
LEMMA PlanSteps ==
    ASSUME NEW t, NEW id, NEW ops, Len(ops) \in Nat
    PROVE  LET plan == PlanAlter(t, id, ops)
           IN  /\ plan[0] = Start(t, id)
               /\ \A i \in 1 .. Len(ops) : plan[i] = ApplyAlter(plan[i - 1], ops[i])
<1> DEFINE A == Start(t, id)
           F(p, i) == ApplyAlter(p, ops[i])
           Is(g, n) == g = [i \in 0 .. n |-> IF i = 0 THEN A ELSE F(g[i - 1], i)]
           S == {n \in Nat : \E g : Is(g, n)}
<1> HIDE DEF A, F
<1>1. 0 \in S
  <2> DEFINE g == [i \in 0 .. 0 |-> A]
  <2>1. Is(g, 0)
    OBVIOUS
  <2> QED
    BY <2>1
<1>2. ASSUME NEW n \in Nat, n \in S PROVE n + 1 \in S
  <2>1. PICK g : Is(g, n)
    BY <1>2
  <2> DEFINE h == [i \in 0 .. n + 1 |-> IF i = n + 1 THEN F(g[n], n + 1) ELSE g[i]]
  <2>2. ASSUME NEW i \in 0 .. n + 1
        PROVE  h[i] = IF i = 0 THEN A ELSE F(h[i - 1], i)
    <3>1. CASE i = n + 1
      <4>1. i # 0 /\ i - 1 = n /\ n \in 0 .. n + 1 /\ n # n + 1
        BY <3>1
      <4> QED
        BY <3>1, <4>1
    <3>2. CASE i # n + 1
      <4>1. i \in 0 .. n /\ h[i] = g[i]
        BY <3>2
      <4>2. g[i] = IF i = 0 THEN A ELSE F(g[i - 1], i)
        BY <2>1, <4>1
      <4>3. i # 0 => i - 1 \in 0 .. n + 1 /\ i - 1 # n + 1
        BY <4>1
      <4>4. i # 0 => h[i - 1] = g[i - 1]
        BY <4>3
      <4> QED
        BY <4>1, <4>2, <4>4
    <3> QED
      BY <3>1, <3>2
  <2>3. Is(h, n + 1)
    <3>1. h = [i \in 0 .. n + 1 |-> h[i]]
      OBVIOUS
    <3> HIDE DEF h
    <3> QED
      BY <2>2, <3>1
  <2> HIDE DEF h
  <2> QED
    BY <2>3
<1>3. Len(ops) \in S
  <2> HIDE DEF S
  <2> QED
    BY <1>1, <1>2, Induction
<1>4. \E g : Is(g, Len(ops))
  BY <1>3
<1> DEFINE plan == PlanAlter(t, id, ops)
<1>5. plan = CHOOSE g : Is(g, Len(ops))
  BY DEF PlanAlter, A, F, Start
<1>6. Is(plan, Len(ops))
  <2> HIDE DEF plan
  <2> QED
    BY <1>4, <1>5
<1> HIDE DEF plan
<1>7. plan[0] = A
  BY <1>6
<1>8. ASSUME NEW i \in 1 .. Len(ops) PROVE plan[i] = F(plan[i - 1], i)
  <2>1. i \in 0 .. Len(ops) /\ i # 0
    OBVIOUS
  <2> QED
    BY <1>6, <2>1
<1> QED
  BY <1>7, <1>8 DEF plan, A, F

(* What every clause keeps of the definition p it is applied to, t being   *)
(* the table that is altered.                                              *)
IsPlan(p) ==
    p = [id |-> p.id, schema |-> p.schema, order_by |-> p.order_by,
         next_field_id |-> p.next_field_id]
PlanOK(t, p) ==
    /\ IsPlan(p)
    /\ SchemaOK(p.schema, p.next_field_id)
    /\ KillsCarried(t.tombstones, p.schema)
    /\ Derived(t, p)

(* Fields added above every id there is.                                   *)
LEMMA AddField ==
    ASSUME NEW t, NEW p, SchemaOK(t.schema, t.next_field_id), PlanOK(t, p),
           NEW c, c \notin Cols(p.schema), NEW q, IsPlan(q),
           q.next_field_id = p.next_field_id + 1,
           q.schema = p.schema \union
             {[col |-> c, fid |-> p.next_field_id, birth |-> p.id]}
    PROVE  PlanOK(t, q)
<1> DEFINE S == p.schema
           n == p.next_field_id
           new == [col |-> c, fid |-> n, birth |-> p.id]
<1>1. new.col = c /\ new.fid = n /\ IsField(new)
  BY DEF IsField
<1> HIDE DEF new
<1>2. q.schema = S \union {new}
  BY DEF new
<1>3. n \in Nat /\ \A f \in S : IsField(f) /\ f.fid \in Nat /\ f.fid < n
  BY DEF PlanOK, SchemaOK, Below
<1>4. \A f \in S : f.col # c
  BY DEF Cols
<1>5. SchemaOK(q.schema, n + 1)
  <2>1. Below(q.schema, n + 1)
    BY <1>1, <1>2, <1>3 DEF Below
  <2>2. OneEach(q.schema)
    <3>1. \A f \in S : f.col # new.col /\ f.fid # new.fid
      BY <1>1, <1>3, <1>4
    <3> QED
      BY <1>2, <3>1 DEF PlanOK, SchemaOK, OneEach
  <2> QED
    BY <1>3, <2>1, <2>2 DEF SchemaOK
<1>6. KillsCarried(t.tombstones, q.schema)
  BY <1>2 DEF PlanOK, KillsCarried, Fids
<1>7. t.next_field_id \in Nat /\ t.next_field_id <= n
  BY DEF PlanOK, SchemaOK, Derived
<1>8. Agree(t.schema, q.schema)
  <2>1. \A f \in t.schema : f.fid # new.fid
    BY <1>1, <1>3, <1>7 DEF SchemaOK, Below
  <2> QED
    BY <1>2, <2>1 DEF PlanOK, Derived, Agree
<1>9. \A g \in q.schema : g.fid \in Fids(t.schema) \/ t.next_field_id <= g.fid
  BY <1>1, <1>2, <1>7 DEF PlanOK, Derived
<1>10. t.next_field_id <= n + 1
  BY <1>3, <1>7
<1> QED
  BY <1>5, <1>6, <1>8, <1>9, <1>10 DEF PlanOK, Derived

(* A column no tombstone names is dropped.                                 *)
LEMMA DropField ==
    ASSUME NEW t, NEW p, SchemaOK(t.schema, t.next_field_id), PlanOK(t, p),
           KillsNamed(t.tombstones, t.schema),
           NEW a, a.op = "drop", CanAlter(t, p, a), NEW q, IsPlan(q),
           q.next_field_id = p.next_field_id,
           q.schema = {f \in p.schema : f.col # a.col}
    PROVE  PlanOK(t, q)
<1>1. PICK f \in p.schema :
         /\ f.col = a.col
         /\ \A k \in t.tombstones :
              k.col # IF f.fid \in Fids(t.schema)
                        THEN (CHOOSE g \in t.schema : g.fid = f.fid).col
                        ELSE a.col
  BY DEF CanAlter
<1>2. q.schema \subseteq p.schema
  OBVIOUS
<1>3. SchemaOK(q.schema, q.next_field_id)
  BY <1>2 DEF PlanOK, SchemaOK, Below, OneEach
<1>4. Derived(t, q)
  BY <1>2 DEF PlanOK, Derived, Agree
<1>5. ASSUME NEW k \in t.tombstones PROVE k.fid \in Fids(q.schema)
  <2>1. PICK g \in p.schema : g.fid = k.fid
    BY DEF PlanOK, KillsCarried, Fids
  <2>2. PICK h \in t.schema : h.col = k.col /\ h.fid = k.fid
    BY DEF KillsNamed
  <2>3. g.col # a.col
    <3> SUFFICES ASSUME g.col = a.col PROVE FALSE
      OBVIOUS
    <3>1. g = f
      BY <1>1 DEF PlanOK, SchemaOK, OneEach
    <3>2. f.fid \in Fids(t.schema) /\ h.fid = f.fid
      BY <2>1, <2>2, <3>1 DEF Fids
    <3>3. (CHOOSE e \in t.schema : e.fid = f.fid) = h
      <4> DEFINE e == CHOOSE e \in t.schema : e.fid = f.fid
      <4>1. e \in t.schema /\ e.fid = f.fid
        BY <3>2
      <4> HIDE DEF e
      <4>2. e = h
        BY <3>2, <4>1 DEF SchemaOK, OneEach
      <4> QED
        BY <4>2 DEF e
    <3> QED
      BY <1>1, <2>2, <3>2, <3>3
  <2> QED
    BY <2>1, <2>3 DEF Fids
<1> QED
  BY <1>3, <1>4, <1>5 DEF PlanOK, KillsCarried

(* A column gets a name nobody has.                                        *)
Renamed(g, f, c, d) ==
    /\ IsField(g) /\ g.fid = f.fid /\ g.birth = f.birth
    /\ g.col = IF f.col = c THEN d ELSE f.col
LEMMA RenameField ==
    ASSUME NEW t, NEW p, PlanOK(t, p), NEW c, NEW d, d \notin Cols(p.schema),
           NEW q, IsPlan(q), q.next_field_id = p.next_field_id,
           \A g \in q.schema : \E f \in p.schema : Renamed(g, f, c, d),
           \A f \in p.schema : \E g \in q.schema : Renamed(g, f, c, d)
    PROVE  PlanOK(t, q)
<1>1. \A f \in p.schema : f.col # d
  BY DEF Cols
<1>2. Below(q.schema, q.next_field_id)
  BY DEF PlanOK, SchemaOK, Below, Renamed
<1>3. OneEach(q.schema)
  <2> SUFFICES ASSUME NEW x \in q.schema, NEW y \in q.schema,
                      x.col = y.col \/ x.fid = y.fid
               PROVE  x = y
    BY DEF OneEach
  <2>1. PICK f \in p.schema : Renamed(x, f, c, d)
    OBVIOUS
  <2>2. PICK g \in p.schema : Renamed(y, g, c, d)
    OBVIOUS
  <2>3. f.col = g.col \/ f.fid = g.fid
    BY <1>1, <2>1, <2>2 DEF Renamed
  <2>4. f = g
    BY <2>3 DEF PlanOK, SchemaOK, OneEach
  <2>5. x.col = y.col /\ x.fid = y.fid /\ x.birth = y.birth
    BY <2>1, <2>2, <2>4 DEF Renamed
  <2> QED
    BY <2>1, <2>2, <2>5 DEF Renamed, IsField
<1>4. KillsCarried(t.tombstones, q.schema)
  <2> SUFFICES ASSUME NEW k \in t.tombstones PROVE \E g \in q.schema : g.fid = k.fid
    BY DEF KillsCarried, Fids
  <2>1. PICK f \in p.schema : f.fid = k.fid
    BY DEF PlanOK, KillsCarried, Fids
  <2> QED
    BY <2>1 DEF Renamed
<1>5. Derived(t, q)
  <2>1. Agree(t.schema, q.schema)
    BY DEF PlanOK, Derived, Agree, Renamed
  <2>2. \A g \in q.schema : g.fid \in Fids(t.schema) \/ t.next_field_id <= g.fid
    BY DEF PlanOK, Derived, Renamed
  <2> QED
    BY <2>1, <2>2 DEF PlanOK, Derived
<1> QED
  BY <1>2, <1>3, <1>4, <1>5 DEF PlanOK, SchemaOK

Clauses == {"add", "drop", "rename", "order_by"}

(* Any clause.                                                             *)
LEMMA ClauseKeeps ==
    ASSUME NEW t, NEW p, SchemaOK(t.schema, t.next_field_id), PlanOK(t, p),
           KillsNamed(t.tombstones, t.schema), NEW a, a.op \in Clauses, CanAlter(t, p, a)
    PROVE  PlanOK(t, ApplyAlter(p, a))
<1> DEFINE q == ApplyAlter(p, a)
<1>0. IsPlan(p)
  BY DEF PlanOK
<1>1. CASE a.op = "add"
  <2>1. q = [p EXCEPT !.schema = @ \union
               {[col |-> a.col, fid |-> p.next_field_id, birth |-> p.id]},
                      !.next_field_id = @ + 1]
    BY <1>1 DEF ApplyAlter
  <2>2. /\ IsPlan(q) /\ q.next_field_id = p.next_field_id + 1
        /\ q.schema = p.schema \union
             {[col |-> a.col, fid |-> p.next_field_id, birth |-> p.id]}
    BY <1>0, <2>1 DEF IsPlan
  <2>3. a.col \notin Cols(p.schema)
    BY <1>1 DEF CanAlter
  <2> HIDE DEF q
  <2>4. PlanOK(t, q)
    BY <2>2, <2>3, AddField
  <2> QED
    BY <2>4 DEF q
<1>2. CASE a.op = "drop"
  <2>1. q = [p EXCEPT !.schema = {f \in p.schema : f.col # a.col}]
    BY <1>2 DEF ApplyAlter
  <2>2. /\ IsPlan(q) /\ q.next_field_id = p.next_field_id
        /\ q.schema = {f \in p.schema : f.col # a.col}
    BY <1>0, <2>1 DEF IsPlan
  <2> HIDE DEF q
  <2>3. PlanOK(t, q)
    BY <1>2, <2>2, DropField
  <2> QED
    BY <2>3 DEF q
<1>3. CASE a.op = "rename"
  <2> DEFINE S == {IF f.col = a.col THEN [f EXCEPT !.col = a.to] ELSE f : f \in p.schema}
  <2>1. q = [p EXCEPT !.schema = S]
    BY <1>3 DEF ApplyAlter
  <2>2. IsPlan(q) /\ q.next_field_id = p.next_field_id /\ q.schema = S
    <3> HIDE DEF S
    <3> QED
      BY <1>0, <2>1 DEF IsPlan
  <2>3. a.to \notin Cols(p.schema)
    BY <1>3 DEF CanAlter
  <2>4. ASSUME NEW f \in p.schema
        PROVE  LET g == IF f.col = a.col THEN [f EXCEPT !.col = a.to] ELSE f
               IN  g \in S /\ Renamed(g, f, a.col, a.to)
    <3>1. IsField(f)
      BY DEF PlanOK, SchemaOK, Below
    <3> QED
      BY <3>1 DEF IsField, Renamed
  <2>5. /\ \A g \in S : \E f \in p.schema : Renamed(g, f, a.col, a.to)
        /\ \A f \in p.schema : \E g \in S : Renamed(g, f, a.col, a.to)
    BY <2>4
  <2> HIDE DEF q, S
  <2>6. PlanOK(t, q)
    BY <2>2, <2>3, <2>5, RenameField
  <2> QED
    BY <2>6 DEF q
<1>4. CASE a.op = "order_by"
  <2>1. PICK x : q = [p EXCEPT !.order_by = x]
    BY <1>4 DEF ApplyAlter
  <2>2. IsPlan(q) /\ q.next_field_id = p.next_field_id /\ q.schema = p.schema
    BY <1>0, <2>1 DEF IsPlan
  <2> HIDE DEF q
  <2>3. PlanOK(t, q)
    BY <2>2 DEF PlanOK, Derived
  <2> QED
    BY <2>3 DEF q
<1> QED
  BY <1>1, <1>2, <1>3, <1>4 DEF Clauses

(* All of them, by induction on their number.                              *)
LEMMA PlanKeeps ==
    ASSUME NEW m, NEW t, SchemaOK(t.schema, t.next_field_id),
           KillsNamed(t.tombstones, t.schema),
           NEW ops, Len(ops) \in Nat, \A i \in 1 .. Len(ops) : ops[i].op \in Clauses,
           CanCreateJob(m, t, ops)
    PROVE  PlanOK(t, PlanAlter(t, m.next_table_id, ops)[Len(ops)])
<1> DEFINE plan == PlanAlter(t, m.next_table_id, ops)
           S == {n \in Nat : n <= Len(ops) => PlanOK(t, plan[n])}
<1>1. /\ plan[0] = Start(t, m.next_table_id)
      /\ \A i \in 1 .. Len(ops) : plan[i] = ApplyAlter(plan[i - 1], ops[i])
  BY PlanSteps
<1>2. \A i \in 1 .. Len(ops) : CanAlter(t, plan[i - 1], ops[i])
  BY DEF CanCreateJob
<1> HIDE DEF plan
<1>3. PlanOK(t, plan[0])
  <2> DEFINE p == Start(t, m.next_table_id)
  <2>1. IsPlan(p) /\ p.schema = t.schema /\ p.next_field_id = t.next_field_id
    BY DEF IsPlan, Start
  <2> HIDE DEF p
  <2>2. KillsCarried(t.tombstones, t.schema)
    BY DEF KillsNamed, KillsCarried, Fids
  <2>3. Derived(t, p)
    <3>1. t.next_field_id <= t.next_field_id
      BY DEF SchemaOK
    <3>2. Agree(t.schema, t.schema)
      BY DEF Agree, SchemaOK, OneEach
    <3>3. \A g \in t.schema : g.fid \in Fids(t.schema)
      BY DEF Fids
    <3> QED
      BY <2>1, <3>1, <3>2, <3>3 DEF Derived
  <2>4. PlanOK(t, p)
    BY <2>1, <2>2, <2>3 DEF PlanOK
  <2> QED
    BY <1>1, <2>4 DEF p
<1>4. ASSUME NEW n \in Nat, n \in S PROVE n + 1 \in S
  <2> SUFFICES ASSUME n + 1 <= Len(ops) PROVE PlanOK(t, plan[n + 1])
    OBVIOUS
  <2>1. n + 1 \in 1 .. Len(ops) /\ (n + 1) - 1 = n /\ n <= Len(ops)
    OBVIOUS
  <2>2. PlanOK(t, plan[n])
    BY <1>4, <2>1
  <2>3. CanAlter(t, plan[n], ops[n + 1]) /\ plan[n + 1] = ApplyAlter(plan[n], ops[n + 1])
    BY <1>1, <1>2, <2>1
  <2>4. ops[n + 1].op \in Clauses
    BY <2>1
  <2> QED
    BY <2>2, <2>3, <2>4, ClauseKeeps
<1>5. Len(ops) \in S
  <2>1. 0 \in S
    BY <1>3
  <2> HIDE DEF S
  <2> QED
    BY <1>4, <2>1, Induction
<1>6. PlanOK(t, plan[Len(ops)])
  BY <1>5
<1> QED
  BY <1>6 DEF plan

-----------------------------------------------------------------------------
(* Entries and tombstones.                                                 *)

(* The field of a name, the field of an id.                                *)
LEMMA NamedField ==
    ASSUME NEW S, OneEach(S), NEW f \in S
    PROVE  FieldNamed(S, f.col) = f /\ (CHOOSE g \in S : g.fid = f.fid) = f
<1>1. FieldNamed(S, f.col) \in S /\ FieldNamed(S, f.col).col = f.col
  BY DEF FieldNamed
<1> DEFINE h == CHOOSE g \in S : g.fid = f.fid
<1>2. h \in S /\ h.fid = f.fid
  OBVIOUS
<1> HIDE DEF h
<1>3. FieldNamed(S, f.col) = f
  BY <1>1 DEF OneEach
<1>4. h = f
  BY <1>2 DEF OneEach
<1> QED
  BY <1>3, <1>4 DEF h

(* Tombstones carried to a schema that has their columns name them there,  *)
(* and keep their ids.                                                     *)
LEMMA CarriedKills ==
    ASSUME NEW T, NEW S, NEW U, OneEach(S), OneEach(U), KillsNamed(T, S),
           KillsCarried(T, U)
    PROVE  /\ KillsNamed(RenameTombstones(T, S, U), U)
           /\ \A l \in RenameTombstones(T, S, U) : \E k \in T :
                 l.fid = k.fid /\ l.birth = k.birth
<1> SUFFICES ASSUME NEW l \in RenameTombstones(T, S, U)
             PROVE  /\ IsTombstone(l)
                    /\ \E g \in U : g.col = l.col /\ g.fid = l.fid
                    /\ \E k \in T : l.fid = k.fid /\ l.birth = k.birth
  BY DEF KillsNamed
<1>1. PICK k \in T : l = [k EXCEPT !.col =
         (CHOOSE g \in U : g.fid = FieldNamed(S, k.col).fid).col]
  BY DEF RenameTombstones
<1>2. PICK f \in S : IsTombstone(k) /\ f.col = k.col /\ f.fid = k.fid
  BY DEF KillsNamed
<1>3. FieldNamed(S, k.col) = f
  BY <1>2, NamedField
<1>4. PICK g \in U : g.fid = k.fid
  BY DEF KillsCarried, Fids
<1>5. (CHOOSE h \in U : h.fid = f.fid) = g
  BY <1>2, <1>4, NamedField
<1>6. l = [k EXCEPT !.col = g.col]
  BY <1>1, <1>3, <1>5
<1>7. IsTombstone(l) /\ l.col = g.col /\ l.fid = k.fid /\ l.birth = k.birth
  BY <1>2, <1>6 DEF IsTombstone
<1> QED
  BY <1>4, <1>7

(* A tombstone that can be renamed has its column in the target.           *)
LEMMA CanRenameCarried ==
    ASSUME NEW T, NEW S, NEW U, OneEach(S), KillsNamed(T, S)
    PROVE  CanRename(T, S, U) <=> KillsCarried(T, U)
<1>1. ASSUME NEW k \in T
      PROVE  k.col \in Cols(S) /\ FieldNamed(S, k.col).fid = k.fid
  <2>1. PICK f \in S : f.col = k.col /\ f.fid = k.fid
    BY DEF KillsNamed
  <2>2. FieldNamed(S, k.col) = f
    BY <2>1, NamedField
  <2> QED
    BY <2>1, <2>2 DEF Cols
<1> QED
  BY <1>1 DEF CanRename, KillsCarried

-----------------------------------------------------------------------------
(* What each kind of commit does to the columns: n follows m.              *)

(* The same columns, under the same name.                                  *)
SameColumns(t, u) ==
    /\ u.id = t.id /\ u.name = t.name /\ u.schema = t.schema
    /\ u.next_field_id = t.next_field_id
Kept(t, u) == SameColumns(t, u) /\ u.tombstones \subseteq t.tombstones
Framed(m, n) ==
    /\ \A u \in n.tables : \E t \in m.tables : Kept(t, u)
    /\ \A i \in n.jobs : \E j \in m.jobs : i.source = j.source /\ Kept(j.target, i.target)
    /\ n.retired \subseteq m.retired

(* An entry that keeps its columns is as good as it was.                   *)
LEMMA KeptEntry ==
    ASSUME NEW t, NEW u, Kept(t, u)
    PROVE  /\ EntryOK(t) => EntryOK(u)
           /\ KillsBorn(t) => KillsBorn(u)
           /\ \A r : CameFrom(r, t) => CameFrom(r, u)
  BY DEF Kept, SameColumns, EntryOK, KillsNamed, KillsBorn, CameFrom

(* Fewer definitions, and the same columns.                                *)
LEMMA FramedColumns ==
    ASSUME NEW m, NEW n, Framed(m, n), ColumnsOK(m)
    PROVE  ColumnsOK(n) /\ (BirthsOK(m) => BirthsOK(n))
<1>1. \A u \in n.tables : \E t \in m.tables : Kept(t, u)
  BY DEF Framed
<1>2. \A i \in n.jobs : \E j \in m.jobs : i.source = j.source /\ Kept(j.target, i.target)
  BY DEF Framed
<1>3. n.retired \subseteq m.retired
  BY DEF Framed
<1>4. ColumnsOK(n)
  <2>1. \A u \in n.tables : EntryOK(u)
    BY <1>1, KeptEntry DEF ColumnsOK
  <2>2. \A i \in n.jobs : EntryOK(i.target)
    BY <1>2, KeptEntry DEF ColumnsOK
  <2>3. ASSUME NEW i \in n.jobs, NEW u \in n.tables, u.id = i.source
        PROVE  KillsCarried(u.tombstones, i.target.schema)
    <3>1. PICK t \in m.tables : Kept(t, u)
      BY <1>1
    <3>2. PICK j \in m.jobs : i.source = j.source /\ Kept(j.target, i.target)
      BY <1>2
    <3>3. KillsCarried(t.tombstones, j.target.schema)
      BY <2>3, <3>1, <3>2 DEF ColumnsOK, Kept, SameColumns
    <3> QED
      BY <3>1, <3>2, <3>3 DEF KillsCarried, Kept, SameColumns
  <2> QED
    BY <1>3, <2>1, <2>2, <2>3 DEF ColumnsOK
<1>5. ASSUME BirthsOK(m) PROVE BirthsOK(n)
  <2>1. \A u \in n.tables : KillsBorn(u)
    BY <1>1, <1>5, KeptEntry DEF BirthsOK
  <2>2. ASSUME NEW i \in n.jobs, NEW u \in n.tables, u.id = i.source
        PROVE  Derived(u, i.target)
    <3>1. PICK t \in m.tables : Kept(t, u)
      BY <1>1
    <3>2. PICK j \in m.jobs : i.source = j.source /\ Kept(j.target, i.target)
      BY <1>2
    <3>3. Derived(t, j.target)
      BY <1>5, <2>2, <3>1, <3>2 DEF BirthsOK, Kept, SameColumns
    <3> QED
      BY <3>1, <3>2, <3>3 DEF Derived, Kept, SameColumns
  <2>3. Swapped(n) \subseteq Swapped(m) /\ Dropped(n) \subseteq Dropped(m)
    BY <1>3 DEF Swapped, Dropped
  <2>4. \A r \in Swapped(n), u \in n.tables : CameFrom(r, u)
    BY <1>1, <1>5, <2>3, KeptEntry DEF BirthsOK, LinesOK
  <2>5. LinesOK(n)
    BY <1>5, <2>3, <2>4 DEF BirthsOK, LinesOK
  <2> QED
    BY <1>3, <1>5, <2>1, <2>2, <2>5 DEF BirthsOK
<1> QED
  BY <1>4, <1>5

(* CREATE TABLE: ids from 1 on, for columns that are all different.        *)
LEMMA CreateColumns ==
    ASSUME NEW m, NEW n, UniqueIn(m), ColumnsOK(m), NEW nm, NEW columns \in ColumnLists,
           NEW e, e = NewEntry(m.next_table_id, nm, columns),
           n.tables = m.tables \union {e}, n.jobs = m.jobs, n.retired = m.retired
    PROVE  /\ ColumnsOK(n)
           /\ BirthsOK(m) /\ (\A r \in Swapped(m) : r.entry.name # nm) => BirthsOK(n)
<1> DEFINE len == Len(columns)
           new(i) == [col |-> columns[i], fid |-> i, birth |-> m.next_table_id]
           S == {new(i) : i \in 1 .. len}
<1>1. /\ len \in Nat
      /\ \A i, k \in 1 .. len : columns[i] = columns[k] => i = k
  BY StatementAssumption
<1>2. /\ e.id = m.next_table_id /\ e.name = nm /\ e.tombstones = {}
      /\ e.schema = S /\ e.next_field_id = len + 1
  BY DEF NewEntry
<1>3. SchemaOK(S, len + 1)
  <2>1. \A f \in S : \E i \in 1 .. len : f.col = columns[i] /\ f.fid = i /\ f = new(i)
    OBVIOUS
  <2>2. \A f \in S : IsField(f)
    <3> TAKE f \in S
    <3>1. PICK i \in 1 .. len : f = new(i)
      OBVIOUS
    <3> QED
      BY <3>1 DEF IsField
  <2>3. \A i \in 1 .. len : i \in Nat /\ i < len + 1
    BY <1>1
  <2>4. Below(S, len + 1)
    <3> HIDE DEF S, new, len
    <3> QED
      BY <2>1, <2>2, <2>3 DEF Below
  <2>5. OneEach(S)
    <3> HIDE DEF S, new, len
    <3> QED
      BY <1>1, <2>1 DEF OneEach
  <2> QED
    BY <1>1, <2>4, <2>5 DEF SchemaOK
<1>4. EntryOK(e) /\ KillsBorn(e)
  BY <1>2, <1>3 DEF EntryOK, KillsNamed, KillsBorn
<1>5. \A j \in m.jobs : j.source # e.id
  BY <1>2 DEF UniqueIn, Unique, TablesUnique, JobsUnique
<1> HIDE DEF S, new, len
<1>6. ColumnsOK(n)
  BY <1>4, <1>5 DEF ColumnsOK
<1>7. ASSUME BirthsOK(m), \A r \in Swapped(m) : r.entry.name # nm PROVE BirthsOK(n)
  <2>1. Swapped(n) = Swapped(m) /\ Dropped(n) = Dropped(m)
    BY DEF Swapped, Dropped
  <2>2. \A r \in Swapped(m) : CameFrom(r, e)
    BY <1>2, <1>7 DEF CameFrom
  <2>3. LinesOK(n)
    BY <1>7, <2>1, <2>2 DEF BirthsOK, LinesOK
  <2> QED
    BY <1>4, <1>5, <1>7, <2>3 DEF BirthsOK
<1> QED
  BY <1>6, <1>7

(* DELETE: the new tombstone names a column a running job keeps.           *)
LEMMA DeleteColumns ==
    ASSUME NEW m, NEW n, ColumnsOK(m), NEW t \in m.tables, NEW c, CanAddTombstone(m, t, c),
           NEW u, SameColumns(t, u), NEW k, u.tombstones = t.tombstones \union {k},
           IsTombstone(k),
           k.col = c, k.fid = FieldNamed(t.schema, c).fid,
           k.birth = FieldNamed(t.schema, c).birth,
           n.tables = (m.tables \ {t}) \union {u}, n.jobs = m.jobs, n.retired = m.retired
    PROVE  ColumnsOK(n) /\ (BirthsOK(m) => BirthsOK(n))
<1>1. PICK f \in t.schema :
         /\ f.col = c
         /\ \A j \in m.jobs : j.source = t.id => f.fid \in Fids(j.target.schema)
  BY DEF CanAddTombstone
<1>2. EntryOK(t) /\ OneEach(t.schema)
  BY DEF ColumnsOK, EntryOK, SchemaOK
<1>3. k.fid = f.fid /\ k.birth = f.birth
  BY <1>1, <1>2, NamedField
<1>4. EntryOK(u)
  BY <1>1, <1>2, <1>3 DEF EntryOK, KillsNamed, SameColumns
<1>5. \A j \in m.jobs : u.id = j.source => KillsCarried(u.tombstones, j.target.schema)
  BY <1>1, <1>3 DEF ColumnsOK, KillsCarried, SameColumns
<1>6. ColumnsOK(n)
  BY <1>4, <1>5 DEF ColumnsOK
<1>7. ASSUME BirthsOK(m) PROVE BirthsOK(n)
  <2>1. KillsBorn(u)
    <3>1. \A g \in t.schema : g.fid = k.fid => g = f
      BY <1>2, <1>3 DEF OneEach
    <3> QED
      BY <1>3, <1>7, <3>1 DEF BirthsOK, KillsBorn, SameColumns
  <2>2. \A j \in m.jobs : u.id = j.source => Derived(u, j.target)
    BY <1>7 DEF BirthsOK, Derived, SameColumns
  <2>3. \A r \in Swapped(m) : CameFrom(r, u)
    BY <1>7 DEF BirthsOK, LinesOK, CameFrom, SameColumns
  <2>4. Swapped(n) = Swapped(m) /\ Dropped(n) = Dropped(m)
    BY DEF Swapped, Dropped
  <2>5. LinesOK(n)
    BY <1>7, <2>3, <2>4 DEF BirthsOK, LinesOK
  <2> QED
    BY <1>7, <2>1, <2>2, <2>5 DEF BirthsOK
<1> QED
  BY <1>6, <1>7

(* ALTER TABLE: the target its clauses make of the table.                  *)
LEMMA AlterColumns ==
    ASSUME NEW m, NEW n, UniqueIn(m), ColumnsOK(m), NEW t \in m.tables,
           NEW ops \in AlterOps, CanCreateJob(m, t, ops),
           NEW j, j = NewJob(m, t, ops),
           n.jobs = m.jobs \union {j}, n.tables = m.tables, n.retired = m.retired
    PROVE  ColumnsOK(n) /\ (BirthsOK(m) => BirthsOK(n))
<1> DEFINE p == PlanAlter(t, m.next_table_id, ops)[Len(ops)]
           e == j.target
<1>1. Len(ops) \in Nat /\ \A i \in 1 .. Len(ops) : ops[i].op \in Clauses
  BY StatementAssumption DEF Clauses
<1>2. SchemaOK(t.schema, t.next_field_id) /\ KillsNamed(t.tombstones, t.schema)
  BY DEF ColumnsOK, EntryOK
<1>3. PlanOK(t, p)
  BY <1>1, <1>2, PlanKeeps
<1>4. /\ j.source = t.id /\ e.schema = p.schema /\ e.next_field_id = p.next_field_id
      /\ e.tombstones = {}
  BY DEF NewJob
<1> HIDE DEF p, e
<1>5. EntryOK(e) /\ KillsCarried(t.tombstones, e.schema) /\ Derived(t, e)
  BY <1>3, <1>4 DEF PlanOK, EntryOK, KillsNamed, Derived
<1>6. \A z \in m.tables : z.id = j.source => z = t
  BY <1>4 DEF UniqueIn, Unique, TablesUnique
<1>7. ColumnsOK(n)
  BY <1>5, <1>6 DEF ColumnsOK, e
<1>8. ASSUME BirthsOK(m) PROVE BirthsOK(n)
  <2>1. Swapped(n) = Swapped(m) /\ Dropped(n) = Dropped(m)
    BY DEF Swapped, Dropped
  <2>2. LinesOK(n)
    BY <1>8, <2>1 DEF BirthsOK, LinesOK
  <2> QED
    BY <1>5, <1>6, <1>8, <2>2 DEF BirthsOK, e
<1> QED
  BY <1>7, <1>8

(* A definition made from c by ALTER agrees with those c goes back to.     *)
LEMMA DerivedFrom ==
    ASSUME NEW r, NEW c, NEW e, EntryOK(r.entry), EntryOK(c), EntryOK(e),
           Derived(c, e), CameFrom(r, c), e.name = c.name
    PROVE  CameFrom(r, e)
<1> SUFFICES ASSUME c.name = r.entry.name
             PROVE  /\ Agree(r.entry.schema, e.schema)
                    /\ r.entry.next_field_id <= e.next_field_id
  BY DEF CameFrom
<1>1. /\ Agree(r.entry.schema, c.schema) /\ r.entry.next_field_id <= c.next_field_id
      /\ c.next_field_id <= e.next_field_id
  BY DEF CameFrom, Derived
<1>2. r.entry.next_field_id \in Nat /\ c.next_field_id \in Nat /\ e.next_field_id \in Nat
  BY DEF EntryOK, SchemaOK
<1>3. ASSUME NEW f \in r.entry.schema, NEW g \in e.schema, f.fid = g.fid
      PROVE  f.birth = g.birth
  <2>1. f.fid \in Nat /\ f.fid < r.entry.next_field_id
    BY DEF EntryOK, SchemaOK, Below
  <2>2. ~(c.next_field_id <= g.fid)
    BY <1>1, <1>2, <1>3, <2>1
  <2>3. PICK h \in c.schema : h.fid = g.fid
    BY <2>2 DEF Derived, Fids
  <2>4. f.birth = h.birth
    BY <1>1, <1>3, <2>3 DEF Agree
  <2>5. h.birth = g.birth
    BY <2>3 DEF Derived, Agree
  <2> QED
    BY <2>4, <2>5
<1> QED
  BY <1>1, <1>2, <1>3 DEF Agree

(* The definitions a table goes back to, when one more is retired or       *)
(* restored.                                                               *)
LEMMA AgreeBack ==
    ASSUME NEW S, NEW U, Agree(S, U)
    PROVE  Agree(U, S)
  BY DEF Agree

(* A swap: the target takes over, with the tombstones under its names.     *)
LEMMA SwapColumns ==
    ASSUME NEW m, NEW n, UniqueIn(m), ColumnsOK(m),
           NEW j \in m.jobs, NEW t \in m.tables, t.id = j.source,
           NEW u, NEW r,
           n.tables = (m.tables \ {t}) \union {u}, n.jobs \subseteq m.jobs \ {j},
           n.retired = m.retired \union {r}, r.entry = t,
           u.name = t.name, u.id = j.target.id, u.schema = j.target.schema,
           u.next_field_id = j.target.next_field_id,
           u.tombstones = RenameTombstones(t.tombstones, t.schema, j.target.schema)
    PROVE  /\ ColumnsOK(n)
           /\ /\ BirthsOK(m) /\ Past(m) /\ m.version \in Nat
              /\ r.version = m.version + 1 /\ r.reason = "swapped"
              => BirthsOK(n)
<1> DEFINE T == t.tombstones
           V == RenameTombstones(T, t.schema, u.schema)
<1>1. /\ EntryOK(t) /\ EntryOK(j.target) /\ OneEach(t.schema) /\ OneEach(u.schema)
      /\ KillsNamed(T, t.schema) /\ KillsCarried(T, u.schema)
  BY DEF ColumnsOK, EntryOK, SchemaOK
<1>2. u.tombstones = V
  OBVIOUS
<1> HIDE DEF V, T
<1>3. /\ KillsNamed(V, u.schema)
      /\ \A l \in V : \E k \in T : l.fid = k.fid /\ l.birth = k.birth
  BY <1>1, CarriedKills DEF V
<1>4. EntryOK(u)
  BY <1>1, <1>2, <1>3 DEF EntryOK
<1>5. \A i \in n.jobs : i \in m.jobs /\ i.source # u.id
  BY DEF UniqueIn, Unique, TablesUnique, JobsUnique
<1>6. ColumnsOK(n)
  BY <1>1, <1>4, <1>5 DEF ColumnsOK
<1>7. ASSUME BirthsOK(m), Past(m), m.version \in Nat, r.version = m.version + 1,
             r.reason = "swapped"
      PROVE  BirthsOK(n)
  <2>1. Derived(t, j.target) /\ Derived(t, u) /\ KillsBorn(t)
    BY <1>7 DEF BirthsOK, Derived
  <2>2. KillsBorn(u)
    <3> SUFFICES ASSUME NEW l \in V, NEW g \in u.schema, g.fid = l.fid
                 PROVE  g.birth = l.birth
      BY <1>2 DEF KillsBorn
    <3>1. PICK k \in T : l.fid = k.fid /\ l.birth = k.birth
      BY <1>3
    <3>2. PICK f \in t.schema : f.fid = k.fid
      BY <1>1 DEF KillsNamed
    <3>3. f.birth = k.birth
      BY <2>1, <3>2 DEF KillsBorn, T
    <3>4. f.birth = g.birth
      BY <2>1, <3>1, <3>2 DEF Derived, Agree
    <3> QED
      BY <3>1, <3>3, <3>4
  <2>3. \A q \in Swapped(m) : CameFrom(q, t) /\ EntryOK(q.entry)
    BY <1>7 DEF BirthsOK, LinesOK, ColumnsOK, Swapped
  <2>4. \A q \in Swapped(m) : CameFrom(q, u)
    BY <1>1, <1>4, <2>1, <2>3, DerivedFrom
  <2>5. CameFrom(r, u)
    BY <2>1 DEF CameFrom, Derived
  <2>6. \A q \in Swapped(n) : q \in Swapped(m) \/ q = r
    BY DEF Swapped
  <2>7. Dropped(n) = Dropped(m)
    BY <1>7 DEF Dropped
  <2>8. \A d \in Dropped(m) : ~(r.version < d.version)
    BY <1>7 DEF Dropped, Past
  <2>9. Agree(t.schema, t.schema)
    BY <1>1 DEF Agree, OneEach
  <2>10. \A q \in Swapped(m) :
            q.entry.name = r.entry.name =>
              Agree(q.entry.schema, r.entry.schema) /\ Agree(r.entry.schema, q.entry.schema)
    BY <2>3, AgreeBack DEF CameFrom
  <2>11. LinesOK(n)
    <3>1. \A q \in Swapped(n), z \in n.tables : CameFrom(q, z)
      <4>1. \A q \in Swapped(m), z \in m.tables : CameFrom(q, z)
        BY <1>7 DEF BirthsOK, LinesOK
      <4>2. ASSUME NEW z \in m.tables, z # t PROVE CameFrom(r, z)
        BY <4>2 DEF CameFrom, UniqueIn, Unique, TablesUnique
      <4> QED
        BY <2>4, <2>5, <2>6, <4>1, <4>2
    <3>2. \A q \in Swapped(n), d \in Dropped(n) : q.version < d.version => CameFrom(q, d.entry)
      BY <1>7, <2>6, <2>7, <2>8 DEF BirthsOK, LinesOK
    <3>3. \A p, q \in Swapped(n) :
             q.entry.name = p.entry.name => Agree(p.entry.schema, q.entry.schema)
      <4>1. \A p, q \in Swapped(m) :
               q.entry.name = p.entry.name => Agree(p.entry.schema, q.entry.schema)
        BY <1>7 DEF BirthsOK, LinesOK
      <4> QED
        BY <2>6, <2>9, <2>10, <4>1
    <3> QED
      BY <3>1, <3>2, <3>3 DEF LinesOK
  <2>12. \A q \in n.retired : KillsBorn(q.entry)
    BY <1>7, <2>1 DEF BirthsOK
  <2> QED
    BY <1>5, <1>7, <2>2, <2>11, <2>12 DEF BirthsOK
<1> QED
  BY <1>6, <1>7

(* REVERT: the old definition, with what was deleted since.                *)
LEMMA RevertColumns ==
    ASSUME NEW m, NEW n, UniqueIn(m), ColumnsOK(m),
           NEW cur \in m.tables, NEW r \in m.retired, CanRevertTable(m, r, cur),
           NEW v, NEW q,
           n.tables = (m.tables \ {cur}) \union {v}, n.jobs = m.jobs,
           n.retired = (m.retired \ {r}) \union {q}, q.entry = cur, q.reason = "reverted",
           v.id = r.entry.id, v.name = r.entry.name, v.schema = r.entry.schema,
           v.next_field_id = NextField(r, cur),
           v.tombstones = r.entry.tombstones \union
             RenameTombstones(LaterKills(r, cur), cur.schema, r.entry.schema)
    PROVE  ColumnsOK(n) /\ (BirthsOK(m) /\ "revert" \in Ops => BirthsOK(n))
<1> DEFINE e == r.entry
           T == LaterKills(r, cur)
           V == RenameTombstones(T, cur.schema, e.schema)
<1>1. /\ EntryOK(cur) /\ EntryOK(e) /\ OneEach(cur.schema) /\ OneEach(e.schema)
      /\ KillsNamed(cur.tombstones, cur.schema) /\ KillsNamed(e.tombstones, e.schema)
  BY DEF ColumnsOK, EntryOK, SchemaOK
<1>2. T \subseteq cur.tombstones /\ KillsNamed(T, cur.schema)
  BY <1>1 DEF LaterKills, KillsNamed
<1>3. CanRename(T, cur.schema, e.schema) /\ cur.name = e.name
  BY DEF CanRevertTable, LaterKills
<1>4. v.tombstones = e.tombstones \union V
  OBVIOUS
<1> HIDE DEF T, V
<1>5. KillsCarried(T, e.schema)
  BY <1>1, <1>2, <1>3, CanRenameCarried
<1>6. /\ KillsNamed(V, e.schema)
      /\ \A l \in V : \E k \in T : l.fid = k.fid /\ l.birth = k.birth
  BY <1>1, <1>2, <1>5, CarriedKills DEF V
<1>7. /\ e.next_field_id \in Nat /\ cur.next_field_id \in Nat
      /\ v.next_field_id \in Nat
      /\ e.next_field_id <= v.next_field_id /\ cur.next_field_id <= v.next_field_id
  <2>1. e.next_field_id \in Nat /\ cur.next_field_id \in Nat
    BY <1>1 DEF EntryOK, SchemaOK
  <2> QED
    BY <2>1 DEF NextField
<1>8. EntryOK(v)
  <2>1. Below(v.schema, v.next_field_id)
    <3>1. \A f \in e.schema : IsField(f) /\ f.fid \in Nat /\ f.fid < e.next_field_id
      BY <1>1 DEF EntryOK, SchemaOK, Below
    <3> QED
      BY <1>7, <3>1 DEF Below
  <2>2. KillsNamed(v.tombstones, v.schema)
    BY <1>1, <1>4, <1>6 DEF KillsNamed
  <2> QED
    BY <1>1, <1>7, <2>1, <2>2 DEF EntryOK, SchemaOK
<1>9. \A i \in m.jobs : i.source # v.id
  BY DEF UniqueIn, Unique, TablesUnique, JobsUnique
<1>10. ColumnsOK(n)
  BY <1>1, <1>8, <1>9 DEF ColumnsOK
<1>11. ASSUME BirthsOK(m), "revert" \in Ops PROVE BirthsOK(n)
  <2>1. r \in Swapped(m)
    BY <1>11 DEF Swapped, CanRevertTable, LastRetired
  <2>2. KillsBorn(cur) /\ KillsBorn(e) /\ CameFrom(r, cur)
    BY <1>11, <2>1 DEF BirthsOK, LinesOK
  <2>3. KillsBorn(v)
    <3>1. ASSUME NEW l \in V, NEW g \in e.schema, g.fid = l.fid
          PROVE  g.birth = l.birth
      <4>1. PICK k \in T : l.fid = k.fid /\ l.birth = k.birth
        BY <1>6
      <4>2. PICK f \in cur.schema : f.fid = k.fid
        BY <1>2 DEF KillsNamed
      <4>3. f.birth = k.birth
        BY <1>2, <2>2, <4>2 DEF KillsBorn
      <4>4. g.birth = f.birth
        BY <1>3, <2>2, <3>1, <4>1, <4>2 DEF CameFrom, Agree
      <4> QED
        BY <4>1, <4>3, <4>4
    <3> QED
      BY <1>4, <2>2, <3>1 DEF KillsBorn
  <2>4. Swapped(n) \subseteq Swapped(m) /\ Dropped(n) \subseteq Dropped(m)
    BY DEF Swapped, Dropped
  <2>5. ASSUME NEW p \in Swapped(m) PROVE CameFrom(p, v)
    <3> SUFFICES ASSUME p.entry.name = e.name
                 PROVE  /\ Agree(p.entry.schema, e.schema)
                        /\ p.entry.next_field_id <= v.next_field_id
      BY DEF CameFrom
    <3>1. Agree(p.entry.schema, e.schema)
      BY <1>11, <2>1 DEF BirthsOK, LinesOK
    <3>2. p.entry.next_field_id \in Nat /\ p.entry.next_field_id <= cur.next_field_id
      BY <1>3, <1>11 DEF BirthsOK, LinesOK, CameFrom, ColumnsOK, EntryOK, SchemaOK, Swapped
    <3> QED
      BY <1>7, <3>1, <3>2
  <2>6. LinesOK(n)
    BY <1>11, <2>4, <2>5 DEF BirthsOK, LinesOK
  <2> QED
    BY <1>9, <1>11, <2>2, <2>3, <2>6 DEF BirthsOK
<1> QED
  BY <1>10, <1>11

(* DROP TABLE.                                                             *)
LEMMA DropColumns ==
    ASSUME NEW m, NEW n, ColumnsOK(m), NEW t \in m.tables, NEW d,
           n.tables = m.tables \ {t}, n.jobs = m.jobs,
           n.retired = m.retired \union {d}, d.entry = t, d.reason = "dropped"
    PROVE  ColumnsOK(n) /\ (BirthsOK(m) => BirthsOK(n))
<1>1. ColumnsOK(n)
  BY DEF ColumnsOK
<1>2. ASSUME BirthsOK(m) PROVE BirthsOK(n)
  <2>1. Swapped(n) = Swapped(m) /\ Dropped(n) \subseteq Dropped(m) \union {d}
    BY DEF Swapped, Dropped
  <2>2. LinesOK(n)
    BY <1>2, <2>1 DEF BirthsOK, LinesOK
  <2> QED
    BY <1>2, <2>2 DEF BirthsOK
<1> QED
  BY <1>1, <1>2

(* UNDROP TABLE: what was dropped last still goes back to the definitions  *)
(* swapped out before.                                                     *)
LEMMA UndropColumns ==
    ASSUME NEW m, NEW n, UniqueIn(m), ColumnsOK(m), NEW d \in m.retired,
           CanUndropTable(m, d), n.tables = m.tables \union {d.entry}, n.jobs = m.jobs,
           n.retired = m.retired \ {d}
    PROVE  ColumnsOK(n) /\ (BirthsOK(m) /\ ManifestOrder(m) => BirthsOK(n))
<1>1. \A j \in m.jobs : j.source # d.entry.id
  BY DEF UniqueIn, Unique, TablesUnique, JobsUnique
<1>2. ColumnsOK(n)
  BY <1>1 DEF ColumnsOK
<1>3. ASSUME BirthsOK(m), ManifestOrder(m) PROVE BirthsOK(n)
  <2>1. Swapped(n) \subseteq Swapped(m) /\ Dropped(n) \subseteq Dropped(m)
    BY DEF Swapped, Dropped
  <2>2. d \in Dropped(m)
    BY DEF Dropped, CanUndropTable, LastRetired
  <2>3. ASSUME NEW r \in Swapped(m) PROVE CameFrom(r, d.entry)
    <3> SUFFICES ASSUME d.entry.name = r.entry.name PROVE CameFrom(r, d.entry)
      BY DEF CameFrom
    <3>1. Superseded(m, r) /\ ~HasTable(m, r.entry.name)
      BY <1>3 DEF ManifestOrder, SwapOrder, CanUndropTable
    <3>2. PICK c \in Dropped(m) : c.entry.name = r.entry.name /\ r.version < c.version
      BY <3>1 DEF Superseded
    <3>3. c.version <= d.version
      BY <3>2 DEF Dropped, CanUndropTable, LastRetired
    <3>4. r.version \in Nat /\ c.version \in Nat /\ d.version \in Nat
      BY <1>3 DEF ManifestOrder, Past, Swapped, Dropped
    <3>5. r.version < d.version
      BY <3>2, <3>3, <3>4
    <3> QED
      BY <1>3, <2>2, <3>5 DEF BirthsOK, LinesOK
  <2>4. LinesOK(n)
    BY <1>3, <2>1, <2>3 DEF BirthsOK, LinesOK
  <2> QED
    BY <1>1, <1>3, <2>4 DEF BirthsOK
<1> QED
  BY <1>2, <1>3

-----------------------------------------------------------------------------
(* What each commit publishes.                                             *)

(* One table rebuilt, the rest as it was.                                  *)
ReplacedBy(t, u) ==
    /\ manifest'.tables = (manifest.tables \ {t}) \union {u}
    /\ manifest'.jobs = manifest.jobs /\ manifest'.retired = manifest.retired

(* The commit of an edit that rebuilds a table.                            *)
LEMMA RebuiltTo ==
    ASSUME SafeInv, NEW n, NEW new, EditOK(manifest, n, new, next_id), CommitTo(n),
           NEW t \in manifest.tables, NEW u, Rebuilt(manifest, n, t, u)
    PROVE  ReplacedBy(t, u) /\ SameColumns(t, u)
<1>1. IsManifest(n) /\ n.version = manifest.version
  BY DEF EditOK
<1> QED
  BY <1>1, CommitParts DEF Rebuilt, ReplacedBy, SameColumns

(* TRUNCATE.                                                               *)
LEMMA TruncateTo ==
    ASSUME SafeInv, NEW nm, Truncate(nm)
    PROVE  \E t \in manifest.tables : \E u :
             /\ ReplacedBy(t, u) /\ SameColumns(t, u)
             /\ u.segments = {} /\ u.tombstones = {}
<1>1. PICK t \in manifest.tables : CommitTo(TruncateTable(manifest, t))
  BY DEF Truncate
<1> DEFINE n == TruncateTable(manifest, t)
<1>2. EditOK(manifest, n, {}, next_id) /\ IsManifest(manifest)
  BY TruncateEdit DEF SafeInv, Safe
<1>3. CommitTo(n)
  BY <1>1
<1>4. PICK u : Rebuilt(manifest, n, t, u) /\ u.segments = {} /\ u.tombstones = {}
  BY <1>2, TruncateParts
<1> HIDE DEF n
<1>5. ReplacedBy(t, u) /\ SameColumns(t, u)
  BY <1>2, <1>3, <1>4, RebuiltTo
<1> QED
  BY <1>4, <1>5

(* DELETE.                                                                 *)
LEMMA DeleteTo ==
    ASSUME SafeInv, NEW nm, NEW c, NEW kills, Delete(nm, c, kills)
    PROVE  \E t \in manifest.tables : \E u, k :
             /\ CanAddTombstone(manifest, t, c)
             /\ ReplacedBy(t, u) /\ SameColumns(t, u)
             /\ u.segments = t.segments /\ u.tombstones = t.tombstones \union {k}
             /\ IsTombstone(k) /\ k.col = c /\ k.fid = FieldNamed(t.schema, c).fid
             /\ k.birth = FieldNamed(t.schema, c).birth
<1>1. PICK t \in manifest.tables :
         CanAddTombstone(manifest, t, c) /\ CommitTo(AddTombstone(manifest, t, c, kills))
  BY DEF Delete
<1> DEFINE n == AddTombstone(manifest, t, c, kills)
<1>2. EditOK(manifest, n, {}, next_id) /\ IsManifest(manifest)
  BY AddTombstoneEdit DEF SafeInv, Safe
<1>3. CommitTo(n)
  BY <1>1
<1>4. PICK u, k : /\ Rebuilt(manifest, n, t, u)
                  /\ u.segments = t.segments
                  /\ u.tombstones = t.tombstones \union {k}
                  /\ IsTombstone(k) /\ k.seq = manifest.version + 1 /\ k.kills = kills
                  /\ k.col = c /\ k.fid = FieldNamed(t.schema, c).fid
                  /\ k.birth = FieldNamed(t.schema, c).birth
  BY <1>2, AddTombstoneParts
<1> HIDE DEF n
<1>5. ReplacedBy(t, u) /\ SameColumns(t, u)
  BY <1>2, <1>3, <1>4, RebuiltTo
<1> QED
  BY <1>1, <1>4, <1>5

(* A compaction's commit.                                                  *)
LEMMA CompactCommitTo ==
    ASSUME SafeInv, Named, NEW w \in Workers, CompactCommit(w)
    PROVE  \E t \in manifest.tables : \E u :
             /\ ReplacedBy(t, u) /\ SameColumns(t, u)
             /\ u.segments = {s \in t.segments :
                  s.id \notin work[w].removes} \union work[w].adds
             /\ u.tombstones = t.tombstones
             /\ work[w].removes \subseteq SegIds(t.segments)
<1>1. PICK t \in manifest.tables : \E v, n :
         /\ CommitTo(n) /\ EditOK(manifest, n, SegIds(work[w].adds), next_id)
         /\ Rebuilt(manifest, n, t, v)
         /\ t.name = work[w].table /\ v.tombstones = t.tombstones
         /\ v.segments = {s \in t.segments :
              s.id \notin work[w].removes} \union work[w].adds
         /\ work[w].removes \subseteq SegIds(t.segments)
         /\ \A j \in manifest.jobs : j.source # t.id
  BY CompactCommitParts
<1>2. PICK v, n : /\ CommitTo(n) /\ EditOK(manifest, n, SegIds(work[w].adds), next_id)
                  /\ Rebuilt(manifest, n, t, v) /\ v.tombstones = t.tombstones
                  /\ v.segments = {s \in t.segments :
                       s.id \notin work[w].removes} \union work[w].adds
                  /\ work[w].removes \subseteq SegIds(t.segments)
  BY <1>1
<1>3. ReplacedBy(t, v) /\ SameColumns(t, v)
  BY <1>2, RebuiltTo
<1> QED
  BY <1>2, <1>3

(* A job step's commit.                                                    *)
LEMMA JobAdvanceTo ==
    ASSUME SafeInv, NEW w \in Workers, JobAdvance(w)
    PROVE  \E j \in manifest.jobs, t \in manifest.tables : \E k :
             /\ j.id = work[w].job /\ t.id = j.source
             /\ manifest'.tables = manifest.tables /\ manifest'.retired = manifest.retired
             /\ manifest'.jobs = (manifest.jobs \ {j}) \union {k}
             /\ k.id = j.id /\ k.source = j.source
             /\ SameColumns(j.target, k.target) /\ k.target.tombstones = j.target.tombstones
             /\ k.target.segments = j.target.segments \union
                  Carried(t, j, work[w].reused) \union work[w].segments
<1> DEFINE x == work[w]
<1>1. PICK j \in manifest.jobs, t \in manifest.tables :
         /\ j.id = work[w].job /\ t.id = j.source
         /\ CommitTo(AdvanceJob(manifest, t, j, x.reused, x.rewritten, x.segments))
  BY DEF JobAdvance
<1> DEFINE n == AdvanceJob(manifest, t, j, x.reused, x.rewritten, x.segments)
           k == Advanced(t, j, x.reused, x.rewritten, x.segments)
<1>2. /\ IsManifest(manifest) /\ IdsBelow(manifest)
      /\ next_id \in Nat /\ manifest.next_segment_id <= next_id
  BY DEF SafeInv, Safe
<1>3. \A s \in x.segments : IsSegment(s) /\ s.id < next_id
  <2>1. x.segments = WorkSegs(x)
    BY DEF JobAdvance, WorkSegs
  <2> QED
    BY <2>1 DEF SafeInv, Safe, Fresh
<1> HIDE DEF x
<1>4. EditOK(manifest, n, SegIds(x.segments), next_id)
  BY <1>2, <1>3, AdvanceJobEdit
<1>5. /\ n.tables = manifest.tables /\ n.jobs = (manifest.jobs \ {j}) \union {k}
      /\ n.retired = manifest.retired
      /\ k.id = j.id /\ k.source = j.source /\ k.target.name = j.target.name
      /\ k.target.schema = j.target.schema /\ k.target.tombstones = j.target.tombstones
      /\ k.target.id = j.target.id /\ k.target.next_field_id = j.target.next_field_id
      /\ k.target.segments = j.target.segments \union Carried(t, j, x.reused) \union x.segments
  BY <1>2, <1>3, AdvanceJobParts
<1>6. CommitTo(n)
  BY <1>1 DEF x
<1> HIDE DEF n, k
<1>7. IsManifest(n) /\ n.version = manifest.version
  BY <1>4 DEF EditOK
<1>8. /\ manifest'.tables = manifest.tables /\ manifest'.retired = manifest.retired
      /\ manifest'.jobs = (manifest.jobs \ {j}) \union {k}
  BY <1>5, <1>6, <1>7, CommitParts
<1>9. SameColumns(j.target, k.target)
  BY <1>5 DEF SameColumns
<1> QED
  BY <1>1, <1>5, <1>8, <1>9 DEF x

(* A flush's commit.                                                       *)
LEMMA FlushCommitTo ==
    ASSUME SafeInv, FlushCommit
    PROVE  /\ manifest'.tables = {Grown(t) : t \in manifest.tables}
           /\ manifest'.jobs = manifest.jobs /\ manifest'.retired = manifest.retired
           /\ \A t \in manifest.tables :
                /\ SameColumns(t, Grown(t)) /\ Grown(t).tombstones = t.tombstones
                /\ Grown(t).segments = t.segments \union FlushedInto(t)
<1> DEFINE n == AddFlushed
<1>1. /\ IsManifest(manifest) /\ IdsBelow(manifest)
      /\ next_id \in Nat /\ manifest.next_segment_id <= next_id
  BY DEF SafeInv, Safe
<1>2. \A p \in flushing : IsSegment(p.seg) /\ p.seg.id < next_id
  BY DEF SafeInv, Safe, Fresh
<1>3. IsManifest(n) /\ n.version = manifest.version
  BY <1>1, <1>2, AddFlushedEdit DEF EditOK
<1>4. /\ n.tables = {Grown(t) : t \in manifest.tables}
      /\ n.jobs = manifest.jobs /\ n.retired = manifest.retired
      /\ \A t \in manifest.tables :
           /\ SameColumns(t, Grown(t)) /\ Grown(t).tombstones = t.tombstones
           /\ Grown(t).segments = t.segments \union FlushedInto(t)
  BY <1>1, <1>2, AddFlushedParts DEF SameColumns
<1>5. CommitTo(n)
  BY DEF FlushCommit
<1> HIDE DEF n
<1>6. /\ manifest'.tables = n.tables /\ manifest'.jobs = manifest.jobs
      /\ manifest'.retired = manifest.retired
  BY <1>3, <1>4, <1>5, CommitParts
<1> QED
  BY <1>4, <1>6

(* CANCEL.                                                                 *)
LEMMA CancelTo ==
    ASSUME SafeInv, NEW j \in manifest.jobs, Cancel(j)
    PROVE  /\ manifest'.tables = manifest.tables /\ manifest'.jobs = manifest.jobs \ {j}
           /\ manifest'.retired = manifest.retired
<1> DEFINE n == CancelJob(manifest, j)
<1>1. EditOK(manifest, n, {}, next_id) /\ IsManifest(manifest)
  BY CancelJobEdit DEF SafeInv, Safe
<1>2. CommitTo(n)
  BY DEF Cancel
<1>3. /\ n.tables = manifest.tables /\ n.jobs = manifest.jobs \ {j}
      /\ n.retired = manifest.retired
  BY <1>1, CancelJobParts
<1> HIDE DEF n
<1>4. IsManifest(n) /\ n.version = manifest.version
  BY <1>1 DEF EditOK
<1> QED
  BY <1>2, <1>3, <1>4, CommitParts

(* gc's first commit.                                                      *)
LEMMA ExpireTo ==
    ASSUME SafeInv, NEW expired \in SUBSET manifest.retired, Expire(expired)
    PROVE  /\ manifest'.tables = manifest.tables /\ manifest'.jobs = manifest.jobs
           /\ manifest'.retired = manifest.retired \ expired
<1> DEFINE n == ExpireRetired(manifest, expired)
<1>1. EditOK(manifest, n, {}, next_id) /\ IsManifest(manifest)
  BY ExpireRetiredEdit DEF SafeInv, Safe
<1>2. CommitTo(n)
  BY DEF Expire
<1>3. /\ n.tables = manifest.tables /\ n.jobs = manifest.jobs
      /\ n.retired = manifest.retired \ expired
  BY <1>1, ExpireRetiredParts
<1> HIDE DEF n
<1>4. IsManifest(n) /\ n.version = manifest.version
  BY <1>1 DEF EditOK
<1> QED
  BY <1>2, <1>3, <1>4, CommitParts

(* And the last one.                                                       *)
LEMMA ForgetTo ==
    ASSUME SafeInv, NEW ids, Forget(ids)
    PROVE  /\ manifest'.tables = manifest.tables /\ manifest'.jobs = manifest.jobs
           /\ manifest'.retired = manifest.retired
<1> DEFINE n == ForgetGarbage(manifest, ids)
<1>1. EditOK(manifest, n, {}, next_id) /\ IsManifest(manifest)
  BY ForgetGarbageEdit DEF SafeInv, Safe
<1>2. CommitTo(n)
  BY DEF Forget
<1>3. /\ n.tables = manifest.tables /\ n.jobs = manifest.jobs
      /\ n.retired = manifest.retired
  BY <1>1, ForgetGarbageParts
<1> HIDE DEF n
<1>4. IsManifest(n) /\ n.version = manifest.version
  BY <1>1 DEF EditOK
<1> QED
  BY <1>2, <1>3, <1>4, CommitParts

(* CREATE TABLE.                                                           *)
LEMMA CreateTo ==
    ASSUME SafeInv, NEW nm \in Names, NEW columns, Create(nm, columns)
    PROVE  /\ manifest'.tables =
                manifest.tables \union {NewEntry(manifest.next_table_id, nm, columns)}
           /\ manifest'.jobs = manifest.jobs /\ manifest'.retired = manifest.retired
<1> DEFINE n == CreateTable(manifest, nm, columns)
<1>1. EditOK(manifest, n, {}, next_id) /\ IsManifest(manifest)
  BY CreateTableEdit DEF SafeInv, Safe
<1>2. CommitTo(n)
  BY DEF Create
<1>3. /\ n.tables = manifest.tables \union {NewEntry(manifest.next_table_id, nm, columns)}
      /\ n.jobs = manifest.jobs /\ n.retired = manifest.retired
  BY <1>1, CreateTableParts
<1> HIDE DEF n
<1>4. IsManifest(n) /\ n.version = manifest.version
  BY <1>1 DEF EditOK
<1> QED
  BY <1>2, <1>3, <1>4, CommitParts

(* ALTER TABLE.                                                            *)
LEMMA AlterTo ==
    ASSUME SafeInv, NEW nm, NEW ops, Alter(nm, ops)
    PROVE  \E t \in manifest.tables :
             /\ CanCreateJob(manifest, t, ops)
             /\ manifest'.jobs = manifest.jobs \union {NewJob(manifest, t, ops)}
             /\ manifest'.tables = manifest.tables /\ manifest'.retired = manifest.retired
<1>1. PICK t \in manifest.tables :
         CanCreateJob(manifest, t, ops) /\ CommitTo(CreateJob(manifest, t, ops))
  BY DEF Alter
<1> DEFINE n == CreateJob(manifest, t, ops)
<1>2. EditOK(manifest, n, {}, next_id) /\ IsManifest(manifest)
  BY CreateJobEdit DEF SafeInv, Safe
<1>3. CommitTo(n)
  BY <1>1
<1>4. /\ n.jobs = manifest.jobs \union {NewJob(manifest, t, ops)}
      /\ n.tables = manifest.tables /\ n.retired = manifest.retired
  BY <1>2, CreateJobParts
<1> HIDE DEF n
<1>5. IsManifest(n) /\ n.version = manifest.version
  BY <1>2 DEF EditOK
<1>6. /\ manifest'.jobs = manifest.jobs \union {NewJob(manifest, t, ops)}
      /\ manifest'.tables = manifest.tables /\ manifest'.retired = manifest.retired
  BY <1>3, <1>4, <1>5, CommitParts
<1> QED
  BY <1>1, <1>6

(* A job's swap.                                                           *)
LEMMA SwapTo ==
    ASSUME SafeInv, Named, NEW j \in manifest.jobs, JobSwap(j)
    PROVE  \E t \in manifest.tables : \E u, r :
             /\ manifest'.tables = (manifest.tables \ {t}) \union {u}
             /\ manifest'.jobs \subseteq manifest.jobs \ {j}
             /\ manifest'.retired = manifest.retired \union {r}
             /\ t.id = j.source /\ r.entry = t /\ u.name = t.name
             /\ u.id = j.target.id /\ u.schema = j.target.schema
             /\ u.next_field_id = j.target.next_field_id
             /\ u.segments = j.target.segments \union Carried(t, j, SegIds(Gap(t, j)))
             /\ u.tombstones = RenameTombstones(t.tombstones, t.schema, j.target.schema)
             /\ r.reason = "swapped" /\ r.version = manifest.version + 1
             /\ ~BufferHolds(in_flight, t.name)
             /\ pending' = ProjectPending(t.name, t.schema, j.target.schema)
<1>1. PICK t \in manifest.tables : \E u, r, n :
         /\ IsManifest(n) /\ CommitTo(n) /\ n.version = manifest.version
         /\ n.tables = (manifest.tables \ {t}) \union {u}
         /\ n.jobs \subseteq manifest.jobs \ {j}
         /\ n.retired = manifest.retired \union {r}
         /\ t.id = j.source /\ CanRename(t.tombstones, t.schema, j.target.schema)
         /\ u.name = t.name /\ u.schema = j.target.schema
         /\ u.id = j.target.id /\ u.next_field_id = j.target.next_field_id
         /\ u.segments = j.target.segments \union Carried(t, j, SegIds(Gap(t, j)))
         /\ u.tombstones = RenameTombstones(t.tombstones, t.schema, j.target.schema)
         /\ r.entry = t /\ r.successor_segments = SegIds(u.segments)
         /\ r.reason = "swapped" /\ r.version = manifest.version + 1
         /\ ~BufferHolds(in_flight, t.name)
         /\ pending' = ProjectPending(t.name, t.schema, j.target.schema)
  BY JobSwapParts
<1>2. PICK u, r, n :
         /\ IsManifest(n) /\ CommitTo(n) /\ n.version = manifest.version
         /\ n.tables = (manifest.tables \ {t}) \union {u}
         /\ n.jobs \subseteq manifest.jobs \ {j}
         /\ n.retired = manifest.retired \union {r}
         /\ t.id = j.source
         /\ u.name = t.name /\ u.schema = j.target.schema
         /\ u.id = j.target.id /\ u.next_field_id = j.target.next_field_id
         /\ u.segments = j.target.segments \union Carried(t, j, SegIds(Gap(t, j)))
         /\ u.tombstones = RenameTombstones(t.tombstones, t.schema, j.target.schema)
         /\ r.entry = t /\ r.reason = "swapped" /\ r.version = manifest.version + 1
         /\ ~BufferHolds(in_flight, t.name)
         /\ pending' = ProjectPending(t.name, t.schema, j.target.schema)
  BY <1>1
<1>3. /\ manifest'.tables = (manifest.tables \ {t}) \union {u}
      /\ manifest'.jobs \subseteq manifest.jobs \ {j}
      /\ manifest'.retired = manifest.retired \union {r}
  BY <1>2, CommitParts
<1> QED
  BY <1>2, <1>3

(* REVERT.                                                                 *)
LEMMA RevertTo ==
    ASSUME SafeInv, NEW nm, Revert(nm)
    PROVE  \E cur \in manifest.tables, r \in manifest.retired : \E v, q :
             /\ "revert" \in Ops /\ cur.name = nm /\ CanRevertTable(manifest, r, cur)
             /\ manifest'.tables = (manifest.tables \ {cur}) \union {v}
             /\ manifest'.jobs = manifest.jobs
             /\ manifest'.retired = (manifest.retired \ {r}) \union {q}
             /\ q.entry = cur /\ q.reason = "reverted"
             /\ v.id = r.entry.id /\ v.name = r.entry.name /\ v.schema = r.entry.schema
             /\ v.next_field_id = NextField(r, cur)
             /\ v.segments = r.entry.segments \union
                  {ProjectOnto(s, r.entry.schema) : s \in Since(r, cur)}
             /\ v.tombstones = r.entry.tombstones \union
                  RenameTombstones(LaterKills(r, cur), cur.schema, r.entry.schema)
             /\ ~BufferHolds(in_flight, nm)
             /\ pending' = ProjectPending(nm, cur.schema, r.entry.schema)
<1>1. PICK cur \in manifest.tables, r \in manifest.retired :
         /\ cur.name = nm /\ CanRevertTable(manifest, r, cur)
         /\ CommitTo(RevertTable(manifest, r, cur))
         /\ pending' = ProjectPending(nm, cur.schema, r.entry.schema)
  BY DEF Revert
<1> DEFINE n == RevertTable(manifest, r, cur)
<1>2. EditOK(manifest, n, {}, next_id) /\ IsManifest(manifest)
  BY RevertTableEdit DEF SafeInv, Safe
<1>3. CommitTo(n) /\ "revert" \in Ops /\ ~BufferHolds(in_flight, nm)
  BY <1>1 DEF Revert
<1> DEFINE v == Restored(r, cur)
           q == Retire(manifest, cur, "reverted", {})
<1>4. /\ n.tables = (manifest.tables \ {cur}) \union {v} /\ n.jobs = manifest.jobs
      /\ n.retired = (manifest.retired \ {r}) \union {q}
  BY <1>2 DEF RevertTable, IsManifest
<1>5. IsManifest(n) /\ n.version = manifest.version
  BY <1>2 DEF EditOK
<1>6. q.entry = cur /\ q.reason = "reverted"
  BY DEF Retire
<1>7. /\ v.id = r.entry.id /\ v.name = r.entry.name /\ v.schema = r.entry.schema
      /\ v.next_field_id = NextField(r, cur)
      /\ v.segments = r.entry.segments \union
           {ProjectOnto(s, r.entry.schema) : s \in Since(r, cur)}
      /\ v.tombstones = r.entry.tombstones \union
           RenameTombstones(LaterKills(r, cur), cur.schema, r.entry.schema)
  BY DEF Restored, LaterKills, NextField
<1> HIDE DEF n, v, q
<1>8. /\ manifest'.tables = (manifest.tables \ {cur}) \union {v}
      /\ manifest'.jobs = manifest.jobs
      /\ manifest'.retired = (manifest.retired \ {r}) \union {q}
  BY <1>3, <1>4, <1>5, CommitParts
<1> QED
  BY <1>1, <1>3, <1>6, <1>7, <1>8

(* DROP TABLE.                                                             *)
LEMMA DropTo ==
    ASSUME SafeInv, NEW nm, Drop(nm)
    PROVE  \E t \in manifest.tables : \E d :
             /\ manifest'.tables = manifest.tables \ {t} /\ manifest'.jobs = manifest.jobs
             /\ manifest'.retired = manifest.retired \union {d}
             /\ d.entry = t /\ d.reason = "dropped"
<1>1. PICK t \in manifest.tables : CommitTo(DropTable(manifest, t))
  BY DEF Drop
<1> DEFINE n == DropTable(manifest, t)
<1>2. EditOK(manifest, n, {}, next_id) /\ IsManifest(manifest)
  BY DropTableEdit DEF SafeInv, Safe
<1>3. CommitTo(n)
  BY <1>1
<1>4. PICK d : /\ n.tables = manifest.tables \ {t} /\ n.jobs = manifest.jobs
               /\ n.retired = manifest.retired \union {d} /\ d.entry = t
               /\ d.reason = "dropped" /\ d.successor_segments = {}
               /\ d.version = manifest.version + 1
  BY <1>2, DropTableParts
<1> HIDE DEF n
<1>5. IsManifest(n) /\ n.version = manifest.version
  BY <1>2 DEF EditOK
<1>6. /\ manifest'.tables = manifest.tables \ {t} /\ manifest'.jobs = manifest.jobs
      /\ manifest'.retired = manifest.retired \union {d}
  BY <1>3, <1>4, <1>5, CommitParts
<1> QED
  BY <1>4, <1>6

(* UNDROP TABLE.                                                           *)
LEMMA UndropTo ==
    ASSUME SafeInv, NEW nm, Undrop(nm)
    PROVE  \E d \in manifest.retired :
             /\ CanUndropTable(manifest, d)
             /\ manifest'.tables = manifest.tables \union {d.entry}
             /\ manifest'.jobs = manifest.jobs /\ manifest'.retired = manifest.retired \ {d}
<1>1. PICK d \in manifest.retired :
         CanUndropTable(manifest, d) /\ CommitTo(UndropTable(manifest, d))
  BY DEF Undrop
<1> DEFINE n == UndropTable(manifest, d)
<1>2. EditOK(manifest, n, {}, next_id) /\ IsManifest(manifest)
  BY UndropTableEdit DEF SafeInv, Safe
<1>3. CommitTo(n)
  BY <1>1
<1>4. /\ n.tables = manifest.tables \union {d.entry} /\ n.jobs = manifest.jobs
      /\ n.retired = manifest.retired \ {d}
  BY <1>2, UndropTableParts
<1> HIDE DEF n
<1>5. IsManifest(n) /\ n.version = manifest.version
  BY <1>2 DEF EditOK
<1>6. /\ manifest'.tables = manifest.tables \union {d.entry}
      /\ manifest'.jobs = manifest.jobs /\ manifest'.retired = manifest.retired \ {d}
  BY <1>3, <1>4, <1>5, CommitParts
<1> QED
  BY <1>1, <1>6

-----------------------------------------------------------------------------
(* Steps.                                                                  *)

ColumnsStep ==
    /\ ColumnsInv'
    /\ BirthsInv /\ ManifestOrder(manifest) /\ NameUnused => BirthsInv'

(* A step that keeps the columns.                                          *)
LEMMA FramedStep ==
    ASSUME ColumnsInv, Framed(manifest, manifest')
    PROVE  ColumnsStep
  BY FramedColumns DEF ColumnsStep, ColumnsInv, BirthsInv

(* A table keeps its columns when nothing happens to it.                   *)
LEMMA KeptSelf == \A t : Kept(t, t)
  BY DEF Kept, SameColumns

(* Nothing, or the garbage list, or only retired definitions change.       *)
LEMMA SameStep ==
    ASSUME ColumnsInv, manifest'.tables = manifest.tables,
           manifest'.jobs \subseteq manifest.jobs, manifest'.retired \subseteq manifest.retired
    PROVE  ColumnsStep
<1>1. Framed(manifest, manifest')
  BY KeptSelf DEF Framed
<1> QED
  BY <1>1, FramedStep

(* One table is rebuilt.                                                   *)
LEMMA RebuiltStep ==
    ASSUME ColumnsInv, NEW t \in manifest.tables, NEW u, ReplacedBy(t, u), SameColumns(t, u),
           u.tombstones \subseteq t.tombstones
    PROVE  ColumnsStep
<1>1. Kept(t, u)
  BY DEF Kept
<1>2. Framed(manifest, manifest')
  BY <1>1, KeptSelf DEF Framed, ReplacedBy
<1> QED
  BY <1>2, FramedStep

(* TRUNCATE.                                                               *)
LEMMA TruncateColumns ==
    ASSUME SafeInv, ColumnsInv, NEW nm, Truncate(nm)
    PROVE  ColumnsStep
<1>1. PICK t \in manifest.tables : \E u :
         /\ ReplacedBy(t, u) /\ SameColumns(t, u)
         /\ u.segments = {} /\ u.tombstones = {}
  BY TruncateTo
<1>2. PICK u : ReplacedBy(t, u) /\ SameColumns(t, u) /\ u.tombstones = {}
  BY <1>1
<1> QED
  BY <1>2, RebuiltStep

(* A compaction's commit.                                                  *)
LEMMA CompactCommitColumns ==
    ASSUME SafeInv, Named, ColumnsInv, NEW w \in Workers, CompactCommit(w)
    PROVE  ColumnsStep
<1>1. PICK t \in manifest.tables : \E u :
         /\ ReplacedBy(t, u) /\ SameColumns(t, u)
         /\ u.segments = {s \in t.segments :
              s.id \notin work[w].removes} \union work[w].adds
         /\ u.tombstones = t.tombstones
         /\ work[w].removes \subseteq SegIds(t.segments)
  BY CompactCommitTo
<1>2. PICK u : ReplacedBy(t, u) /\ SameColumns(t, u) /\ u.tombstones = t.tombstones
  BY <1>1
<1> QED
  BY <1>2, RebuiltStep

(* A job step's commit.                                                    *)
LEMMA JobAdvanceColumns ==
    ASSUME SafeInv, ColumnsInv, NEW w \in Workers, JobAdvance(w)
    PROVE  ColumnsStep
<1>1. PICK j \in manifest.jobs, t \in manifest.tables : \E k :
         /\ j.id = work[w].job /\ t.id = j.source
         /\ manifest'.tables = manifest.tables /\ manifest'.retired = manifest.retired
         /\ manifest'.jobs = (manifest.jobs \ {j}) \union {k}
         /\ k.id = j.id /\ k.source = j.source
         /\ SameColumns(j.target, k.target) /\ k.target.tombstones = j.target.tombstones
         /\ k.target.segments = j.target.segments \union
              Carried(t, j, work[w].reused) \union work[w].segments
  BY JobAdvanceTo
<1>2. PICK k :
         /\ manifest'.tables = manifest.tables /\ manifest'.retired = manifest.retired
         /\ manifest'.jobs = (manifest.jobs \ {j}) \union {k} /\ k.source = j.source
         /\ SameColumns(j.target, k.target) /\ k.target.tombstones = j.target.tombstones
  BY <1>1
<1>3. Kept(j.target, k.target)
  BY <1>2 DEF Kept
<1>4. Framed(manifest, manifest')
  BY <1>2, <1>3, KeptSelf DEF Framed
<1> QED
  BY <1>4, FramedStep

(* A flush's commit.                                                       *)
LEMMA FlushCommitColumns ==
    ASSUME SafeInv, ColumnsInv, FlushCommit
    PROVE  ColumnsStep
<1>1. /\ manifest'.tables = {Grown(t) : t \in manifest.tables}
      /\ manifest'.jobs = manifest.jobs /\ manifest'.retired = manifest.retired
      /\ \A t \in manifest.tables : Kept(t, Grown(t))
  BY FlushCommitTo DEF Kept
<1>2. Framed(manifest, manifest')
  BY <1>1, KeptSelf DEF Framed
<1> QED
  BY <1>2, FramedStep

(* CANCEL.                                                                 *)
LEMMA CancelColumns ==
    ASSUME SafeInv, ColumnsInv, NEW j \in manifest.jobs, Cancel(j)
    PROVE  ColumnsStep
  BY CancelTo, SameStep

(* gc's commits.                                                           *)
LEMMA ExpireColumns ==
    ASSUME SafeInv, ColumnsInv, NEW expired \in SUBSET manifest.retired, Expire(expired)
    PROVE  ColumnsStep
  BY ExpireTo, SameStep

(* And the last one.                                                       *)
LEMMA ForgetColumns ==
    ASSUME SafeInv, ColumnsInv, NEW ids, Forget(ids)
    PROVE  ColumnsStep
  BY ForgetTo, SameStep

(* CREATE TABLE.                                                           *)
LEMMA CreateStep ==
    ASSUME SafeInv, Named, ColumnsInv, NEW nm \in Names, NEW columns \in ColumnLists,
           Create(nm, columns)
    PROVE  ColumnsStep
<1> DEFINE e == NewEntry(manifest.next_table_id, nm, columns)
<1>1. /\ manifest'.tables = manifest.tables \union {e}
      /\ manifest'.jobs = manifest.jobs /\ manifest'.retired = manifest.retired
  BY CreateTo
<1>2. UniqueIn(manifest) /\ ColumnsOK(manifest)
  BY DEF Named, ColumnsInv
<1>3. e = NewEntry(manifest.next_table_id, nm, columns)
  OBVIOUS
<1> HIDE DEF e
<1>4. /\ ColumnsOK(manifest')
      /\ BirthsOK(manifest) /\ (\A r \in Swapped(manifest) : r.entry.name # nm)
           => BirthsOK(manifest')
  BY <1>1, <1>2, <1>3, CreateColumns
<1>5. NameUnused => \A r \in Swapped(manifest) : r.entry.name # nm
  BY DEF NameUnused
<1> QED
  BY <1>4, <1>5 DEF ColumnsStep, ColumnsInv, BirthsInv

(* DELETE.                                                                 *)
LEMMA DeleteStep ==
    ASSUME SafeInv, ColumnsInv, NEW nm, NEW c, NEW kills, Delete(nm, c, kills)
    PROVE  ColumnsStep
<1>1. PICK t \in manifest.tables : \E u, k :
         /\ CanAddTombstone(manifest, t, c)
         /\ ReplacedBy(t, u) /\ SameColumns(t, u)
         /\ u.segments = t.segments /\ u.tombstones = t.tombstones \union {k}
         /\ IsTombstone(k) /\ k.col = c /\ k.fid = FieldNamed(t.schema, c).fid
         /\ k.birth = FieldNamed(t.schema, c).birth
  BY DeleteTo
<1>2. PICK u, k :
         /\ CanAddTombstone(manifest, t, c)
         /\ ReplacedBy(t, u) /\ SameColumns(t, u)
         /\ u.tombstones = t.tombstones \union {k}
         /\ IsTombstone(k) /\ k.col = c /\ k.fid = FieldNamed(t.schema, c).fid
         /\ k.birth = FieldNamed(t.schema, c).birth
  BY <1>1
<1>3. /\ manifest'.tables = (manifest.tables \ {t}) \union {u}
      /\ manifest'.jobs = manifest.jobs /\ manifest'.retired = manifest.retired
  BY <1>2 DEF ReplacedBy
<1>4. ColumnsOK(manifest') /\ (BirthsOK(manifest) => BirthsOK(manifest'))
  BY <1>2, <1>3, DeleteColumns DEF ColumnsInv
<1> QED
  BY <1>4 DEF ColumnsStep, ColumnsInv, BirthsInv

(* ALTER TABLE.                                                            *)
LEMMA AlterStep ==
    ASSUME SafeInv, Named, ColumnsInv, NEW nm, NEW ops \in AlterOps, Alter(nm, ops)
    PROVE  ColumnsStep
<1>1. PICK t \in manifest.tables :
         /\ CanCreateJob(manifest, t, ops)
         /\ manifest'.jobs = manifest.jobs \union {NewJob(manifest, t, ops)}
         /\ manifest'.tables = manifest.tables /\ manifest'.retired = manifest.retired
  BY AlterTo
<1>2. UniqueIn(manifest) /\ ColumnsOK(manifest)
  BY DEF Named, ColumnsInv
<1>3. ColumnsOK(manifest') /\ (BirthsOK(manifest) => BirthsOK(manifest'))
  BY <1>1, <1>2, AlterColumns
<1> QED
  BY <1>3 DEF ColumnsStep, ColumnsInv, BirthsInv

(* A job's swap.                                                           *)
LEMMA SwapStep ==
    ASSUME SafeInv, Named, ColumnsInv, NEW j \in manifest.jobs, JobSwap(j)
    PROVE  ColumnsStep
<1>1. PICK t \in manifest.tables : \E u, r :
         /\ manifest'.tables = (manifest.tables \ {t}) \union {u}
         /\ manifest'.jobs \subseteq manifest.jobs \ {j}
         /\ manifest'.retired = manifest.retired \union {r}
         /\ t.id = j.source /\ r.entry = t /\ u.name = t.name
         /\ u.id = j.target.id /\ u.schema = j.target.schema
         /\ u.next_field_id = j.target.next_field_id
         /\ u.segments = j.target.segments \union Carried(t, j, SegIds(Gap(t, j)))
         /\ u.tombstones = RenameTombstones(t.tombstones, t.schema, j.target.schema)
         /\ r.reason = "swapped" /\ r.version = manifest.version + 1
         /\ ~BufferHolds(in_flight, t.name)
         /\ pending' = ProjectPending(t.name, t.schema, j.target.schema)
  BY SwapTo
<1>2. PICK u, r :
         /\ manifest'.tables = (manifest.tables \ {t}) \union {u}
         /\ manifest'.jobs \subseteq manifest.jobs \ {j}
         /\ manifest'.retired = manifest.retired \union {r}
         /\ t.id = j.source /\ r.entry = t /\ u.name = t.name
         /\ u.id = j.target.id /\ u.schema = j.target.schema
         /\ u.next_field_id = j.target.next_field_id
         /\ u.tombstones = RenameTombstones(t.tombstones, t.schema, j.target.schema)
         /\ r.reason = "swapped" /\ r.version = manifest.version + 1
  BY <1>1
<1>3. UniqueIn(manifest) /\ ColumnsOK(manifest) /\ manifest.version \in Nat
  BY DEF Named, ColumnsInv, SafeInv, Safe, IsManifest
<1>4. /\ ColumnsOK(manifest')
      /\ BirthsOK(manifest) /\ Past(manifest) => BirthsOK(manifest')
  BY <1>2, <1>3, SwapColumns
<1> QED
  BY <1>4 DEF ColumnsStep, ColumnsInv, BirthsInv, ManifestOrder

(* REVERT.                                                                 *)
LEMMA RevertStep ==
    ASSUME SafeInv, Named, ColumnsInv, NEW nm, Revert(nm)
    PROVE  ColumnsStep
<1>1. PICK cur \in manifest.tables, r \in manifest.retired : \E v, q :
         /\ "revert" \in Ops /\ cur.name = nm /\ CanRevertTable(manifest, r, cur)
         /\ manifest'.tables = (manifest.tables \ {cur}) \union {v}
         /\ manifest'.jobs = manifest.jobs
         /\ manifest'.retired = (manifest.retired \ {r}) \union {q}
         /\ q.entry = cur /\ q.reason = "reverted"
         /\ v.id = r.entry.id /\ v.name = r.entry.name /\ v.schema = r.entry.schema
         /\ v.next_field_id = NextField(r, cur)
         /\ v.segments = r.entry.segments \union
              {ProjectOnto(s, r.entry.schema) : s \in Since(r, cur)}
         /\ v.tombstones = r.entry.tombstones \union
              RenameTombstones(LaterKills(r, cur), cur.schema, r.entry.schema)
         /\ ~BufferHolds(in_flight, nm)
         /\ pending' = ProjectPending(nm, cur.schema, r.entry.schema)
  BY RevertTo
<1>2. PICK v, q :
         /\ "revert" \in Ops /\ CanRevertTable(manifest, r, cur)
         /\ manifest'.tables = (manifest.tables \ {cur}) \union {v}
         /\ manifest'.jobs = manifest.jobs
         /\ manifest'.retired = (manifest.retired \ {r}) \union {q}
         /\ q.entry = cur /\ q.reason = "reverted"
         /\ v.id = r.entry.id /\ v.name = r.entry.name /\ v.schema = r.entry.schema
         /\ v.next_field_id = NextField(r, cur)
         /\ v.tombstones = r.entry.tombstones \union
              RenameTombstones(LaterKills(r, cur), cur.schema, r.entry.schema)
  BY <1>1
<1>3. UniqueIn(manifest) /\ ColumnsOK(manifest)
  BY DEF Named, ColumnsInv
<1>4. ColumnsOK(manifest') /\ (BirthsOK(manifest) => BirthsOK(manifest'))
  BY <1>2, <1>3, RevertColumns
<1> QED
  BY <1>4 DEF ColumnsStep, ColumnsInv, BirthsInv

(* DROP TABLE.                                                             *)
LEMMA DropStep ==
    ASSUME SafeInv, ColumnsInv, NEW nm, Drop(nm)
    PROVE  ColumnsStep
<1>1. PICK t \in manifest.tables : \E d :
         /\ manifest'.tables = manifest.tables \ {t} /\ manifest'.jobs = manifest.jobs
         /\ manifest'.retired = manifest.retired \union {d}
         /\ d.entry = t /\ d.reason = "dropped"
  BY DropTo
<1>2. ColumnsOK(manifest') /\ (BirthsOK(manifest) => BirthsOK(manifest'))
  BY <1>1, DropColumns DEF ColumnsInv
<1> QED
  BY <1>2 DEF ColumnsStep, ColumnsInv, BirthsInv

(* UNDROP TABLE.                                                           *)
LEMMA UndropStep ==
    ASSUME SafeInv, Named, ColumnsInv, NEW nm, Undrop(nm)
    PROVE  ColumnsStep
<1>1. PICK d \in manifest.retired :
         /\ CanUndropTable(manifest, d)
         /\ manifest'.tables = manifest.tables \union {d.entry}
         /\ manifest'.jobs = manifest.jobs /\ manifest'.retired = manifest.retired \ {d}
  BY UndropTo
<1>2. UniqueIn(manifest) /\ ColumnsOK(manifest)
  BY DEF Named, ColumnsInv
<1>3. /\ ColumnsOK(manifest')
      /\ BirthsOK(manifest) /\ ManifestOrder(manifest) => BirthsOK(manifest')
  BY <1>1, <1>2, UndropColumns
<1> QED
  BY <1>3 DEF ColumnsStep, ColumnsInv, BirthsInv

-----------------------------------------------------------------------------
(* Tombstones: the theorems.                                               *)

(* Every step keeps the columns.                                           *)
LEMMA NextColumns ==
    ASSUME SafeInv, Named, ColumnsInv, [Next]_vars
    PROVE  ColumnsStep
<1>1. ASSUME NEW n \in Names, NEW columns \in ColumnLists, Create(n, columns)
      PROVE  ColumnsStep
  BY <1>1, CreateStep
<1>2. ASSUME NEW n \in Names, Truncate(n) \/ Revert(n) \/ Drop(n) \/ Undrop(n)
      PROVE  ColumnsStep
  BY <1>2, TruncateColumns, RevertStep, DropStep, UndropStep
<1>3. ASSUME NEW n \in Names, NEW c, NEW kills, Delete(n, c, kills)
      PROVE  ColumnsStep
  BY <1>3, DeleteStep
<1>4. ASSUME NEW n \in Names, NEW ops \in AlterOps, Alter(n, ops)
      PROVE  ColumnsStep
  BY <1>4, AlterStep
<1>5. ASSUME UNCHANGED manifest PROVE ColumnsStep
  BY <1>5, SameStep
<1>6. ASSUME NEW n \in Names, NEW r \in Rows, Write(n, r) PROVE UNCHANGED manifest
  BY <1>6 DEF Write
<1>7. ASSUME NEW n \in Names, NEW w \in Workers, CompactPrepare(w, n)
      PROVE  UNCHANGED manifest
  BY <1>7 DEF CompactPrepare
<1>8. ASSUME FlushTake \/ FlushWrite \/ FlushFail \/ Reopen \/ UNCHANGED vars
      PROVE  UNCHANGED manifest
  BY <1>8 DEF FlushTake, FlushWrite, FlushFail, Reopen, vars
<1>9. ASSUME NEW w \in Workers, CompactCommit(w) \/ JobAdvance(w)
      PROVE  ColumnsStep
  BY <1>9, CompactCommitColumns, JobAdvanceColumns
<1>10. ASSUME NEW w \in Workers, Abandon(w) PROVE UNCHANGED manifest
  BY <1>10 DEF Abandon
<1>11. ASSUME NEW j \in manifest.jobs, JobSwap(j) \/ Cancel(j)
       PROVE  ColumnsStep
  BY <1>11, SwapStep, CancelColumns
<1>12. ASSUME NEW j \in manifest.jobs, NEW w \in Workers, JobPrepare(w, j)
       PROVE  UNCHANGED manifest
  BY <1>12 DEF JobPrepare
<1>13. ASSUME NEW expired \in SUBSET manifest.retired, Expire(expired)
       PROVE  ColumnsStep
  BY <1>13, ExpireColumns
<1>14. ASSUME NEW ids \in SUBSET GarbageIds(manifest), Forget(ids)
       PROVE  ColumnsStep
  BY <1>14, ForgetColumns
<1> QED
  BY <1>1, <1>2, <1>3, <1>4, <1>5, <1>6, <1>7, <1>8, <1>9, <1>10, <1>11, <1>12,
     <1>13, <1>14, FlushCommitColumns DEF Next

(* A new store has no columns.                                             *)
LEMMA ColumnsInit == Init => ColumnsInv /\ BirthsInv
<1> SUFFICES ASSUME Init PROVE ColumnsInv /\ BirthsInv
  OBVIOUS
<1>1. manifest.tables = {} /\ manifest.retired = {} /\ manifest.jobs = {}
  BY DEF Init, EmptyManifest
<1>2. Swapped(manifest) = {}
  BY <1>1 DEF Swapped
<1> QED
  BY <1>1, <1>2 DEF ColumnsInv, ColumnsOK, BirthsInv, BirthsOK, LinesOK

(* A table names a column once, gives an id once, and its tombstones and   *)
(* those a running job must carry name columns that are there.             *)
THEOREM ColumnsAlways == Spec => []ColumnsInv
<1>1. Init => ColumnsInv
  BY ColumnsInit
<1>2. RowsAll /\ ColumnsInv /\ [Next]_vars => ColumnsInv'
  BY NextColumns DEF RowsAll, TypeInv, ColumnsStep
<1> QED
  BY <1>1, <1>2, RowsAlways, PTL DEF Spec

(* A job is never wedged: whatever is deleted while it runs, its swap can  *)
(* carry every tombstone, for any list of clauses.  plan_alter refuses to  *)
(* drop a column a tombstone names, under whatever name the clauses before *)
(* gave it, and add_tombstone refuses one the running job drops.           *)
THEOREM SwapsNeverWedge == Spec => []SwapNeverWedged
<1>1. ColumnsInv => SwapNeverWedged
  <2> SUFFICES ASSUME ColumnsInv, NEW j \in manifest.jobs, NEW t \in manifest.tables,
                      t.id = j.source
               PROVE  CanRename(t.tombstones, t.schema, j.target.schema)
    BY DEF SwapNeverWedged
  <2>1. /\ OneEach(t.schema) /\ KillsNamed(t.tombstones, t.schema)
        /\ KillsCarried(t.tombstones, j.target.schema)
    BY DEF ColumnsInv, ColumnsOK, EntryOK, SchemaOK
  <2> QED
    BY <2>1, CanRenameCarried
<1> QED
  BY <1>1, ColumnsAlways, PTL

(* What columns mean, kept as long as no name is created too early.        *)
LEMMA NextBirths ==
    ASSUME RowsAll, ColumnsInv, ContentsInv, BirthsInv, [Next]_vars, [NameUnused]_vars
    PROVE  BirthsInv'
<1>1. CASE UNCHANGED vars
  BY <1>1 DEF vars, BirthsInv, BirthsOK, LinesOK, Swapped, Dropped
<1>2. CASE NameUnused
  BY <1>2, NextColumns DEF RowsAll, TypeInv, ColumnsStep, ContentsInv
<1> QED
  BY <1>1, <1>2

(* A delete applies to the column it was written for, under whatever name  *)
(* the column has come to have, through any ALTERs, swaps, reverts, drops  *)
(* and undrops.                                                            *)
(*                                                                         *)
(* The hypotheses: gc expires the oldest definitions first (ExpiryOrder),  *)
(* and no table is created under a name that REVERT still finds a          *)
(* definition for.  The second one the code does not enforce: a table      *)
(* created again under a dropped name counts its field ids from 1 again,   *)
(* and REVERT would take the definition of the old one for its own.        *)
THEOREM TombstonesFollow ==
    Spec /\ [][ExpiryOrder]_vars /\ [][NameUnused]_vars => []TombstoneFollowsColumn
<1>1. Init => BirthsInv
  BY ColumnsInit
<1>2. RowsAll /\ ColumnsInv /\ ContentsInv /\ BirthsInv /\ [Next]_vars /\ [NameUnused]_vars
        => BirthsInv'
  BY NextBirths
<1>3. ColumnsInv /\ BirthsInv => TombstoneFollowsColumn
  BY DEF ColumnsInv, ColumnsOK, EntryOK, KillsNamed, BirthsInv, BirthsOK, KillsBorn,
         TombstoneFollowsColumn
<1> QED
  BY <1>1, <1>2, <1>3, RowsAlways, ColumnsAlways, ContentsAlways, PTL DEF Spec

-----------------------------------------------------------------------------
(* Lineages: the definitions a table goes through by ALTER, swap, drop,    *)
(* undrop and revert, over which a field id means one column.  R gives a   *)
(* definition's id its lineage, B the column of each field id of a         *)
(* lineage, N its next field id and O the lineage of a segment id.         *)

(* Columns and the columns of a file: below n, and as B gives them.        *)
Fits(S, B, n) == \A c \in S : c.fid \in Nat /\ c.fid < n /\ B[c.fid] = c.birth
EntryFits(e, R, B, O) ==
    /\ Fits(e.schema, B[R[e.id]], e.next_field_id)
    /\ \A s \in e.segments :
         O[s.id] = R[e.id] /\ Fits(s.file, B[R[e.id]], e.next_field_id)
EntriesFit(m, R, B, O) == \A e \in Entries(m) : EntryFits(e, R, B, O)

(* The head of a lineage is live, or dropped and may come back: there is   *)
(* one, and new field ids come from it.                                    *)
Heads(m) == m.tables \union {d.entry : d \in Dropped(m)}
HeadsFit(m, R, N) ==
    /\ \A e \in Heads(m) : e.next_field_id = N[R[e.id]]
    /\ \A d, e \in Heads(m) : R[d.id] = R[e.id] => d.id = e.id
    /\ \A r \in m.retired : r.entry.next_field_id <= N[R[r.entry.id]]

(* A job stays in the lineage of its source, and REVERT in that of the     *)
(* table it replaces.                                                      *)
JobsFit(m, R) == \A j \in m.jobs : R[j.target.id] = R[j.source]
LinesFit(m, R) ==
    \A r \in Swapped(m) :
        /\ \A t \in m.tables : t.name = r.entry.name => R[t.id] = R[r.entry.id]
        /\ \A d \in Dropped(m) : d.entry.name = r.entry.name /\ r.version < d.version
             => R[d.entry.id] = R[r.entry.id]
LineageOK(m, R, B, N, O) ==
    EntriesFit(m, R, B, O) /\ HeadsFit(m, R, N) /\ JobsFit(m, R) /\ LinesFit(m, R)

(* What workers and the flusher have written fits where it is going.       *)
MergeFits(x, B, N, O) ==
    x.kind = "merge" =>
      /\ x.removes # {}
      /\ \A i \in x.removes, a \in x.adds : Fits(a.file, B[O[i]], N[O[i]])
StepFits(m, x, R, B) ==
    x.kind = "advance" =>
      \A j \in m.jobs : j.id = x.job =>
        \A s \in x.segments : Fits(s.file, B[R[j.target.id]], j.target.next_field_id)
WorkFits(m, wk, R, B, N, O) ==
    \A w \in Workers : MergeFits(wk[w], B, N, O) /\ StepFits(m, wk[w], R, B)
FlushFits(m, fl, R, B) ==
    \A p \in fl, t \in m.tables :
        t.name = p.table => Fits(p.seg.file, B[R[t.id]], t.next_field_id)
AllFits(m, fl, wk, R, B, N, O) ==
    LineageOK(m, R, B, N, O) /\ WorkFits(m, wk, R, B, N, O) /\ FlushFits(m, fl, R, B)
LineageInv == \E R, B, N, O : AllFits(manifest, flushing, work, R, B, N, O)

(* The jobs workers have steps for are jobs there are or were.             *)
JobsKnown ==
    \A w \in Workers :
        work[w].kind = "advance" => work[w].job \in Nat /\ work[w].job < manifest.next_job_id

(* A buffered batch holds, under a name, the column the table has there.   *)
BornAs(b, S) == \A c \in b.cols, f \in S : c.col = f.col => c.birth = f.birth
BatchesBorn ==
    \A b \in pending \union in_flight, t \in manifest.tables :
        t.name = b.table => BornAs(b, t.schema)

-----------------------------------------------------------------------------
(* Facts about fitting.                                                    *)

(* Ids below a bound are below a greater one.                              *)
LEMMA FitsWider ==
    ASSUME NEW S, NEW B, NEW n \in Nat, NEW k \in Nat, n <= k, Fits(S, B, n)
    PROVE  Fits(S, B, k)
  BY DEF Fits

(* Columns given from n on do not touch what is below.                     *)
LEMMA FitsBelow ==
    ASSUME NEW S, NEW B, NEW C, NEW n \in Nat, Fits(S, B, n),
           \A i \in Nat : i < n => C[i] = B[i]
    PROVE  Fits(S, C, n)
  BY DEF Fits

(* Two that fit agree.                                                     *)
LEMMA FitsAgree ==
    ASSUME NEW S, NEW U, NEW B, NEW n, NEW k, Fits(S, B, n), Fits(U, B, k)
    PROVE  Agree(S, U) /\ \A c \in S, f \in U : c.fid = f.fid => c.birth = f.birth
  BY DEF Fits, Agree

(* What a merge or a rewrite writes.                                       *)
LEMMA MergedFits ==
    ASSUME NEW S, NEW B, NEW n \in Nat, NEW k \in Nat, n <= k, Fits(S, B, k),
           NEW I, \A s \in I : Fits(s.file, B, n)
    PROVE  Fits(MergedFile(S, I), B, k)
<1>1. \A s \in I : Fits(s.file, B, k)
  BY FitsWider
<1>2. \A f \in S : LET c == [fid |-> f.fid, birth |-> f.birth]
                   IN  c.fid \in Nat /\ c.fid < k /\ B[c.fid] = c.birth
  BY DEF Fits
<1>3. ASSUME NEW c \in MergedFile(S, I)
      PROVE  (\E f \in S : c = [fid |-> f.fid, birth |-> f.birth]) \/ \E s \in I : c \in s.file
  BY DEF MergedFile
<1>4. ASSUME NEW c \in MergedFile(S, I)
      PROVE  c.fid \in Nat /\ c.fid < k /\ B[c.fid] = c.birth
  BY <1>1, <1>2, <1>3 DEF Fits
<1> QED
  BY <1>4 DEF Fits

(* What a flush writes.                                                    *)
LEMMA FileFits ==
    ASSUME NEW S, NEW B, NEW n, Fits(S, B, n), NEW T, \A b \in T : BornAs(b, S)
    PROVE  Fits(FileOf(S, T), B, n)
<1>1. ASSUME NEW c \in FileOf(S, T)
      PROVE  \E f \in S : c.fid = f.fid /\ c.birth = f.birth
  <2> DEFINE held == {p \in S \X UNION {b.cols : b \in T} : p[1].col = p[2].col}
  <2>1. PICK p \in held : c = [fid |-> p[1].fid, birth |-> p[2].birth]
    BY DEF FileOf
  <2>2. p[1] \in S /\ p[1].col = p[2].col /\ \E b \in T : p[2] \in b.cols
    OBVIOUS
  <2>3. p[2].birth = p[1].birth
    BY <2>2 DEF BornAs
  <2> QED
    BY <2>1, <2>2, <2>3
<1> QED
  BY <1>1 DEF Fits

(* A segment seen through another schema.                                  *)
LEMMA ProjectedFits ==
    ASSUME NEW s, NEW S, NEW B, NEW n, Fits(s.file, B, n)
    PROVE  ProjectOnto(s, S).id = s.id /\ Fits(ProjectOnto(s, S).file, B, n)
  BY DEF ProjectOnto, Fits

(* Segments a job carries.                                                 *)
LEMMA CarriedFits ==
    ASSUME NEW t, NEW R, NEW B, NEW O, EntryFits(t, R, B, O), NEW j, NEW ids,
           t.next_field_id \in Nat, NEW k \in Nat, t.next_field_id <= k,
           NEW s \in Carried(t, j, ids)
    PROVE  O[s.id] = R[t.id] /\ Fits(s.file, B[R[t.id]], k)
<1>1. PICK u \in t.segments : s = ProjectOnto(u, j.target.schema)
  BY DEF Carried
<1>2. Fits(u.file, B[R[t.id]], t.next_field_id) /\ O[u.id] = R[t.id]
  BY DEF EntryFits
<1>3. Fits(u.file, B[R[t.id]], k)
  BY <1>2, FitsWider
<1>4. s.id = u.id /\ Fits(s.file, B[R[t.id]], k)
  BY <1>1, <1>3, ProjectedFits
<1> QED
  BY <1>2, <1>4

(* project_batch leaves a batch with the columns of the new schema.        *)
LEMMA ProjectedBorn ==
    ASSUME NEW b, IsBatch(b), NEW from, NEW to, OneEach(from), OneEach(to), Agree(from, to),
           BornAs(b, from), Cols(from) = {c.col : c \in b.cols}
    PROVE  BornAs(ProjectBatch(b, from, to), to)
<1> DEFINE F(g) == IF g.fid \in Fids(from)
                     THEN (CHOOSE c \in b.cols :
                       c.col = (CHOOSE f \in from : f.fid = g.fid).col).birth
                     ELSE g.birth
           X == {[col |-> g.col, birth |-> F(g)] : g \in to}
<1>1. ProjectBatch(b, from, to).cols = X
  <2>1. ProjectBatch(b, from, to) = [b EXCEPT !.cols = X]
    BY DEF ProjectBatch
  <2> HIDE DEF X
  <2> QED
    BY <2>1 DEF IsBatch
<1>2. ASSUME NEW g \in to PROVE F(g) = g.birth
  <2>1. CASE g.fid \in Fids(from)
    <3>1. PICK f \in from : f.fid = g.fid
      BY <2>1 DEF Fids
    <3>2. (CHOOSE h \in from : h.fid = g.fid) = f
      BY <3>1, NamedField
    <3>3. \E c \in b.cols : c.col = f.col
      BY DEF Cols
    <3>4. (CHOOSE c \in b.cols : c.col = f.col).birth = f.birth
      BY <3>3 DEF BornAs
    <3>5. f.birth = g.birth
      BY <3>1 DEF Agree
    <3> QED
      BY <2>1, <3>2, <3>4, <3>5
  <2>2. CASE g.fid \notin Fids(from)
    BY <2>2
  <2> QED
    BY <2>1, <2>2
<1>3. ASSUME NEW c \in X, NEW f \in to, c.col = f.col PROVE c.birth = f.birth
  <2>1. PICK g \in to : c = [col |-> g.col, birth |-> F(g)]
    OBVIOUS
  <2>2. c.birth = g.birth /\ g.col = f.col
    BY <1>2, <1>3, <2>1
  <2> QED
    BY <2>2 DEF OneEach
<1> HIDE DEF X
<1> QED
  BY <1>1, <1>3 DEF BornAs

-----------------------------------------------------------------------------
(* What a step has to keep.                                                *)

(* Another version of an entry, with no segment the entry did not have.    *)
Thinner(d, e) ==
    /\ e.id = d.id /\ e.schema = d.schema /\ e.next_field_id = d.next_field_id
    /\ e.segments \subseteq d.segments

(* Entries that fit, or are what they were or less.                        *)
LEMMA EntriesFrame ==
    ASSUME NEW m, NEW n, NEW R, NEW B, NEW O, EntriesFit(m, R, B, O),
           \A e \in Entries(n) :
              EntryFits(e, R, B, O) \/ \E d \in Entries(m) : Thinner(d, e)
    PROVE  EntriesFit(n, R, B, O)
<1>1. ASSUME NEW e \in Entries(n), NEW d \in Entries(m), Thinner(d, e)
      PROVE  EntryFits(e, R, B, O)
  <2>1. EntryFits(d, R, B, O)
    BY DEF EntriesFit
  <2> QED
    BY <1>1, <2>1 DEF EntryFits, Thinner
<1> QED
  BY <1>1 DEF EntriesFit

(* No new head, none that counts otherwise.                                *)
LEMMA HeadsFrame ==
    ASSUME NEW m, NEW n, NEW R, NEW N, HeadsFit(m, R, N),
           \A e \in Heads(n) : \E d \in Heads(m) :
              e.id = d.id /\ e.next_field_id = d.next_field_id,
           \A r \in n.retired : r \in m.retired \/
              (r.entry.next_field_id \in Nat /\ r.entry \in Heads(m))
    PROVE  HeadsFit(n, R, N)
<1>1. \A e \in Heads(n) : e.next_field_id = N[R[e.id]]
  BY DEF HeadsFit
<1>2. \A d, e \in Heads(n) : R[d.id] = R[e.id] => d.id = e.id
  BY DEF HeadsFit
<1>3. \A r \in n.retired : r.entry.next_field_id <= N[R[r.entry.id]]
  BY DEF HeadsFit
<1> QED
  BY <1>1, <1>2, <1>3 DEF HeadsFit

(* Jobs that go from and to what they went.                                *)
LEMMA JobsFrame ==
    ASSUME NEW m, NEW n, NEW R, JobsFit(m, R),
           \A i \in n.jobs : \E j \in m.jobs :
              i.target.id = j.target.id /\ i.source = j.source
    PROVE  JobsFit(n, R)
  BY DEF JobsFit

(* Tables of the same names and ids, no new definition to go back to.      *)
LEMMA LinesFrame ==
    ASSUME NEW m, NEW n, NEW R, LinesFit(m, R),
           \A t \in n.tables : \E u \in m.tables : t.id = u.id /\ t.name = u.name,
           n.retired \subseteq m.retired
    PROVE  LinesFit(n, R)
<1>1. Swapped(n) \subseteq Swapped(m) /\ Dropped(n) \subseteq Dropped(m)
  BY DEF Swapped, Dropped
<1>2. ASSUME NEW r \in Swapped(n), NEW t \in n.tables, t.name = r.entry.name
      PROVE  R[t.id] = R[r.entry.id]
  <2>1. PICK u \in m.tables : t.id = u.id /\ t.name = u.name
    OBVIOUS
  <2> QED
    BY <1>1, <1>2, <2>1 DEF LinesFit
<1>3. \A r \in Swapped(n), d \in Dropped(n) :
         d.entry.name = r.entry.name /\ r.version < d.version => R[d.entry.id] = R[r.entry.id]
  BY <1>1 DEF LinesFit
<1> QED
  BY <1>2, <1>3 DEF LinesFit

(* Workers that keep their work, give it up, or have work that fits.       *)
LEMMA WorkFitsFrame ==
    ASSUME NEW m, NEW n, NEW wk, NEW wk2, NEW R, NEW B, NEW N, NEW O,
           WorkFits(m, wk, R, B, N, O),
           \A i \in n.jobs : \E j \in m.jobs :
              /\ i.id = j.id /\ i.target.id = j.target.id
              /\ i.target.next_field_id = j.target.next_field_id,
           \A w \in Workers : \/ wk2[w] = wk[w] \/ wk2[w] = NoWork
                              \/ MergeFits(wk2[w], B, N, O) /\ StepFits(n, wk2[w], R, B)
    PROVE  WorkFits(n, wk2, R, B, N, O)
<1> SUFFICES ASSUME NEW w \in Workers
             PROVE  MergeFits(wk2[w], B, N, O) /\ StepFits(n, wk2[w], R, B)
  BY DEF WorkFits
<1>1. CASE wk2[w] = wk[w]
  <2>1. MergeFits(wk[w], B, N, O) /\ StepFits(m, wk[w], R, B)
    BY DEF WorkFits
  <2>2. StepFits(n, wk[w], R, B)
    <3> SUFFICES ASSUME wk[w].kind = "advance", NEW i \in n.jobs, i.id = wk[w].job,
                        NEW s \in wk[w].segments
                 PROVE  Fits(s.file, B[R[i.target.id]], i.target.next_field_id)
      BY DEF StepFits
    <3>1. PICK j \in m.jobs : /\ i.id = j.id /\ i.target.id = j.target.id
                              /\ i.target.next_field_id = j.target.next_field_id
      OBVIOUS
    <3> QED
      BY <2>1, <3>1 DEF StepFits
  <2> QED
    BY <1>1, <2>1, <2>2
<1>2. CASE wk2[w] = NoWork
  BY <1>2 DEF NoWork, MergeFits, StepFits
<1> QED
  BY <1>1, <1>2

(* What the flusher holds, for the same tables.                            *)
LEMMA FlushFitsFrame ==
    ASSUME NEW m, NEW n, NEW fl, NEW fl2, fl2 \subseteq fl, NEW R, NEW B,
           FlushFits(m, fl, R, B),
           \A u \in n.tables : \/ \A p \in fl2 : p.table # u.name
                               \/ \E t \in m.tables :
                                    /\ u.name = t.name /\ u.id = t.id
                                    /\ u.next_field_id = t.next_field_id
    PROVE  FlushFits(n, fl2, R, B)
<1> SUFFICES ASSUME NEW p \in fl2, NEW u \in n.tables, u.name = p.table
             PROVE  Fits(p.seg.file, B[R[u.id]], u.next_field_id)
  BY DEF FlushFits
<1>1. PICK t \in m.tables : /\ u.name = t.name /\ u.id = t.id
                            /\ u.next_field_id = t.next_field_id
  OBVIOUS
<1> QED
  BY <1>1 DEF FlushFits

(* Other witnesses for the same state: they agree on what it has.          *)
SameBelow(B, C, x, n) == \A i \in Nat : i < n => C[x][i] = B[x][i]
LEMMA Rebased ==
    ASSUME NEW m, NEW fl, NEW wk, NEW R, NEW B, NEW N, NEW O,
           AllFits(m, fl, wk, R, B, N, O),
           \A e \in Entries(m) : e.next_field_id \in Nat,
           \A j \in m.jobs : \E t \in m.tables : t.id = j.source,
           NEW R2, NEW B2, NEW N2, NEW O2,
           \A e \in Entries(m) :
              /\ R2[e.id] = R[e.id] /\ N2[R[e.id]] = N[R[e.id]]
              /\ SameBelow(B, B2, R[e.id], e.next_field_id),
           \A s \in SegmentsIn(m) : O2[s.id] = O[s.id],
           \A w \in Workers : \A i \in SpentBy(wk[w]) :
              /\ O2[i] = O[i] /\ N2[O[i]] = N[O[i]]
              /\ B2[O[i]] = B[O[i]] \/
                   (N[O[i]] \in Nat /\ SameBelow(B, B2, O[i], N[O[i]]))
    PROVE  AllFits(m, fl, wk, R2, B2, N2, O2)
<1>0. /\ EntriesFit(m, R, B, O) /\ HeadsFit(m, R, N) /\ JobsFit(m, R) /\ LinesFit(m, R)
      /\ WorkFits(m, wk, R, B, N, O) /\ FlushFits(m, fl, R, B)
  BY DEF AllFits, LineageOK
<1>1. ASSUME NEW S, NEW e \in Entries(m), Fits(S, B[R[e.id]], e.next_field_id)
      PROVE  Fits(S, B2[R2[e.id]], e.next_field_id)
  <2>1. \A i \in Nat : i < e.next_field_id => B2[R[e.id]][i] = B[R[e.id]][i]
    BY DEF SameBelow
  <2>2. Fits(S, B2[R[e.id]], e.next_field_id)
    BY <1>1, <2>1, FitsBelow
  <2> QED
    BY <2>2
<1>2. EntriesFit(m, R2, B2, O2)
  <2> SUFFICES ASSUME NEW e \in Entries(m) PROVE EntryFits(e, R2, B2, O2)
    BY DEF EntriesFit
  <2>1. EntryFits(e, R, B, O)
    BY <1>0 DEF EntriesFit
  <2>2. \A s \in e.segments : O2[s.id] = R2[e.id]
    <3>1. \A s \in e.segments : s \in SegmentsIn(m)
      BY InSegments
    <3> QED
      BY <2>1, <3>1 DEF EntryFits
  <2> QED
    BY <1>1, <2>1, <2>2 DEF EntryFits
<1>3. \A e \in Heads(m) : e \in Entries(m)
  BY DEF Heads, Entries, Dropped
<1>4. \A r \in m.retired : r.entry \in Entries(m)
  BY DEF Entries
<1>5. HeadsFit(m, R2, N2)
  <2>1. \A e \in Entries(m) : R2[e.id] = R[e.id] /\ N2[R2[e.id]] = N[R[e.id]]
    OBVIOUS
  <2>2. \A e \in Heads(m) : e.next_field_id = N2[R2[e.id]]
    BY <1>0, <1>3, <2>1 DEF HeadsFit
  <2>3. \A d, e \in Heads(m) : R2[d.id] = R2[e.id] => d.id = e.id
    BY <1>0, <1>3, <2>1 DEF HeadsFit
  <2>4. \A r \in m.retired : r.entry.next_field_id <= N2[R2[r.entry.id]]
    BY <1>0, <1>4, <2>1 DEF HeadsFit
  <2> QED
    BY <2>2, <2>3, <2>4 DEF HeadsFit
<1>6. \A j \in m.jobs : j.target \in Entries(m)
  BY DEF Entries
<1>7. \A t \in m.tables : t \in Entries(m)
  BY DEF Entries
<1>8. JobsFit(m, R2)
  <2> SUFFICES ASSUME NEW j \in m.jobs PROVE R2[j.target.id] = R2[j.source]
    BY DEF JobsFit
  <2>1. PICK t \in m.tables : t.id = j.source
    OBVIOUS
  <2>2. R2[t.id] = R[t.id] /\ R2[j.target.id] = R[j.target.id]
    BY <1>6, <1>7
  <2> QED
    BY <1>0, <2>1, <2>2 DEF JobsFit
<1>9. LinesFit(m, R2)
  <2>1. \A r \in Swapped(m) : R2[r.entry.id] = R[r.entry.id]
    BY <1>4 DEF Swapped
  <2>2. \A d \in Dropped(m) : R2[d.entry.id] = R[d.entry.id]
    BY <1>4 DEF Dropped
  <2>3. \A t \in m.tables : R2[t.id] = R[t.id]
    BY <1>7
  <2> QED
    BY <1>0, <2>1, <2>2, <2>3 DEF LinesFit
<1>10. ASSUME NEW w \in Workers PROVE MergeFits(wk[w], B2, N2, O2)
  <2> SUFFICES ASSUME wk[w].kind = "merge"
               PROVE  /\ wk[w].removes # {}
                      /\ \A i \in wk[w].removes, a \in wk[w].adds :
                           Fits(a.file, B2[O2[i]], N2[O2[i]])
    BY DEF MergeFits
  <2>1. /\ wk[w].removes # {}
        /\ \A i \in wk[w].removes, a \in wk[w].adds : Fits(a.file, B[O[i]], N[O[i]])
    BY <1>0 DEF WorkFits, MergeFits
  <2>2. SpentBy(wk[w]) = wk[w].removes
    BY DEF SpentBy
  <2>3. ASSUME NEW i \in wk[w].removes, NEW a \in wk[w].adds
        PROVE  Fits(a.file, B2[O2[i]], N2[O2[i]])
    <3>1. /\ O2[i] = O[i] /\ N2[O[i]] = N[O[i]]
          /\ B2[O[i]] = B[O[i]] \/
               (N[O[i]] \in Nat /\ SameBelow(B, B2, O[i], N[O[i]]))
      BY <2>2
    <3>2. CASE B2[O[i]] = B[O[i]]
      BY <2>1, <3>1, <3>2
    <3>3. CASE N[O[i]] \in Nat /\ SameBelow(B, B2, O[i], N[O[i]])
      <4>1. \A k \in Nat : k < N[O[i]] => B2[O[i]][k] = B[O[i]][k]
        BY <3>3 DEF SameBelow
      <4>2. Fits(a.file, B2[O[i]], N[O[i]])
        BY <2>1, <3>3, <4>1, FitsBelow
      <4> QED
        BY <3>1, <4>2
    <3> QED
      BY <3>1, <3>2, <3>3
  <2> QED
    BY <2>1, <2>3
<1>11. ASSUME NEW w \in Workers PROVE StepFits(m, wk[w], R2, B2)
  <2>1. StepFits(m, wk[w], R, B)
    BY <1>0 DEF WorkFits
  <2> QED
    BY <1>1, <1>6, <2>1 DEF StepFits
<1>12. FlushFits(m, fl, R2, B2)
  BY <1>0, <1>1, <1>7 DEF FlushFits
<1> QED
  BY <1>2, <1>5, <1>8, <1>9, <1>10, <1>11, <1>12 DEF AllFits, LineageOK, WorkFits

(* What an entry becomes that stays where it is.                           *)
StaysFit(d, e, R, B, O) ==
    /\ e.id = d.id /\ e.next_field_id = d.next_field_id
    /\ Thinner(d, e) \/ EntryFits(e, R, B, O)

(* The same definitions in the same places: a step that writes segments,   *)
(* drops some or gives up work.                                            *)
LEMMA LinesKept ==
    ASSUME NEW m, NEW n, NEW fl, NEW fl2, NEW wk, NEW wk2, NEW R, NEW B, NEW N, NEW O,
           AllFits(m, fl, wk, R, B, N, O),
           \A u \in n.tables : \E t \in m.tables : u.name = t.name /\ StaysFit(t, u, R, B, O),
           \A i \in n.jobs : \E j \in m.jobs :
              i.id = j.id /\ i.source = j.source /\ StaysFit(j.target, i.target, R, B, O),
           n.retired \subseteq m.retired,
           fl2 \subseteq fl \/ FlushFits(n, fl2, R, B),
           \A w \in Workers : \/ wk2[w] = wk[w] \/ wk2[w] = NoWork
                              \/ MergeFits(wk2[w], B, N, O) /\ StepFits(n, wk2[w], R, B)
    PROVE  AllFits(n, fl2, wk2, R, B, N, O)
<1>0. /\ EntriesFit(m, R, B, O) /\ HeadsFit(m, R, N) /\ JobsFit(m, R) /\ LinesFit(m, R)
      /\ WorkFits(m, wk, R, B, N, O) /\ FlushFits(m, fl, R, B)
  BY DEF AllFits, LineageOK
<1>1. EntriesFit(n, R, B, O)
  <2>1. ASSUME NEW e \in Entries(n)
        PROVE  EntryFits(e, R, B, O) \/ \E d \in Entries(m) : Thinner(d, e)
    <3>1. CASE e \in n.tables
      BY <3>1 DEF StaysFit, Entries
    <3>2. CASE e \in {r.entry : r \in n.retired}
      <4>1. e \in Entries(m)
        BY <3>2 DEF Entries
      <4> QED
        BY <4>1 DEF Thinner
    <3>3. CASE e \in {i.target : i \in n.jobs}
      BY <3>3 DEF StaysFit, Entries
    <3> QED
      BY <3>1, <3>2, <3>3 DEF Entries
  <2> QED
    BY <1>0, <2>1, EntriesFrame
<1>2. HeadsFit(n, R, N)
  <2>1. ASSUME NEW e \in Heads(n)
        PROVE  \E d \in Heads(m) : e.id = d.id /\ e.next_field_id = d.next_field_id
    <3>1. CASE e \in n.tables
      BY <3>1 DEF StaysFit, Heads
    <3>2. CASE e \in {d.entry : d \in Dropped(n)}
      BY <3>2 DEF Heads, Dropped
    <3> QED
      BY <3>1, <3>2 DEF Heads
  <2>2. \A r \in n.retired : r \in m.retired
    OBVIOUS
  <2> QED
    BY <1>0, <2>1, <2>2, HeadsFrame
<1>3. JobsFit(n, R)
  <2>1. \A i \in n.jobs : \E j \in m.jobs : i.target.id = j.target.id /\ i.source = j.source
    BY DEF StaysFit
  <2> QED
    BY <1>0, <2>1, JobsFrame
<1>4. LinesFit(n, R)
  <2>1. \A t \in n.tables : \E u \in m.tables : t.id = u.id /\ t.name = u.name
    BY DEF StaysFit
  <2> QED
    BY <1>0, <2>1, LinesFrame
<1>5. WorkFits(n, wk2, R, B, N, O)
  <2>1. \A i \in n.jobs : \E j \in m.jobs :
           /\ i.id = j.id /\ i.target.id = j.target.id
           /\ i.target.next_field_id = j.target.next_field_id
    BY DEF StaysFit
  <2> QED
    BY <1>0, <2>1, WorkFitsFrame
<1>6. FlushFits(n, fl2, R, B)
  <2>1. CASE fl2 \subseteq fl
    <3>1. \A u \in n.tables : \/ \A p \in fl2 : p.table # u.name
                              \/ \E t \in m.tables :
                                   /\ u.name = t.name /\ u.id = t.id
                                   /\ u.next_field_id = t.next_field_id
      BY DEF StaysFit
    <3> QED
      BY <1>0, <2>1, <3>1, FlushFitsFrame
  <2> QED
    BY <2>1
<1> QED
  BY <1>1, <1>2, <1>3, <1>4, <1>5, <1>6 DEF AllFits, LineageOK

-----------------------------------------------------------------------------
(* The steps.                                                              *)

LineStep == LineageInv' /\ BatchesBorn'

(* Witnesses for the next state.                                           *)
LEMMA LineageNext ==
    ASSUME NEW R, NEW B, NEW N, NEW O, AllFits(manifest', flushing', work', R, B, N, O)
    PROVE  LineageInv'
  BY DEF LineageInv

(* The buffer loses batches, tables keep their schemas.                    *)
LEMMA BornFrame ==
    ASSUME BatchesBorn, pending' \union in_flight' \subseteq pending \union in_flight,
           \A u \in manifest'.tables : \E t \in manifest.tables :
              u.name = t.name /\ u.schema = t.schema
    PROVE  BatchesBorn'
<1> SUFFICES ASSUME NEW b \in pending' \union in_flight', NEW u \in manifest'.tables,
                    u.name = b.table
             PROVE  BornAs(b, u.schema)
  BY DEF BatchesBorn
<1>1. PICK t \in manifest.tables : u.name = t.name /\ u.schema = t.schema
  OBVIOUS
<1>2. b \in pending \union in_flight
  OBVIOUS
<1> QED
  BY <1>1, <1>2 DEF BatchesBorn

(* A step that only takes away.                                            *)
LEMMA FewerLines ==
    ASSUME LineageInv, BatchesBorn,
           \A u \in manifest'.tables : \E t \in manifest.tables :
              SameColumns(t, u) /\ u.segments \subseteq t.segments,
           manifest'.jobs \subseteq manifest.jobs, manifest'.retired \subseteq manifest.retired,
           flushing' \subseteq flushing,
           \A w \in Workers : work'[w] = work[w] \/ work'[w] = NoWork,
           pending' \union in_flight' \subseteq pending \union in_flight
    PROVE  LineStep
<1>1. PICK R, B, N, O : AllFits(manifest, flushing, work, R, B, N, O)
  BY DEF LineageInv
<1>2. \A u \in manifest'.tables : \E t \in manifest.tables :
         u.name = t.name /\ StaysFit(t, u, R, B, O)
  BY DEF SameColumns, StaysFit, Thinner
<1>3. \A e : StaysFit(e, e, R, B, O)
  BY DEF StaysFit, Thinner
<1>4. \A i \in manifest'.jobs : \E j \in manifest.jobs :
         i.id = j.id /\ i.source = j.source /\ StaysFit(j.target, i.target, R, B, O)
  BY <1>3
<1>5. AllFits(manifest', flushing', work', R, B, N, O)
  BY <1>1, <1>2, <1>4, LinesKept
<1>6. \A u \in manifest'.tables : \E t \in manifest.tables :
         u.name = t.name /\ u.schema = t.schema
  BY DEF SameColumns
<1> QED
  BY <1>5, <1>6, LineageNext, BornFrame DEF LineStep

(* One that leaves the manifest alone.                                     *)
LEMMA SameLines ==
    ASSUME LineageInv, BatchesBorn, UNCHANGED manifest, flushing' \subseteq flushing,
           \A w \in Workers : work'[w] = work[w] \/ work'[w] = NoWork,
           pending' \union in_flight' \subseteq pending \union in_flight
    PROVE  LineStep
  BY FewerLines DEF SameColumns

(* gc and CANCEL.                                                          *)
LEMMA CancelLines ==
    ASSUME SafeInv, LineageInv, BatchesBorn, NEW j \in manifest.jobs, Cancel(j)
    PROVE  LineStep
<1>1. UNCHANGED <<next_id, buffer, work>>
  BY DEF Cancel
<1> QED
  BY <1>1, CancelTo, FewerLines DEF buffer, SameColumns

(* Definitions expire.                                                     *)
LEMMA ExpireLines ==
    ASSUME SafeInv, LineageInv, BatchesBorn, NEW expired \in SUBSET manifest.retired,
           Expire(expired)
    PROVE  LineStep
<1>1. UNCHANGED <<next_id, buffer, work>>
  BY DEF Expire
<1> QED
  BY <1>1, ExpireTo, FewerLines DEF buffer, SameColumns

(* Garbage is forgotten.                                                   *)
LEMMA ForgetLines ==
    ASSUME SafeInv, LineageInv, BatchesBorn, NEW ids, Forget(ids)
    PROVE  LineStep
<1>1. UNCHANGED <<next_id, buffer, work>>
  BY DEF Forget
<1> QED
  BY <1>1, ForgetTo, FewerLines DEF buffer, SameColumns

(* TRUNCATE.                                                               *)
LEMMA TruncateLines ==
    ASSUME SafeInv, LineageInv, BatchesBorn, NEW nm, Truncate(nm)
    PROVE  LineStep
<1>1. PICK t \in manifest.tables : \E u :
         /\ ReplacedBy(t, u) /\ SameColumns(t, u)
         /\ u.segments = {} /\ u.tombstones = {}
  BY TruncateTo
<1>2. PICK u : ReplacedBy(t, u) /\ SameColumns(t, u) /\ u.segments = {}
  BY <1>1
<1>3. \A x \in manifest'.tables : \E z \in manifest.tables :
         SameColumns(z, x) /\ x.segments \subseteq z.segments
  BY <1>2 DEF ReplacedBy, SameColumns
<1>4. UNCHANGED <<next_id, buffer, work>>
  BY DEF Truncate
<1> QED
  BY <1>2, <1>3, <1>4, FewerLines DEF buffer, ReplacedBy

(* DELETE.                                                                 *)
LEMMA DeleteLines ==
    ASSUME SafeInv, LineageInv, BatchesBorn, NEW nm, NEW c, NEW kills, Delete(nm, c, kills)
    PROVE  LineStep
<1>1. PICK t \in manifest.tables : \E u, k :
         /\ CanAddTombstone(manifest, t, c)
         /\ ReplacedBy(t, u) /\ SameColumns(t, u)
         /\ u.segments = t.segments /\ u.tombstones = t.tombstones \union {k}
         /\ IsTombstone(k) /\ k.col = c /\ k.fid = FieldNamed(t.schema, c).fid
         /\ k.birth = FieldNamed(t.schema, c).birth
  BY DeleteTo
<1>2. PICK u : ReplacedBy(t, u) /\ SameColumns(t, u) /\ u.segments = t.segments
  BY <1>1
<1>3. \A x \in manifest'.tables : \E z \in manifest.tables :
         SameColumns(z, x) /\ x.segments \subseteq z.segments
  BY <1>2 DEF ReplacedBy, SameColumns
<1>4. UNCHANGED <<next_id, buffer, work>>
  BY DEF Delete
<1> QED
  BY <1>2, <1>3, <1>4, FewerLines DEF buffer, ReplacedBy

(* The flusher takes the buffer, or gives it up.                           *)
LEMMA FlushTakeLines ==
    ASSUME LineageInv, BatchesBorn, FlushTake \/ FlushFail
    PROVE  LineStep
<1>1. /\ UNCHANGED manifest /\ UNCHANGED work
      /\ pending' \union in_flight' \subseteq pending \union in_flight
  BY DEF FlushTake, FlushFail
<1>2. flushing' \subseteq flushing
  BY DEF FlushTake, FlushFail, Idle
<1> QED
  BY <1>1, <1>2, SameLines

(* A worker gives up, the process dies, or nothing happens.                *)
LEMMA AbandonLines ==
    ASSUME LineageInv, BatchesBorn, NEW w \in Workers, Abandon(w)
    PROVE  LineStep
<1>1. UNCHANGED <<manifest, next_id, buffer>> /\ work' = [work EXCEPT ![w] = NoWork]
  BY DEF Abandon
<1>2. \A v \in Workers : work'[v] = work[v] \/ work'[v] = NoWork
  BY <1>1
<1> QED
  BY <1>1, <1>2, SameLines DEF buffer

(* A restart.                                                              *)
LEMMA ReopenLines ==
    ASSUME LineageInv, BatchesBorn, Reopen
    PROVE  LineStep
<1>1. /\ UNCHANGED manifest /\ pending' = {} /\ in_flight' = {} /\ flushing' = {}
      /\ work' = [w \in Workers |-> NoWork]
  BY DEF Reopen, Idle
<1> QED
  BY <1>1, SameLines

-----------------------------------------------------------------------------
(* Steps that write segments.                                              *)

(* Entries count their field ids in numbers.                               *)
LEMMA NextNat ==
    ASSUME ColumnsInv, NEW e \in Entries(manifest)
    PROVE  EntryOK(e) /\ e.next_field_id \in Nat
  BY DEF ColumnsInv, ColumnsOK, Entries, EntryOK, SchemaOK

(* What fits, read off for one table.                                      *)
LEMMA TableFits ==
    ASSUME NEW R, NEW B, NEW N, NEW O, AllFits(manifest, flushing, work, R, B, N, O),
           NEW t \in manifest.tables
    PROVE  /\ EntryFits(t, R, B, O) /\ N[R[t.id]] = t.next_field_id
           /\ Fits(t.schema, B[R[t.id]], t.next_field_id)
<1>1. t \in Entries(manifest) /\ t \in Heads(manifest)
  BY DEF Entries, Heads
<1> QED
  BY <1>1 DEF AllFits, LineageOK, EntriesFit, HeadsFit, EntryFits

(* New segment ids may go to any lineages, as F gives them.                *)
NewFor(F) ==
    /\ DOMAIN F \intersect SegIds(SegmentsIn(manifest)) = {}
    /\ \A w \in Workers : SpentBy(work[w]) \intersect DOMAIN F = {}
Given(F, O) == \A i \in DOMAIN F : O[i] = F[i]
LEMMA NewIds ==
    ASSUME Named, ColumnsInv, NEW R, NEW B, NEW N, NEW O,
           AllFits(manifest, flushing, work, R, B, N, O), NEW F, NewFor(F)
    PROVE  \E P : AllFits(manifest, flushing, work, R, B, N, P) /\ Given(F, P)
<1> DEFINE I == DOMAIN F
           D == I \union SegIds(SegmentsIn(manifest)) \union
                  UNION {SpentBy(work[w]) : w \in Workers}
           P == [i \in D |-> IF i \in I THEN F[i] ELSE O[i]]
<1>0. /\ I \intersect SegIds(SegmentsIn(manifest)) = {}
      /\ \A w \in Workers : SpentBy(work[w]) \intersect I = {}
  BY DEF NewFor
<1> HIDE DEF I
<1>1. \A i \in I : P[i] = F[i]
  OBVIOUS
<1>2. ASSUME NEW s \in SegmentsIn(manifest) PROVE P[s.id] = O[s.id]
  <2>1. s.id \in SegIds(SegmentsIn(manifest))
    BY DEF SegIds
  <2> QED
    BY <1>0, <2>1
<1>3. ASSUME NEW w \in Workers, NEW i \in SpentBy(work[w]) PROVE P[i] = O[i]
  <2>1. i \in D /\ i \notin I
    BY <1>0
  <2> HIDE DEF D
  <2> QED
    BY <2>1
<1> HIDE DEF P, D
<1>4. \A e \in Entries(manifest) : e.next_field_id \in Nat
  BY NextNat
<1>5. \A j \in manifest.jobs : \E t \in manifest.tables : t.id = j.source
  BY DEF Named, UniqueIn, Unique, JobsUnique
<1>6. \A e \in Entries(manifest) : SameBelow(B, B, R[e.id], e.next_field_id)
  BY DEF SameBelow
<1>7. AllFits(manifest, flushing, work, R, B, N, P)
  BY <1>2, <1>3, <1>4, <1>5, <1>6, Rebased
<1> QED
  BY <1>1, <1>7 DEF Given, I

(* A step on segments: the definitions are those there were.               *)
LEMMA StayedLines ==
    ASSUME BatchesBorn, NEW R, NEW B, NEW N, NEW O,
           AllFits(manifest, flushing, work, R, B, N, O),
           \A u \in manifest'.tables : \E t \in manifest.tables :
              SameColumns(t, u) /\ StaysFit(t, u, R, B, O),
           \A i \in manifest'.jobs : \E j \in manifest.jobs :
              i.id = j.id /\ i.source = j.source /\ StaysFit(j.target, i.target, R, B, O),
           manifest'.retired = manifest.retired,
           flushing' \subseteq flushing \/ FlushFits(manifest', flushing', R, B),
           \A w \in Workers :
              \/ work'[w] = work[w] \/ work'[w] = NoWork
              \/ MergeFits(work'[w], B, N, O) /\ StepFits(manifest', work'[w], R, B),
           pending' \union in_flight' \subseteq pending \union in_flight
    PROVE  LineStep
<1>1. \A u \in manifest'.tables : \E t \in manifest.tables :
         u.name = t.name /\ StaysFit(t, u, R, B, O)
  BY DEF SameColumns
<1>2. AllFits(manifest', flushing', work', R, B, N, O)
  BY <1>1, LinesKept
<1>3. \A u \in manifest'.tables : \E t \in manifest.tables :
         u.name = t.name /\ u.schema = t.schema
  BY DEF SameColumns
<1> QED
  BY <1>2, <1>3, LineageNext, BornFrame DEF LineStep

(* When the manifest does not change at all.                               *)
LEMMA PreparedLines ==
    ASSUME BatchesBorn, NEW R, NEW B, NEW N, NEW O,
           AllFits(manifest, flushing, work, R, B, N, O),
           UNCHANGED <<manifest, pending, in_flight>>,
           flushing' \subseteq flushing \/ FlushFits(manifest, flushing', R, B),
           \A w \in Workers :
              \/ work'[w] = work[w]
              \/ MergeFits(work'[w], B, N, O) /\ StepFits(manifest, work'[w], R, B)
    PROVE  LineStep
<1>1. \A e : StaysFit(e, e, R, B, O) /\ SameColumns(e, e)
  BY DEF StaysFit, Thinner, SameColumns
<1>2. /\ \A u \in manifest'.tables : \E t \in manifest.tables :
            SameColumns(t, u) /\ StaysFit(t, u, R, B, O)
      /\ \A i \in manifest'.jobs : \E j \in manifest.jobs :
            i.id = j.id /\ i.source = j.source /\ StaysFit(j.target, i.target, R, B, O)
  BY <1>1
<1> QED
  BY <1>2, StayedLines

(* A writer buffers a batch.                                               *)
LEMMA WriteLines ==
    ASSUME Named, ColumnsInv, LineageInv, BatchesBorn, NEW nm, NEW r, Write(nm, r)
    PROVE  LineStep
<1>1. PICK t \in manifest.tables :
         /\ t.name = nm
         /\ pending' = pending \union {[table |-> nm, row |-> r, cols |-> BatchCols(t.schema)]}
  BY DEF Write
<1>2. UNCHANGED <<manifest, in_flight, flushing, work>>
  BY DEF Write
<1>3. LineageInv'
  BY <1>2 DEF LineageInv
<1>4. ASSUME NEW b \in pending' \union in_flight', NEW u \in manifest.tables,
             u.name = b.table
      PROVE  BornAs(b, u.schema)
  <2>1. CASE b \in pending \union in_flight
    BY <1>4, <2>1 DEF BatchesBorn
  <2>2. CASE b = [table |-> nm, row |-> r, cols |-> BatchCols(t.schema)]
    <3>1. b.table = nm /\ b.cols = BatchCols(t.schema)
      BY <2>2
    <3>2. u = t
      BY <1>1, <1>4, <3>1 DEF Named, UniqueIn, Unique, TablesUnique
    <3>3. OneEach(t.schema)
      BY DEF ColumnsInv, ColumnsOK, EntryOK, SchemaOK
    <3>4. \A c \in BatchCols(t.schema) : \E f \in t.schema : c.col = f.col /\ c.birth = f.birth
      BY DEF BatchCols
    <3> QED
      BY <3>1, <3>2, <3>3, <3>4 DEF BornAs, OneEach
  <2> QED
    BY <1>1, <1>2, <2>1, <2>2
<1> QED
  BY <1>2, <1>3, <1>4 DEF LineStep, BatchesBorn

(* The flusher writes its segments.                                        *)
LEMMA FlushWriteLines ==
    ASSUME Named, LineageInv, BatchesBorn, FlushWrite
    PROVE  LineStep
<1>1. PICK R, B, N, O : AllFits(manifest, flushing, work, R, B, N, O)
  BY DEF LineageInv
<1> DEFINE names == {b.table : b \in in_flight}
<1>2. PICK next \in next_id + 1 .. MaxId + 1 :
        \E id \in [names -> next_id .. next - 1] :
           flushing' = {[table |-> t.name, seg |-> FlushedSegment(t, id[t.name])]
                          : t \in {t \in manifest.tables : t.name \in names}}
  BY DEF FlushWrite
<1>3. PICK id \in [names -> next_id .. next - 1] :
           flushing' = {[table |-> t.name, seg |-> FlushedSegment(t, id[t.name])]
                          : t \in {t \in manifest.tables : t.name \in names}}
  BY <1>2
<1>4. \A p \in flushing' : \E t \in manifest.tables :
         p = [table |-> t.name, seg |-> FlushedSegment(t, id[t.name])]
  BY <1>3
<1> HIDE DEF names
<1>5. ASSUME NEW p \in flushing', NEW u \in manifest.tables, u.name = p.table
      PROVE  Fits(p.seg.file, B[R[u.id]], u.next_field_id)
  <2>1. PICK t \in manifest.tables :
           p = [table |-> t.name, seg |-> FlushedSegment(t, id[t.name])]
    BY <1>4
  <2>2. p.table = t.name /\ p.seg = FlushedSegment(t, id[t.name])
    BY <2>1
  <2>3. t = u
    BY <1>5, <2>2 DEF Named, UniqueIn, Unique, TablesUnique
  <2> DEFINE T == {b \in in_flight : b.table = t.name}
  <2>4. p.seg.file = FileOf(t.schema, T)
    BY <2>2 DEF FlushedSegment
  <2>5. \A b \in T : BornAs(b, t.schema)
    BY DEF BatchesBorn
  <2>6. Fits(t.schema, B[R[t.id]], t.next_field_id)
    BY <1>1, TableFits
  <2> HIDE DEF T
  <2>7. Fits(FileOf(t.schema, T), B[R[t.id]], t.next_field_id)
    BY <2>5, <2>6, FileFits
  <2> QED
    BY <2>3, <2>4, <2>7
<1>6. FlushFits(manifest, flushing', R, B)
  BY <1>5 DEF FlushFits
<1>7. UNCHANGED <<manifest, pending, in_flight, work>>
  BY DEF FlushWrite
<1> QED
  BY <1>1, <1>6, <1>7, PreparedLines

(* A compaction writes its output.                                         *)
LEMMA CompactPrepareLines ==
    ASSUME SafeInv, Named, ColumnsInv, LineageInv, BatchesBorn, NEW w \in Workers, NEW nm,
           CompactPrepare(w, nm)
    PROVE  LineStep
<1>1. PICK R, B, N, O : AllFits(manifest, flushing, work, R, B, N, O)
  BY DEF LineageInv
<1>2. PICK t \in manifest.tables : \E inputs \in SUBSET t.segments :
         /\ Cardinality(inputs) >= CompactMinInputs
         /\ work' = [work EXCEPT ![w] =
              [kind |-> "merge", table |-> nm, removes |-> SegIds(inputs),
               adds |-> {MergedSegment(t, inputs, next_id)}]]
  BY DEF CompactPrepare
<1>3. PICK inputs \in SUBSET t.segments :
         /\ Cardinality(inputs) >= CompactMinInputs
         /\ work' = [work EXCEPT ![w] =
              [kind |-> "merge", table |-> nm, removes |-> SegIds(inputs),
               adds |-> {MergedSegment(t, inputs, next_id)}]]
  BY <1>2
<1> DEFINE x == [kind |-> "merge", table |-> nm, removes |-> SegIds(inputs),
                 adds |-> {MergedSegment(t, inputs, next_id)}]
<1>4. x.kind = "merge" /\ x.removes = SegIds(inputs)
      /\ x.adds = {MergedSegment(t, inputs, next_id)}
  OBVIOUS
<1>5. work' = [work EXCEPT ![w] = x]
  BY <1>3
<1> HIDE DEF x
<1>6. inputs # {}
  BY <1>3, FS_EmptySet, StoreAssumption DEF StoreAssumption
<1>7. ASSUME NEW i \in x.removes, NEW a \in x.adds
      PROVE  Fits(a.file, B[O[i]], N[O[i]])
  <2>1. PICK s \in inputs : s.id = i
    BY <1>4 DEF SegIds
  <2>2. EntryFits(t, R, B, O) /\ N[R[t.id]] = t.next_field_id
        /\ Fits(t.schema, B[R[t.id]], t.next_field_id)
    BY <1>1, TableFits
  <2>3. O[i] = R[t.id] /\ \A u \in inputs : Fits(u.file, B[R[t.id]], t.next_field_id)
    BY <2>1, <2>2 DEF EntryFits
  <2>4. t.next_field_id \in Nat
    BY NextNat DEF Entries
  <2>5. Fits(MergedFile(t.schema, inputs), B[R[t.id]], t.next_field_id)
    BY <2>2, <2>3, <2>4, MergedFits
  <2>6. a.file = MergedFile(t.schema, inputs)
    BY <1>4 DEF MergedSegment
  <2> QED
    BY <2>2, <2>3, <2>5, <2>6
<1>8. MergeFits(x, B, N, O) /\ StepFits(manifest, x, R, B)
  BY <1>4, <1>6, <1>7 DEF MergeFits, StepFits, SegIds
<1>9. \A v \in Workers : work'[v] = work[v] \/ work'[v] = x
  BY <1>5
<1>10. UNCHANGED <<manifest, pending, in_flight, flushing>>
  BY DEF CompactPrepare, buffer
<1> QED
  BY <1>1, <1>8, <1>9, <1>10, PreparedLines

(* A compaction's commit.                                                  *)
LEMMA CompactCommitLines ==
    ASSUME SafeInv, Named, StoredRows, ColumnsInv, LineageInv, BatchesBorn,
           NEW w \in Workers, CompactCommit(w)
    PROVE  LineStep
<1>1. PICK R, B, N, O : AllFits(manifest, flushing, work, R, B, N, O)
  BY DEF LineageInv
<1>2. PICK t \in manifest.tables : \E u :
         /\ ReplacedBy(t, u) /\ SameColumns(t, u)
         /\ u.segments = {s \in t.segments :
              s.id \notin work[w].removes} \union work[w].adds
         /\ u.tombstones = t.tombstones
         /\ work[w].removes \subseteq SegIds(t.segments)
  BY CompactCommitTo
<1>3. PICK u : /\ ReplacedBy(t, u) /\ SameColumns(t, u)
               /\ u.segments = {s \in t.segments :
                    s.id \notin work[w].removes} \union work[w].adds
               /\ work[w].removes \subseteq SegIds(t.segments)
  BY <1>2
<1>4. /\ work[w].kind = "merge" /\ UNCHANGED <<pending, in_flight, flushing>>
      /\ \A v \in Workers : work'[v] = work[v] \/ work'[v] = NoWork
  BY DEF CompactCommit, buffer
<1> DEFINE F == [i \in SegIds(work[w].adds) |-> R[t.id]]
<1>5. work[w].adds = WorkSegs(work[w])
  BY <1>4 DEF WorkSegs
<1>6. NewFor(F)
  BY <1>5, WorkerNew DEF NewFor
<1>7. \A O2 : Given(F, O2) => \A s \in work[w].adds : O2[s.id] = R[t.id]
  BY DEF Given, SegIds
<1> HIDE DEF F
<1>8. PICK P : AllFits(manifest, flushing, work, R, B, N, P) /\ Given(F, P)
  BY <1>1, <1>6, NewIds
<1>9. \A s \in work[w].adds : P[s.id] = R[t.id]
  BY <1>7, <1>8
<1>10. EntryFits(t, R, B, P) /\ N[R[t.id]] = t.next_field_id
  BY <1>8, TableFits
<1>11. \A a \in work[w].adds : Fits(a.file, B[R[t.id]], t.next_field_id)
  <2>1. MergeFits(work[w], B, N, P)
    BY <1>8 DEF AllFits, WorkFits
  <2>2. PICK i \in work[w].removes : \A a \in work[w].adds : Fits(a.file, B[P[i]], N[P[i]])
    BY <1>4, <2>1 DEF MergeFits
  <2>3. PICK s \in t.segments : s.id = i
    BY <1>3 DEF SegIds
  <2>4. P[i] = R[t.id]
    BY <1>10, <2>3 DEF EntryFits
  <2> QED
    BY <1>10, <2>2, <2>4
<1>12. EntryFits(u, R, B, P)
  <2>1. \A s \in u.segments :
           P[s.id] = R[t.id] /\ Fits(s.file, B[R[t.id]], t.next_field_id)
    BY <1>3, <1>9, <1>10, <1>11 DEF EntryFits
  <2> QED
    BY <1>3, <1>10, <2>1 DEF EntryFits, SameColumns
<1>13. \A e : StaysFit(e, e, R, B, P) /\ SameColumns(e, e)
  BY DEF StaysFit, Thinner, SameColumns
<1>14. StaysFit(t, u, R, B, P)
  BY <1>3, <1>12 DEF StaysFit, SameColumns
<1>15. \A y \in manifest'.tables : \E z \in manifest.tables :
          SameColumns(z, y) /\ StaysFit(z, y, R, B, P)
  BY <1>3, <1>13, <1>14 DEF ReplacedBy
<1>16. /\ \A i \in manifest'.jobs : \E j \in manifest.jobs :
             i.id = j.id /\ i.source = j.source /\ StaysFit(j.target, i.target, R, B, P)
       /\ manifest'.retired = manifest.retired
  BY <1>3, <1>13 DEF ReplacedBy
<1> QED
  BY <1>4, <1>8, <1>15, <1>16, StayedLines

(* A job step is prepared.                                                 *)
LEMMA JobPrepareLines ==
    ASSUME SafeInv, Named, ColumnsInv, BirthsInv, LineageInv, BatchesBorn,
           NEW w \in Workers, NEW j \in manifest.jobs, JobPrepare(w, j)
    PROVE  LineStep
<1>1. PICK R, B, N, O : AllFits(manifest, flushing, work, R, B, N, O)
  BY DEF LineageInv
<1>2. PICK t \in manifest.tables :
         /\ t.id = j.source
         /\ LET chosen == Chosen(Gap(t, j))
            IN  \/ \E next \in next_id + 1 .. MaxId + 1 :
                   \E id \in [chosen -> next_id .. next - 1] :
                     /\ work' = [work EXCEPT ![w] =
                          [kind |-> "advance", job |-> j.id, reused |-> {},
                           rewritten |-> SegIds(chosen),
                           segments |-> {RewrittenSegment(s, j.target.schema, id[s])
                                           : s \in chosen}]]
                \/ work' = [work EXCEPT ![w] =
                        [kind |-> "advance", job |-> j.id, reused |-> SegIds(chosen),
                         rewritten |-> {}, segments |-> {}]]
  BY DEF JobPrepare
<1> DEFINE chosen == Chosen(Gap(t, j))
<1>3. chosen \subseteq t.segments
  BY DEF Chosen, Gap
<1> HIDE DEF chosen
<1> DEFINE Written(s) ==
      \E u \in chosen : s.file = MergedFile(j.target.schema, {u})
<1> DEFINE Prepared == \E x : /\ work' = [work EXCEPT ![w] = x]
                              /\ x.kind = "advance" /\ x.job = j.id
                              /\ \A s \in x.segments : Written(s)
<1>4. Prepared
  <2>1. ASSUME NEW id, work' = [work EXCEPT ![w] =
                          [kind |-> "advance", job |-> j.id, reused |-> {},
                           rewritten |-> SegIds(chosen),
                           segments |-> {RewrittenSegment(s, j.target.schema, id[s])
                                           : s \in chosen}]]
        PROVE  Prepared
    <3> DEFINE segs == {RewrittenSegment(s, j.target.schema, id[s]) : s \in chosen}
               x == [kind |-> "advance", job |-> j.id, reused |-> {},
                     rewritten |-> SegIds(chosen), segments |-> segs]
    <3>1. \A s \in segs : Written(s)
      BY DEF RewrittenSegment
    <3>2. work' = [work EXCEPT ![w] = x]
      BY <2>1
    <3> HIDE DEF segs
    <3>3. x.kind = "advance" /\ x.job = j.id /\ x.segments = segs
      OBVIOUS
    <3> HIDE DEF x
    <3> QED
      BY <3>1, <3>2, <3>3
  <2>2. ASSUME work' = [work EXCEPT ![w] =
                        [kind |-> "advance", job |-> j.id, reused |-> SegIds(chosen),
                         rewritten |-> {}, segments |-> {}]]
        PROVE  Prepared
    <3> DEFINE x == [kind |-> "advance", job |-> j.id, reused |-> SegIds(chosen),
                     rewritten |-> {}, segments |-> {}]
    <3>1. work' = [work EXCEPT ![w] = x]
      BY <2>2
    <3>2. x.kind = "advance" /\ x.job = j.id /\ x.segments = {}
      OBVIOUS
    <3> HIDE DEF x
    <3> QED
      BY <3>1, <3>2
  <2> HIDE DEF Prepared
  <2> QED
    BY <1>2, <2>1, <2>2 DEF chosen
<1>5. PICK x : /\ work' = [work EXCEPT ![w] = x]
               /\ x.kind = "advance" /\ x.job = j.id
               /\ \A s \in x.segments : Written(s)
  BY <1>4
<1>6. ASSUME NEW i \in manifest.jobs, i.id = x.job, NEW s \in x.segments
      PROVE  Fits(s.file, B[R[i.target.id]], i.target.next_field_id)
  <2>1. i = j
    BY <1>5, <1>6 DEF Named, UniqueIn, Unique, JobsUnique
  <2>2. PICK u \in chosen : s.file = MergedFile(j.target.schema, {u})
    BY <1>5
  <2>3. EntryFits(t, R, B, O) /\ Fits(u.file, B[R[t.id]], t.next_field_id)
    BY <1>1, <1>3, TableFits DEF EntryFits
  <2>4. R[j.target.id] = R[t.id]
    BY <1>1, <1>2 DEF AllFits, LineageOK, JobsFit
  <2>5. j.target \in Entries(manifest) /\ t \in Entries(manifest)
    BY DEF Entries
  <2>6. Fits(j.target.schema, B[R[t.id]], j.target.next_field_id)
    BY <1>1, <2>4, <2>5 DEF AllFits, LineageOK, EntriesFit, EntryFits
  <2>7. t.next_field_id <= j.target.next_field_id
    BY <1>2 DEF BirthsInv, BirthsOK, Derived
  <2>8. t.next_field_id \in Nat /\ j.target.next_field_id \in Nat
    BY <2>5, NextNat
  <2>9. \A y \in {u} : Fits(y.file, B[R[t.id]], t.next_field_id)
    BY <2>3
  <2>10. Fits(MergedFile(j.target.schema, {u}), B[R[t.id]], j.target.next_field_id)
    BY <2>6, <2>7, <2>8, <2>9, MergedFits
  <2> QED
    BY <2>1, <2>2, <2>4, <2>10
<1>7. MergeFits(x, B, N, O) /\ StepFits(manifest, x, R, B)
  BY <1>5, <1>6 DEF MergeFits, StepFits
<1>8. \A v \in Workers : work'[v] = work[v] \/ work'[v] = x
  BY <1>5
<1>9. UNCHANGED <<manifest, pending, in_flight, flushing>>
  BY DEF JobPrepare, buffer
<1> QED
  BY <1>1, <1>7, <1>8, <1>9, PreparedLines

(* A job step's commit.                                                    *)
LEMMA JobAdvanceLines ==
    ASSUME SafeInv, Named, StoredRows, ColumnsInv, BirthsInv, LineageInv, BatchesBorn,
           NEW w \in Workers, JobAdvance(w)
    PROVE  LineStep
<1>1. PICK R, B, N, O : AllFits(manifest, flushing, work, R, B, N, O)
  BY DEF LineageInv
<1>2. PICK j \in manifest.jobs, t \in manifest.tables : \E k :
         /\ j.id = work[w].job /\ t.id = j.source
         /\ manifest'.tables = manifest.tables /\ manifest'.retired = manifest.retired
         /\ manifest'.jobs = (manifest.jobs \ {j}) \union {k}
         /\ k.id = j.id /\ k.source = j.source
         /\ SameColumns(j.target, k.target) /\ k.target.tombstones = j.target.tombstones
         /\ k.target.segments = j.target.segments \union
              Carried(t, j, work[w].reused) \union work[w].segments
  BY JobAdvanceTo
<1>3. PICK k :
         /\ manifest'.tables = manifest.tables /\ manifest'.retired = manifest.retired
         /\ manifest'.jobs = (manifest.jobs \ {j}) \union {k}
         /\ k.id = j.id /\ k.source = j.source /\ SameColumns(j.target, k.target)
         /\ k.target.segments = j.target.segments \union
              Carried(t, j, work[w].reused) \union work[w].segments
  BY <1>2
<1>4. /\ work[w].kind = "advance" /\ UNCHANGED <<pending, in_flight, flushing>>
      /\ \A v \in Workers : work'[v] = work[v] \/ work'[v] = NoWork
  BY DEF JobAdvance, buffer
<1> DEFINE F == [i \in SegIds(work[w].segments) |-> R[t.id]]
<1>5. work[w].segments = WorkSegs(work[w])
  BY <1>4 DEF WorkSegs
<1>6. NewFor(F)
  BY <1>5, WorkerNew DEF NewFor
<1>7. \A O2 : Given(F, O2) => \A s \in work[w].segments : O2[s.id] = R[t.id]
  BY DEF Given, SegIds
<1> HIDE DEF F
<1>8. PICK P : AllFits(manifest, flushing, work, R, B, N, P) /\ Given(F, P)
  BY <1>1, <1>6, NewIds
<1>9. \A s \in work[w].segments : P[s.id] = R[t.id]
  BY <1>7, <1>8
<1>10. R[j.target.id] = R[t.id]
  BY <1>2, <1>8 DEF AllFits, LineageOK, JobsFit
<1>11. j.target \in Entries(manifest) /\ t \in Entries(manifest)
  BY DEF Entries
<1>12. EntryFits(t, R, B, P) /\ EntryFits(j.target, R, B, P)
  BY <1>8, <1>11 DEF AllFits, LineageOK, EntriesFit
<1>13. /\ t.next_field_id \in Nat /\ j.target.next_field_id \in Nat
       /\ t.next_field_id <= j.target.next_field_id
  BY <1>2, <1>11, NextNat DEF BirthsInv, BirthsOK, Derived
<1>14. \A s \in Carried(t, j, work[w].reused) :
          P[s.id] = R[t.id] /\ Fits(s.file, B[R[t.id]], j.target.next_field_id)
  BY <1>12, <1>13, CarriedFits
<1>15. \A s \in work[w].segments :
          P[s.id] = R[t.id] /\ Fits(s.file, B[R[t.id]], j.target.next_field_id)
  <2>1. StepFits(manifest, work[w], R, B)
    BY <1>8 DEF AllFits, WorkFits
  <2> QED
    BY <1>2, <1>4, <1>9, <1>10, <2>1 DEF StepFits
<1>16. EntryFits(k.target, R, B, P)
  <2>1. \A s \in k.target.segments :
           P[s.id] = R[t.id] /\ Fits(s.file, B[R[t.id]], j.target.next_field_id)
    BY <1>3, <1>10, <1>12, <1>14, <1>15 DEF EntryFits
  <2> QED
    BY <1>3, <1>10, <1>12, <2>1 DEF EntryFits, SameColumns
<1>17. \A e : StaysFit(e, e, R, B, P) /\ SameColumns(e, e)
  BY DEF StaysFit, Thinner, SameColumns
<1>18. StaysFit(j.target, k.target, R, B, P)
  BY <1>3, <1>16 DEF StaysFit, SameColumns
<1>19. \A i \in manifest'.jobs : \E z \in manifest.jobs :
          i.id = z.id /\ i.source = z.source /\ StaysFit(z.target, i.target, R, B, P)
  BY <1>3, <1>17, <1>18
<1>20. \A y \in manifest'.tables : \E z \in manifest.tables :
          SameColumns(z, y) /\ StaysFit(z, y, R, B, P)
  BY <1>3, <1>17
<1> QED
  BY <1>3, <1>4, <1>8, <1>19, <1>20, StayedLines

(* A flush's commit.                                                       *)
LEMMA FlushCommitLines ==
    ASSUME SafeInv, Named, StoredRows, FlushRows, ColumnsInv, LineageInv, BatchesBorn,
           FlushCommit
    PROVE  LineStep
<1>1. PICK R, B, N, O : AllFits(manifest, flushing, work, R, B, N, O)
  BY DEF LineageInv
<1>2. /\ manifest'.tables = {Grown(t) : t \in manifest.tables}
      /\ manifest'.jobs = manifest.jobs /\ manifest'.retired = manifest.retired
      /\ \A t \in manifest.tables :
           /\ SameColumns(t, Grown(t)) /\ Grown(t).tombstones = t.tombstones
           /\ Grown(t).segments = t.segments \union FlushedInto(t)
  BY FlushCommitTo
<1>3. /\ pending' = pending /\ in_flight' = {} /\ flushing' = {} /\ work' = work
  BY DEF FlushCommit, Idle
<1> DEFINE To(i, t) == \E p \in flushing : p.seg.id = i /\ p.table = t.name
           F == [i \in FlushIds |-> R[(CHOOSE t \in manifest.tables : To(i, t)).id]]
<1>4. \A p \in flushing : IsSegment(p.seg) /\ p.seg.id \in FlushIds
                          /\ p.seg.id \notin SegIds(SegmentsIn(manifest))
  BY DEF SafeInv, Safe, Fresh, Used, FlushIds
<1>5. /\ FlushIds \intersect SegIds(SegmentsIn(manifest)) = {}
      /\ \A v \in Workers : SpentBy(work[v]) \intersect FlushIds = {}
  <2>1. \A i : Old(manifest, flushing, work, i) => i \notin FlushIds
    BY DEF Old, FlushIds
  <2>2. FlushIds \intersect SegIds(SegmentsIn(manifest)) = {}
    BY <1>4 DEF FlushIds
  <2> QED
    BY <2>1, <2>2 DEF StoredRows, Spent
<1>6. ASSUME NEW p \in flushing, NEW t \in manifest.tables, p.table = t.name
      PROVE  F[p.seg.id] = R[t.id]
  <2>1. To(p.seg.id, t)
    BY <1>6
  <2>2. \A u \in manifest.tables : To(p.seg.id, u) => u = t
    BY <1>6 DEF FlushRows, Named, UniqueIn, Unique, TablesUnique
  <2> HIDE DEF To
  <2>3. (CHOOSE u \in manifest.tables : To(p.seg.id, u)) = t
    BY <2>1, <2>2
  <2> QED
    BY <1>4, <2>3
<1>7. NewFor(F)
  BY <1>5 DEF NewFor
<1>8. \A O2, p : Given(F, O2) /\ p \in flushing => O2[p.seg.id] = F[p.seg.id]
  BY <1>4 DEF Given
<1> HIDE DEF F, To
<1>9. PICK P : AllFits(manifest, flushing, work, R, B, N, P) /\ Given(F, P)
  BY <1>1, <1>7, NewIds
<1>10. ASSUME NEW t \in manifest.tables
      PROVE  StaysFit(t, Grown(t), R, B, P)
  <2>1. EntryFits(t, R, B, P)
    BY <1>9, TableFits
  <2>2. SameColumns(t, Grown(t)) /\ Grown(t).segments = t.segments \union FlushedInto(t)
    BY <1>2
  <2>3. ASSUME NEW s \in FlushedInto(t)
        PROVE  P[s.id] = R[t.id] /\ Fits(s.file, B[R[t.id]], t.next_field_id)
    <3>1. PICK p \in flushing :
             p.table = t.name /\ s = [p.seg EXCEPT !.seq = manifest.version + 1]
      BY <1>4, FlushedKin
    <3>2. s.id = p.seg.id /\ s.file = p.seg.file
      BY <1>4, <3>1 DEF IsSegment
    <3>3. Fits(p.seg.file, B[R[t.id]], t.next_field_id)
      BY <1>9, <3>1 DEF AllFits, FlushFits
    <3> QED
      BY <1>6, <1>8, <1>9, <3>1, <3>2, <3>3
  <2>4. EntryFits(Grown(t), R, B, P)
    BY <2>1, <2>2, <2>3 DEF EntryFits, SameColumns
  <2> QED
    BY <2>2, <2>4 DEF StaysFit, SameColumns
<1>11. \A e : StaysFit(e, e, R, B, P)
  BY DEF StaysFit, Thinner
<1>12. \A y \in manifest'.tables : \E z \in manifest.tables :
          SameColumns(z, y) /\ StaysFit(z, y, R, B, P)
  BY <1>2, <1>10
<1>13. \A i \in manifest'.jobs : \E j \in manifest.jobs :
          i.id = j.id /\ i.source = j.source /\ StaysFit(j.target, i.target, R, B, P)
  BY <1>2, <1>11
<1> QED
  BY <1>2, <1>3, <1>9, <1>12, <1>13, StayedLines

-----------------------------------------------------------------------------
(* Job ids are handed out once: the counter k is kept by every edit but    *)
(* that of ALTER.                                                          *)
Counts(m, k) == "next_job_id" \in DOMAIN m /\ m.next_job_id = k

(* The two that others are made of, and the commit itself.                 *)
LEMMA ReplaceCounts ==
    ASSUME NEW m, NEW k, Counts(m, k), NEW t, NEW u
    PROVE  Counts(Replace(m, t, u), k)
  BY DEF Replace, Counts

(* Release changes the garbage list.                                       *)
LEMMA ReleaseCounts ==
    ASSUME NEW m, NEW k, Counts(m, k), NEW segs, NEW v
    PROVE  Counts(Release(m, segs, v), k)
  BY DEF Release, Counts

(* Edits of tables and jobs.                                               *)
LEMMA EditCounts ==
    ASSUME NEW m, NEW k, Counts(m, k)
    PROVE  /\ Counts(NextVersion(m), k)
           /\ \A t, segs : Counts(AddSegments(m, t, segs), k)
           /\ \A t, ids : Counts(RemoveSegments(m, t, ids), k)
           /\ \A t, j, reused, rewritten, segs :
                Counts(AdvanceJob(m, t, j, reused, rewritten, segs), k)
           /\ \A t, j : Counts(SwapJob(m, t, j), k)
<1>1. \A t, segs : Counts(AddSegments(m, t, segs), k)
  BY DEF AddSegments, Replace, Counts
<1>2. \A t, ids : Counts(RemoveSegments(m, t, ids), k)
  BY ReplaceCounts, ReleaseCounts DEF RemoveSegments
<1>3. \A t, j, reused, rewritten, segs :
         Counts(AdvanceJob(m, t, j, reused, rewritten, segs), k)
  BY DEF AdvanceJob, Counts
<1>4. \A t, j : Counts(SwapJob(m, t, j), k)
  BY DEF SwapJob, Counts
<1>5. Counts(NextVersion(m), k)
  BY DEF NextVersion, Counts
<1> QED
  BY <1>1, <1>2, <1>3, <1>4, <1>5

(* A commit of what an edit makes.                                         *)
LEMMA CommitCounts ==
    ASSUME NEW n, Counts(n, manifest.next_job_id), CommitTo(n)
    PROVE  manifest'.next_job_id = manifest.next_job_id
  BY EditCounts DEF CommitTo, Counts

SameCounter == manifest'.next_job_id = manifest.next_job_id

(* The steps of the table lifecycle.                                       *)
LEMMA TableCounts ==
    ASSUME SafeInv, NEW nm,
           \/ \E columns : Create(nm, columns)
           \/ Truncate(nm) \/ Revert(nm) \/ Drop(nm) \/ Undrop(nm)
           \/ \E c, kills : Delete(nm, c, kills)
    PROVE  SameCounter
<1> DEFINE k == manifest.next_job_id
<1>0. Counts(manifest, k)
  BY DEF SafeInv, Safe, IsManifest, Counts
<1>1. PICK n : CommitTo(n) /\ \/ \E columns : n = CreateTable(manifest, nm, columns)
                              \/ \E t : n = TruncateTable(manifest, t)
                              \/ \E r, cur : n = RevertTable(manifest, r, cur)
                              \/ \E t : n = DropTable(manifest, t)
                              \/ \E r : n = UndropTable(manifest, r)
                              \/ \E t, c, kills : n = AddTombstone(manifest, t, c, kills)
  BY DEF Create, Truncate, Revert, Drop, Undrop, Delete
<1>2. ASSUME NEW columns PROVE Counts(CreateTable(manifest, nm, columns), k)
  BY <1>0 DEF CreateTable, Counts
<1>3. ASSUME NEW t PROVE Counts(TruncateTable(manifest, t), k)
  BY <1>0, ReplaceCounts, ReleaseCounts DEF TruncateTable
<1>4. ASSUME NEW r, NEW cur PROVE Counts(RevertTable(manifest, r, cur), k)
  BY <1>0 DEF RevertTable, Counts
<1>5. ASSUME NEW t PROVE Counts(DropTable(manifest, t), k)
  BY <1>0 DEF DropTable, Counts
<1>6. ASSUME NEW r PROVE Counts(UndropTable(manifest, r), k)
  BY <1>0 DEF UndropTable, Counts
<1>7. ASSUME NEW t, NEW c, NEW kills PROVE Counts(AddTombstone(manifest, t, c, kills), k)
  BY <1>0, ReplaceCounts DEF AddTombstone
<1>8. Counts(n, k)
  BY <1>1, <1>2, <1>3, <1>4, <1>5, <1>6, <1>7
<1> QED
  BY <1>1, <1>8, CommitCounts DEF SameCounter

(* Those of workers, the flusher, jobs and gc.                             *)
LEMMA WorkCounts ==
    ASSUME SafeInv,
           \/ FlushCommit
           \/ \E w \in Workers : CompactCommit(w) \/ JobAdvance(w)
           \/ \E j \in manifest.jobs : JobSwap(j) \/ Cancel(j)
           \/ \E expired : Expire(expired)
           \/ \E ids : Forget(ids)
    PROVE  SameCounter
<1> DEFINE k == manifest.next_job_id
<1>0. Counts(manifest, k)
  BY DEF SafeInv, Safe, IsManifest, Counts
<1>1. CASE FlushCommit
  <2>1. CommitTo(AddFlushed)
    BY <1>1 DEF FlushCommit
  <2>2. Counts(AddFlushed, k)
    BY <1>0 DEF AddFlushed, Counts
  <2> QED
    BY <2>1, <2>2, CommitCounts DEF SameCounter
<1>2. ASSUME NEW w \in Workers, CompactCommit(w) PROVE SameCounter
  <2>1. PICK t, ids, u, adds : CommitTo(AddSegments(RemoveSegments(manifest, t, ids), u, adds))
    BY <1>2 DEF CompactCommit
  <2>2. Counts(RemoveSegments(manifest, t, ids), k)
    BY <1>0, EditCounts
  <2>3. Counts(AddSegments(RemoveSegments(manifest, t, ids), u, adds), k)
    BY <2>2, EditCounts
  <2> QED
    BY <2>1, <2>3, CommitCounts DEF SameCounter
<1>3. ASSUME NEW w \in Workers, JobAdvance(w) PROVE SameCounter
  <2>1. PICK t, j, x, y, z : CommitTo(AdvanceJob(manifest, t, j, x, y, z))
    BY <1>3 DEF JobAdvance
  <2>2. Counts(AdvanceJob(manifest, t, j, x, y, z), k)
    BY <1>0, EditCounts
  <2> QED
    BY <2>1, <2>2, CommitCounts DEF SameCounter
<1>4. ASSUME NEW j \in manifest.jobs, JobSwap(j) PROVE SameCounter
  <2>1. PICK t, x, i : CommitTo(SwapJob(AdvanceJob(manifest, t, j, x, {}, {}), t, i))
    BY <1>4 DEF JobSwap
  <2>2. Counts(AdvanceJob(manifest, t, j, x, {}, {}), k)
    BY <1>0, EditCounts
  <2>3. Counts(SwapJob(AdvanceJob(manifest, t, j, x, {}, {}), t, i), k)
    BY <2>2, EditCounts
  <2> QED
    BY <2>1, <2>3, CommitCounts DEF SameCounter
<1>5. ASSUME NEW j \in manifest.jobs, Cancel(j) PROVE SameCounter
  <2>1. CommitTo(Release([manifest EXCEPT !.jobs = @ \ {j}], j.target.segments,
                         manifest.version + 1))
    BY <1>5 DEF Cancel, CancelJob
  <2>2. Counts([manifest EXCEPT !.jobs = @ \ {j}], k)
    BY <1>0 DEF Counts
  <2>3. Counts(Release([manifest EXCEPT !.jobs = @ \ {j}], j.target.segments,
                       manifest.version + 1), k)
    BY <2>2, ReleaseCounts
  <2> QED
    BY <2>1, <2>3, CommitCounts DEF SameCounter
<1>6. ASSUME NEW expired, Expire(expired) PROVE SameCounter
  <2>1. PICK segs : CommitTo(Release([manifest EXCEPT !.retired = @ \ expired], segs,
                                     manifest.version + 1))
    BY <1>6 DEF Expire, ExpireRetired
  <2>2. Counts([manifest EXCEPT !.retired = @ \ expired], k)
    BY <1>0 DEF Counts
  <2>3. Counts(Release([manifest EXCEPT !.retired = @ \ expired], segs,
                       manifest.version + 1), k)
    BY <2>2, ReleaseCounts
  <2> QED
    BY <2>1, <2>3, CommitCounts DEF SameCounter
<1>7. ASSUME NEW ids, Forget(ids) PROVE SameCounter
  <2>1. CommitTo(ForgetGarbage(manifest, ids))
    BY <1>7 DEF Forget
  <2>2. Counts(ForgetGarbage(manifest, ids), k)
    BY <1>0 DEF ForgetGarbage, Counts
  <2> QED
    BY <2>1, <2>2, CommitCounts DEF SameCounter
<1> QED
  BY <1>1, <1>2, <1>3, <1>4, <1>5, <1>6, <1>7

(* ALTER hands out the next id.                                            *)
LEMMA AlterCounts ==
    ASSUME SafeInv, NEW nm, NEW ops, Alter(nm, ops)
    PROVE  manifest'.next_job_id = manifest.next_job_id + 1
<1>1. PICK t \in manifest.tables : CommitTo(CreateJob(manifest, t, ops))
  BY DEF Alter
<1> DEFINE n == CreateJob(manifest, t, ops)
<1>2. Counts(n, manifest.next_job_id + 1)
  BY DEF CreateJob, Counts, SafeInv, Safe, IsManifest
<1> HIDE DEF n
<1> QED
  BY <1>1, <1>2, EditCounts DEF CommitTo, Counts, n

(* The counter never goes back.                                            *)
LEMMA NextCounts ==
    ASSUME SafeInv, [Next]_vars
    PROVE  SameCounter \/ manifest'.next_job_id = manifest.next_job_id + 1
<1>1. ASSUME NEW n \in Names, NEW columns \in ColumnLists, Create(n, columns)
      PROVE  SameCounter
  BY <1>1, TableCounts
<1>2. ASSUME NEW n \in Names, Truncate(n) \/ Revert(n) \/ Drop(n) \/ Undrop(n)
      PROVE  SameCounter
  BY <1>2, TableCounts
<1>3. ASSUME NEW n \in Names, NEW c, NEW kills, Delete(n, c, kills)
      PROVE  SameCounter
  BY <1>3, TableCounts
<1>4. ASSUME NEW n \in Names, NEW r \in Rows, Write(n, r) PROVE SameCounter
  BY <1>4 DEF Write, SameCounter
<1>5. ASSUME NEW n \in Names, NEW w \in Workers, CompactPrepare(w, n)
      PROVE  SameCounter
  BY <1>5 DEF CompactPrepare, SameCounter
<1>6. ASSUME FlushTake \/ FlushWrite \/ FlushFail \/ Reopen \/ UNCHANGED vars
      PROVE  SameCounter
  BY <1>6 DEF FlushTake, FlushWrite, FlushFail, Reopen, vars, SameCounter
<1>7. ASSUME NEW w \in Workers, CompactCommit(w) \/ JobAdvance(w) PROVE SameCounter
  BY <1>7, WorkCounts
<1>8. ASSUME NEW w \in Workers, Abandon(w) PROVE SameCounter
  BY <1>8 DEF Abandon, SameCounter
<1>9. ASSUME NEW j \in manifest.jobs, JobSwap(j) \/ Cancel(j) PROVE SameCounter
  BY <1>9, WorkCounts
<1>10. ASSUME NEW j \in manifest.jobs, NEW w \in Workers, JobPrepare(w, j)
       PROVE  SameCounter
  BY <1>10 DEF JobPrepare, SameCounter
<1>11. ASSUME NEW expired, Expire(expired) PROVE SameCounter
  BY <1>11, WorkCounts
<1>12. ASSUME NEW ids, Forget(ids) PROVE SameCounter
  BY <1>12, WorkCounts
<1>13. CASE FlushCommit
  BY <1>13, WorkCounts
<1> QED
  BY <1>1, <1>2, <1>3, <1>4, <1>5, <1>6, <1>7, <1>8, <1>9, <1>10, <1>11, <1>12, <1>13,
     AlterCounts DEF Next

(* A worker keeps its work, gives it up, or takes a step of a job there is. *)
JobIs(x, k) == x.kind = "advance" => x.job \in Nat /\ x.job < k
LEMMA NextWork ==
    ASSUME Named, [Next]_vars, NEW v \in Workers
    PROVE  work'[v] = work[v] \/ JobIs(work'[v], manifest.next_job_id)
<1> DEFINE OK == work'[v] = work[v] \/ JobIs(work'[v], manifest.next_job_id)
<1>1. JobIs(NoWork, manifest.next_job_id)
  BY DEF NoWork, JobIs
<1>2. ASSUME UNCHANGED work PROVE OK
  BY <1>2
<1>3. ASSUME NEW w \in Workers, NEW x, work' = [work EXCEPT ![w] = x],
             JobIs(x, manifest.next_job_id)
      PROVE  OK
  BY <1>3
<1>4. ASSUME NEW n \in Names, NEW columns, Create(n, columns) PROVE UNCHANGED work
  BY <1>4 DEF Create
<1>5. ASSUME NEW n \in Names, Truncate(n) \/ Revert(n) \/ Drop(n) \/ Undrop(n)
      PROVE  UNCHANGED work
  BY <1>5 DEF Truncate, Revert, Drop, Undrop
<1>6. ASSUME NEW n \in Names, NEW c, NEW kills, Delete(n, c, kills) PROVE UNCHANGED work
  BY <1>6 DEF Delete
<1>7. ASSUME NEW n \in Names, NEW r, Write(n, r) PROVE UNCHANGED work
  BY <1>7 DEF Write
<1>8. ASSUME NEW n \in Names, NEW ops, Alter(n, ops) PROVE UNCHANGED work
  BY <1>8 DEF Alter
<1>9. ASSUME FlushTake \/ FlushWrite \/ FlushCommit \/ FlushFail \/ UNCHANGED vars
      PROVE  UNCHANGED work
  BY <1>9 DEF FlushTake, FlushWrite, FlushCommit, FlushFail, vars
<1>10. ASSUME NEW n, NEW w \in Workers, CompactPrepare(w, n) PROVE OK
  <2>1. PICK x : work' = [work EXCEPT ![w] = x] /\ x.kind = "merge"
    <3> DEFINE Sets(i, a) == [kind |-> "merge", table |-> n, removes |-> i, adds |-> a]
    <3>1. PICK i, a : work' = [work EXCEPT ![w] = Sets(i, a)]
      BY <1>10 DEF CompactPrepare
    <3>2. Sets(i, a).kind = "merge"
      OBVIOUS
    <3> HIDE DEF Sets
    <3> QED
      BY <3>1, <3>2
  <2>2. JobIs(x, manifest.next_job_id)
    BY <2>1 DEF JobIs
  <2> QED
    BY <1>3, <2>1, <2>2
<1>11. ASSUME NEW w \in Workers, CompactCommit(w) \/ JobAdvance(w) \/ Abandon(w)
       PROVE  OK
  <2>1. work' = [work EXCEPT ![w] = NoWork]
    BY <1>11 DEF CompactCommit, JobAdvance, Abandon
  <2> QED
    BY <1>1, <1>3, <2>1
<1>12. ASSUME NEW j, JobSwap(j) \/ Cancel(j) PROVE UNCHANGED work
  BY <1>12 DEF JobSwap, Cancel
<1>13. ASSUME NEW j \in manifest.jobs, NEW w \in Workers, JobPrepare(w, j) PROVE OK
  <2>1. PICK x : work' = [work EXCEPT ![w] = x] /\ x.kind = "advance" /\ x.job = j.id
    <3> DEFINE Sets(a, b, c) ==
          [kind |-> "advance", job |-> j.id, reused |-> a, rewritten |-> b, segments |-> c]
    <3>1. PICK a, b, c : work' = [work EXCEPT ![w] = Sets(a, b, c)]
      BY <1>13 DEF JobPrepare
    <3>2. Sets(a, b, c).kind = "advance" /\ Sets(a, b, c).job = j.id
      OBVIOUS
    <3> HIDE DEF Sets
    <3> QED
      BY <3>1, <3>2
  <2>2. JobIs(x, manifest.next_job_id)
    BY <2>1 DEF JobIs, Named, UniqueIn, Unique, JobsUnique
  <2> QED
    BY <1>3, <2>1, <2>2
<1>14. ASSUME NEW x, Expire(x) \/ Forget(x) PROVE UNCHANGED work
  BY <1>14 DEF Expire, Forget
<1>15. ASSUME Reopen PROVE OK
  BY <1>1, <1>15 DEF Reopen
<1> HIDE DEF OK
<1>16. OK
  BY <1>2, <1>4, <1>5, <1>6, <1>7, <1>8, <1>9, <1>10, <1>11, <1>12, <1>13, <1>14, <1>15
     DEF Next
<1> QED
  BY <1>16 DEF OK

(* So job ids that workers hold stay below the counter.                    *)
LEMMA NextKnown ==
    ASSUME SafeInv, Named, JobsKnown, [Next]_vars
    PROVE  JobsKnown'
<1>1. manifest.next_job_id \in Nat /\ manifest'.next_job_id \in Nat
      /\ manifest.next_job_id <= manifest'.next_job_id
  BY NextCounts DEF SafeInv, Safe, IsManifest, SameCounter
<1> SUFFICES ASSUME NEW v \in Workers, work'[v].kind = "advance"
             PROVE  work'[v].job \in Nat /\ work'[v].job < manifest'.next_job_id
  BY DEF JobsKnown
<1>2. work'[v].job \in Nat /\ work'[v].job < manifest.next_job_id
  BY NextWork DEF JobsKnown, JobIs
<1> QED
  BY <1>1, <1>2

-----------------------------------------------------------------------------
(* Steps that make or move definitions.                                    *)

(* No set has everything (Russell).                                        *)
LEMMA Outside ==
    ASSUME NEW S
    PROVE  \E x : x \notin S
<1> DEFINE x == {y \in S : y \notin y}
<1>1. x \notin S
  OBVIOUS
<1> QED
  BY <1>1

(* A lineage of its own for an id no definition has.                       *)
NoId(i) == \A e \in Entries(manifest) : e.id # i
Alone(R, i) == \A e \in Entries(manifest) : R[e.id] # R[i]
HasLine(i, C, k, O) ==
    \E R, B, N : /\ AllFits(manifest, flushing, work, R, B, N, O)
                /\ B[R[i]] = C /\ N[R[i]] = k /\ Alone(R, i)
LEMMA NewLineage ==
    ASSUME Named, ColumnsInv, NEW R, NEW B, NEW N, NEW O,
           AllFits(manifest, flushing, work, R, B, N, O),
           NEW i, NoId(i), NEW C, NEW k
    PROVE  HasLine(i, C, k, O)
<1> DEFINE I == {e.id : e \in Entries(manifest)}
           L == {R[e.id] : e \in Entries(manifest)} \union
                {O[s] : s \in UNION {SpentBy(work[w]) : w \in Workers}}
<1>1. PICK x : x \notin L
  BY Outside
<1> DEFINE R2 == [d \in I \union {i} |-> IF d = i THEN x ELSE R[d]]
           B2 == [l \in L \union {x} |-> IF l = x THEN C ELSE B[l]]
           N2 == [l \in L \union {x} |-> IF l = x THEN k ELSE N[l]]
<1>2. R2[i] = x /\ B2[x] = C /\ N2[x] = k
  <2> HIDE DEF I, L
  <2> QED
    OBVIOUS
<1>3. ASSUME NEW l \in L PROVE B2[l] = B[l] /\ N2[l] = N[l]
  <2> HIDE DEF L
  <2> QED
    BY <1>1, <1>3
<1>4. ASSUME NEW e \in Entries(manifest) PROVE R2[e.id] = R[e.id] /\ R[e.id] \in L
  <2>1. e.id \in I /\ e.id # i /\ R[e.id] \in L
    BY DEF NoId
  <2> HIDE DEF I, L
  <2> QED
    BY <2>1
<1>5. \A w \in Workers : \A s \in SpentBy(work[w]) : O[s] \in L
  OBVIOUS
<1> HIDE DEF R2, B2, N2, I, L
<1>6. \A e \in Entries(manifest) :
         /\ R2[e.id] = R[e.id] /\ N2[R[e.id]] = N[R[e.id]]
         /\ SameBelow(B, B2, R[e.id], e.next_field_id)
  BY <1>3, <1>4 DEF SameBelow
<1>7. \A w \in Workers : \A s \in SpentBy(work[w]) :
         /\ O[s] = O[s] /\ N2[O[s]] = N[O[s]]
         /\ B2[O[s]] = B[O[s]] \/ (N[O[s]] \in Nat /\ SameBelow(B, B2, O[s], N[O[s]]))
  BY <1>3, <1>5
<1>8. \A e \in Entries(manifest) : e.next_field_id \in Nat
  BY NextNat
<1>9. \A j \in manifest.jobs : \E t \in manifest.tables : t.id = j.source
  BY DEF Named, UniqueIn, Unique, JobsUnique
<1>10. AllFits(manifest, flushing, work, R2, B2, N2, O)
  BY <1>6, <1>7, <1>8, <1>9, Rebased
<1>11. Alone(R2, i)
  BY <1>1, <1>2, <1>4 DEF Alone
<1> QED
  BY <1>2, <1>10, <1>11 DEF HasLine

(* Nothing is buffered or written for a name no table has.                 *)
LEMMA NothingFor ==
    ASSUME FlushAccepted, NEW nm, ~HasTable(manifest, nm)
    PROVE  /\ \A b \in pending \union in_flight : b.table # nm
           /\ \A p \in flushing : p.table # nm
  BY DEF FlushAccepted, HasTable

(* CREATE TABLE.                                                           *)
LEMMA CreateLines ==
    ASSUME SafeInv, Named, ColumnsInv, FlushAccepted, LineageInv, BatchesBorn, NameUnused,
           NEW nm \in Names, NEW columns \in ColumnLists, Create(nm, columns)
    PROVE  LineStep
<1>1. PICK R0, B0, N0, O : AllFits(manifest, flushing, work, R0, B0, N0, O)
  BY DEF LineageInv
<1> DEFINE e == NewEntry(manifest.next_table_id, nm, columns)
           len == Len(columns)
           C == [i \in 1 .. len |-> manifest.next_table_id]
<1>2. /\ manifest'.tables = manifest.tables \union {e}
      /\ manifest'.jobs = manifest.jobs /\ manifest'.retired = manifest.retired
  BY CreateTo
<1>3. /\ pending' = pending /\ in_flight' = in_flight /\ flushing' = flushing /\ work' = work
      /\ ~HasTable(manifest, nm)
  BY DEF Create, CanCreateTable, buffer
<1>4. /\ e.id = manifest.next_table_id /\ e.name = nm /\ e.segments = {}
      /\ e.next_field_id = len + 1 /\ len \in Nat
  BY StatementAssumption DEF NewEntry
<1>5. Fits(e.schema, C, len + 1)
  <2>1. ASSUME NEW c \in e.schema
        PROVE  c.fid \in Nat /\ c.fid < len + 1 /\ C[c.fid] = c.birth
    <3>1. PICK i \in 1 .. len :
             c = [col |-> columns[i], fid |-> i, birth |-> manifest.next_table_id]
      BY DEF NewEntry
    <3>2. c.fid = i /\ c.birth = manifest.next_table_id
      BY <3>1
    <3>3. i \in Nat /\ i < len + 1
      BY <1>4
    <3> QED
      BY <3>2, <3>3
  <2> QED
    BY <2>1 DEF Fits
<1> HIDE DEF e, C, len
<1>6. NoId(e.id)
  <2>1. manifest.next_table_id \in Nat
    BY DEF SafeInv, Safe, IsManifest
  <2> QED
    BY <1>4, <2>1 DEF NoId, Entries, Named, UniqueIn, Unique, TablesUnique
<1>0. HasLine(e.id, C, len + 1, O)
  BY <1>1, <1>6, NewLineage
<1>7. PICK R, B, N :
         /\ AllFits(manifest, flushing, work, R, B, N, O)
         /\ B[R[e.id]] = C /\ N[R[e.id]] = len + 1
         /\ Alone(R, e.id)
  BY <1>0 DEF HasLine
<1>8. /\ EntriesFit(manifest, R, B, O) /\ HeadsFit(manifest, R, N) /\ JobsFit(manifest, R)
      /\ LinesFit(manifest, R) /\ WorkFits(manifest, work, R, B, N, O)
      /\ FlushFits(manifest, flushing, R, B)
  BY <1>7 DEF AllFits, LineageOK
<1>9. EntriesFit(manifest', R, B, O)
  <2>1. EntryFits(e, R, B, O)
    BY <1>4, <1>5, <1>7 DEF EntryFits
  <2>2. \A d \in Entries(manifest') : d = e \/ d \in Entries(manifest)
    BY <1>2 DEF Entries
  <2> QED
    BY <1>8, <2>1, <2>2 DEF EntriesFit
<1>10. HeadsFit(manifest', R, N)
  <2>1. \A d \in Heads(manifest') : d = e \/ d \in Heads(manifest)
    BY <1>2 DEF Heads, Dropped
  <2>2. \A d \in Heads(manifest) : d \in Entries(manifest)
    BY DEF Heads, Entries, Dropped
  <2>3. \A d \in Heads(manifest') : d.next_field_id = N[R[d.id]]
    BY <1>4, <1>7, <1>8, <2>1 DEF HeadsFit
  <2>4. \A c, d \in Heads(manifest') : R[c.id] = R[d.id] => c.id = d.id
    BY <1>7, <1>8, <2>1, <2>2 DEF HeadsFit, Alone
  <2> QED
    BY <1>2, <1>8, <2>3, <2>4 DEF HeadsFit
<1>11. JobsFit(manifest', R)
  BY <1>2, <1>8 DEF JobsFit
<1>12. LinesFit(manifest', R)
  <2>1. Swapped(manifest') = Swapped(manifest) /\ Dropped(manifest') = Dropped(manifest)
    BY <1>2 DEF Swapped, Dropped
  <2>2. \A r \in Swapped(manifest) : r.entry.name # e.name
    BY <1>4 DEF NameUnused
  <2> QED
    BY <1>2, <1>8, <2>1, <2>2 DEF LinesFit
<1>13. WorkFits(manifest', work', R, B, N, O)
  BY <1>2, <1>3, <1>8 DEF WorkFits, StepFits
<1>14. FlushFits(manifest', flushing', R, B)
  <2>1. \A p \in flushing : p.table # e.name
    BY <1>3, <1>4, NothingFor
  <2> QED
    BY <1>2, <1>3, <1>8, <2>1 DEF FlushFits
<1>15. AllFits(manifest', flushing', work', R, B, N, O)
  BY <1>9, <1>10, <1>11, <1>12, <1>13, <1>14 DEF AllFits, LineageOK
<1>16. BatchesBorn'
  <2>1. \A b \in pending \union in_flight : b.table # e.name
    BY <1>3, <1>4, NothingFor
  <2> QED
    BY <1>2, <1>3, <2>1 DEF BatchesBorn
<1> QED
  BY <1>15, <1>16, LineageNext DEF LineStep

(* DROP TABLE.                                                             *)
LEMMA DropLines ==
    ASSUME SafeInv, ColumnsInv, LineageInv, BatchesBorn, NEW nm, Drop(nm)
    PROVE  LineStep
<1>1. PICK R, B, N, O : AllFits(manifest, flushing, work, R, B, N, O)
  BY DEF LineageInv
<1>2. PICK t \in manifest.tables : \E d :
         /\ manifest'.tables = manifest.tables \ {t} /\ manifest'.jobs = manifest.jobs
         /\ manifest'.retired = manifest.retired \union {d}
         /\ d.entry = t /\ d.reason = "dropped"
  BY DropTo
<1>3. PICK d :
         /\ manifest'.tables = manifest.tables \ {t} /\ manifest'.jobs = manifest.jobs
         /\ manifest'.retired = manifest.retired \union {d}
         /\ d.entry = t /\ d.reason = "dropped"
  BY <1>2
<1>4. /\ pending' = pending /\ in_flight' = in_flight /\ flushing' = flushing /\ work' = work
  BY DEF Drop, buffer
<1>5. /\ EntriesFit(manifest, R, B, O) /\ HeadsFit(manifest, R, N) /\ JobsFit(manifest, R)
      /\ LinesFit(manifest, R) /\ WorkFits(manifest, work, R, B, N, O)
      /\ FlushFits(manifest, flushing, R, B)
  BY <1>1 DEF AllFits, LineageOK
<1>6. t \in Heads(manifest) /\ t.next_field_id \in Nat
  BY NextNat DEF Heads, Entries
<1>7. Swapped(manifest') = Swapped(manifest)
      /\ \A c \in Dropped(manifest') : c = d \/ c \in Dropped(manifest)
  BY <1>3 DEF Swapped, Dropped
<1>8. EntriesFit(manifest', R, B, O)
  <2>1. \A e \in Entries(manifest') : e \in Entries(manifest)
    BY <1>3 DEF Entries
  <2> QED
    BY <1>5, <2>1 DEF EntriesFit
<1>9. HeadsFit(manifest', R, N)
  <2>1. \A e \in Heads(manifest') : e \in Heads(manifest)
    BY <1>3, <1>7 DEF Heads
  <2>4. \A e \in Heads(manifest') : e.next_field_id = N[R[e.id]]
    BY <1>5, <2>1 DEF HeadsFit
  <2>5. \A c, e \in Heads(manifest') : R[c.id] = R[e.id] => c.id = e.id
    BY <1>5, <2>1 DEF HeadsFit
  <2>6. t.next_field_id <= N[R[t.id]]
    BY <1>5, <1>6 DEF HeadsFit
  <2>7. \A r \in manifest'.retired : r.entry.next_field_id <= N[R[r.entry.id]]
    BY <1>3, <1>5, <2>6 DEF HeadsFit
  <2> QED
    BY <2>4, <2>5, <2>7 DEF HeadsFit
<1>10. JobsFit(manifest', R) /\ WorkFits(manifest', work', R, B, N, O)
  BY <1>3, <1>4, <1>5 DEF JobsFit, WorkFits, StepFits
<1>11. LinesFit(manifest', R)
  BY <1>3, <1>5, <1>7 DEF LinesFit
<1>12. FlushFits(manifest', flushing', R, B)
  BY <1>3, <1>4, <1>5 DEF FlushFits
<1>13. AllFits(manifest', flushing', work', R, B, N, O)
  BY <1>8, <1>9, <1>10, <1>11, <1>12 DEF AllFits, LineageOK
<1>14. BatchesBorn'
  BY <1>3, <1>4 DEF BatchesBorn
<1> QED
  BY <1>13, <1>14, LineageNext DEF LineStep

(* The definition a name would come back to goes back to the same ones.    *)
LEMMA UndropLine ==
    ASSUME ManifestOrder(manifest), NEW R, LinesFit(manifest, R),
           NEW d \in manifest.retired, CanUndropTable(manifest, d),
           NEW r \in Swapped(manifest), r.entry.name = d.entry.name
    PROVE  R[d.entry.id] = R[r.entry.id]
<1>1. d \in Dropped(manifest)
  BY DEF Dropped, CanUndropTable, LastRetired
<1>2. Superseded(manifest, r) /\ ~HasTable(manifest, r.entry.name)
  BY DEF ManifestOrder, SwapOrder, CanUndropTable
<1>3. PICK c \in Dropped(manifest) : c.entry.name = r.entry.name /\ r.version < c.version
  BY <1>2 DEF Superseded
<1>4. c.version <= d.version
  BY <1>3 DEF Dropped, CanUndropTable, LastRetired
<1>5. r.version \in Nat /\ c.version \in Nat /\ d.version \in Nat
  BY <1>1, <1>3 DEF ManifestOrder, Past, Swapped, Dropped
<1>6. r.version < d.version
  BY <1>3, <1>4, <1>5
<1> QED
  BY <1>1, <1>6 DEF LinesFit

(* UNDROP TABLE.                                                           *)
LEMMA UndropLines ==
    ASSUME SafeInv, ColumnsInv, ManifestOrder(manifest), FlushAccepted, LineageInv,
           BatchesBorn, NEW nm, Undrop(nm)
    PROVE  LineStep
<1>1. PICK R, B, N, O : AllFits(manifest, flushing, work, R, B, N, O)
  BY DEF LineageInv
<1>2. PICK d \in manifest.retired :
         /\ CanUndropTable(manifest, d)
         /\ manifest'.tables = manifest.tables \union {d.entry}
         /\ manifest'.jobs = manifest.jobs /\ manifest'.retired = manifest.retired \ {d}
  BY UndropTo
<1>3. /\ pending' = pending /\ in_flight' = in_flight /\ flushing' = flushing /\ work' = work
  BY DEF Undrop, buffer
<1>4. /\ EntriesFit(manifest, R, B, O) /\ HeadsFit(manifest, R, N) /\ JobsFit(manifest, R)
      /\ LinesFit(manifest, R) /\ WorkFits(manifest, work, R, B, N, O)
      /\ FlushFits(manifest, flushing, R, B)
  BY <1>1 DEF AllFits, LineageOK
<1>5. d \in Dropped(manifest) /\ d.entry \in Heads(manifest)
      /\ ~HasTable(manifest, d.entry.name)
  BY <1>2 DEF Heads, Dropped, CanUndropTable, LastRetired
<1>6. /\ Swapped(manifest') \subseteq Swapped(manifest)
      /\ Dropped(manifest') \subseteq Dropped(manifest)
  BY <1>2 DEF Swapped, Dropped
<1>7. EntriesFit(manifest', R, B, O)
  <2>1. \A e \in Entries(manifest') : e \in Entries(manifest)
    BY <1>2 DEF Entries
  <2> QED
    BY <1>4, <2>1 DEF EntriesFit
<1>8. HeadsFit(manifest', R, N)
  <2>1. \A e \in Heads(manifest') : e \in Heads(manifest)
    BY <1>2, <1>5, <1>6 DEF Heads
  <2> QED
    BY <1>2, <1>4, <2>1 DEF HeadsFit
<1>9. JobsFit(manifest', R) /\ WorkFits(manifest', work', R, B, N, O)
  BY <1>2, <1>3, <1>4 DEF JobsFit, WorkFits, StepFits
<1>10. LinesFit(manifest', R)
  <2>1. \A r \in Swapped(manifest) :
           d.entry.name = r.entry.name => R[d.entry.id] = R[r.entry.id]
    BY <1>2, <1>4, UndropLine
  <2> QED
    BY <1>2, <1>4, <1>6, <2>1 DEF LinesFit
<1>11. FlushFits(manifest', flushing', R, B)
  <2>1. \A p \in flushing : p.table # d.entry.name
    BY <1>5, NothingFor
  <2> QED
    BY <1>2, <1>3, <1>4, <2>1 DEF FlushFits
<1>12. AllFits(manifest', flushing', work', R, B, N, O)
  BY <1>7, <1>8, <1>9, <1>10, <1>11 DEF AllFits, LineageOK
<1>13. BatchesBorn'
  <2>1. \A b \in pending \union in_flight : b.table # d.entry.name
    BY <1>5, NothingFor
  <2> QED
    BY <1>2, <1>3, <2>1 DEF BatchesBorn
<1> QED
  BY <1>12, <1>13, LineageNext DEF LineStep

-----------------------------------------------------------------------------
(* The steps of a migration job and its way back.                          *)

(* The lineage of a table nothing else is being made of: what is in it has *)
(* no field id the table has not given.                                    *)
LEMMA LineBelow ==
    ASSUME Named, ColumnsInv, NEW R, NEW B, NEW N, NEW O,
           AllFits(manifest, flushing, work, R, B, N, O),
           NEW t \in manifest.tables, ~JobRunning(manifest, t),
           NEW e \in Entries(manifest), R[e.id] = R[t.id]
    PROVE  e.next_field_id <= t.next_field_id
<1>1. HeadsFit(manifest, R, N) /\ JobsFit(manifest, R)
  BY DEF AllFits, LineageOK
<1>2. t \in Heads(manifest) /\ N[R[t.id]] = t.next_field_id
  BY TableFits DEF Heads
<1>3. t.next_field_id \in Nat
  BY NextNat DEF Entries
<1>4. CASE e \in manifest.tables
  <2>1. e.next_field_id = t.next_field_id
    BY <1>1, <1>2, <1>4 DEF HeadsFit, Heads
  <2> QED
    BY <1>3, <2>1
<1>5. CASE e \in {r.entry : r \in manifest.retired}
  BY <1>1, <1>2, <1>5 DEF HeadsFit
<1>6. CASE e \in {j.target : j \in manifest.jobs}
  <2>1. PICK j \in manifest.jobs : e = j.target
    BY <1>6
  <2>2. PICK z \in manifest.tables : z.id = j.source
    BY DEF Named, UniqueIn, Unique, JobsUnique
  <2>3. z.id = t.id
    BY <1>1, <1>2, <2>1, <2>2 DEF HeadsFit, JobsFit, Heads
  <2> QED
    BY <2>1, <2>2, <2>3 DEF JobRunning
<1> QED
  BY <1>4, <1>5, <1>6 DEF Entries

(* The columns of a definition made by ALTER, after those of its source.   *)
LEMMA DerivedFits ==
    ASSUME NEW t, NEW e, EntryOK(e), Derived(t, e),
           NEW b, Fits(t.schema, b, t.next_field_id),
           NEW c, \A i \in Nat : i < t.next_field_id => c[i] = b[i],
           \A g \in e.schema : t.next_field_id <= g.fid => c[g.fid] = g.birth
    PROVE  Fits(e.schema, c, e.next_field_id)
<1> SUFFICES ASSUME NEW g \in e.schema
             PROVE  g.fid \in Nat /\ g.fid < e.next_field_id /\ c[g.fid] = g.birth
  BY DEF Fits
<1>1. g.fid \in Nat /\ g.fid < e.next_field_id
  BY DEF EntryOK, SchemaOK, Below
<1>2. CASE t.next_field_id <= g.fid
  BY <1>1, <1>2
<1>3. CASE ~(t.next_field_id <= g.fid)
  <2>1. PICK f \in t.schema : f.fid = g.fid
    BY <1>3 DEF Derived, Fids
  <2>2. f.birth = g.birth /\ f.fid \in Nat /\ f.fid < t.next_field_id /\ b[f.fid] = f.birth
    BY <2>1 DEF Derived, Agree, Fits
  <2> QED
    BY <1>1, <2>1, <2>2
<1> QED
  BY <1>2, <1>3

(* A target goes in the lineage of its source.                             *)
HasTarget(t, e, O) ==
    \E R, B, N : /\ AllFits(manifest, flushing, work, R, B, N, O)
                 /\ R[e.id] = R[t.id] /\ Fits(e.schema, B[R[e.id]], e.next_field_id)
LEMMA TargetLine ==
    ASSUME Named, ColumnsInv, NEW R, NEW B, NEW N, NEW O,
           AllFits(manifest, flushing, work, R, B, N, O),
           NEW t \in manifest.tables, ~JobRunning(manifest, t),
           NEW e, NoId(e.id), EntryOK(e), Derived(t, e)
    PROVE  HasTarget(t, e, O)
<1> DEFINE l == R[t.id]
           n == t.next_field_id
           i == e.id
           I == {d.id : d \in Entries(manifest)}
           L == {R[d.id] : d \in Entries(manifest)} \union
                {O[s] : s \in UNION {SpentBy(work[w]) : w \in Workers}}
           C == [k \in Nat |-> IF k < n THEN B[l][k]
                               ELSE (CHOOSE g \in e.schema : g.fid = k).birth]
           R2 == [d \in I \union {i} |-> IF d = i THEN l ELSE R[d]]
           B2 == [x \in L |-> IF x = l THEN C ELSE B[x]]
<1>1. t \in Entries(manifest) /\ n \in Nat /\ N[l] = n /\ Fits(t.schema, B[l], n)
  BY TableFits, NextNat DEF Entries
<1>2. l \in L
  BY <1>1
<1>3. R2[i] = l /\ B2[l] = C
  <2> HIDE DEF I, L, C, l
  <2> QED
    BY <1>2
<1>4. \A k \in Nat : k < n => C[k] = B[l][k]
  OBVIOUS
<1>5. ASSUME NEW g \in e.schema, n <= g.fid PROVE C[g.fid] = g.birth
  <2>1. g.fid \in Nat /\ OneEach(e.schema)
    BY DEF EntryOK, SchemaOK, Below
  <2>2. (CHOOSE h \in e.schema : h.fid = g.fid) = g
    BY <2>1, NamedField
  <2>3. ~(g.fid < n)
    BY <1>1, <1>5, <2>1
  <2> QED
    BY <2>1, <2>2, <2>3
<1>6. ASSUME NEW x \in L PROVE B2[x] = IF x = l THEN C ELSE B[x]
  <2> HIDE DEF L, C, l
  <2> QED
    OBVIOUS
<1>7. ASSUME NEW d \in Entries(manifest) PROVE R2[d.id] = R[d.id] /\ R[d.id] \in L
  <2>1. d.id \in I /\ d.id # i /\ R[d.id] \in L
    BY DEF NoId
  <2> HIDE DEF I, L, l, i
  <2> QED
    BY <2>1
<1>8. \A w \in Workers : \A s \in SpentBy(work[w]) : O[s] \in L
  OBVIOUS
<1>9. t.id \in I /\ R2[t.id] = l
  <2>1. t.id \in I
    BY <1>1
  <2> QED
    BY <1>1, <1>7, <2>1
<1> HIDE DEF R2, B2, I, L, C
<1>10. ASSUME NEW d \in Entries(manifest)
       PROVE  SameBelow(B, B2, R[d.id], d.next_field_id)
  <2>1. d.next_field_id \in Nat
    BY NextNat
  <2>2. CASE R[d.id] = l
    <3>1. d.next_field_id <= n
      BY <2>2, LineBelow
    <3>2. \A k \in Nat : k < d.next_field_id => k < n
      BY <1>1, <2>1, <3>1
    <3> QED
      BY <1>3, <1>4, <2>2, <3>2 DEF SameBelow
  <2>3. CASE R[d.id] # l
    BY <1>6, <1>7, <2>3 DEF SameBelow
  <2> QED
    BY <2>2, <2>3
<1>11. \A d \in Entries(manifest) :
          /\ R2[d.id] = R[d.id] /\ N[R[d.id]] = N[R[d.id]]
          /\ SameBelow(B, B2, R[d.id], d.next_field_id)
  BY <1>7, <1>10
<1>12. ASSUME NEW w \in Workers, NEW s \in SpentBy(work[w])
       PROVE  /\ O[s] = O[s] /\ N[O[s]] = N[O[s]]
              /\ B2[O[s]] = B[O[s]] \/ (N[O[s]] \in Nat /\ SameBelow(B, B2, O[s], N[O[s]]))
  <2>1. CASE O[s] = l
    BY <1>1, <1>3, <1>4, <2>1 DEF SameBelow
  <2>2. CASE O[s] # l
    BY <1>6, <1>8, <2>2
  <2> QED
    BY <2>1, <2>2
<1>13. \A d \in Entries(manifest) : d.next_field_id \in Nat
  BY NextNat
<1>14. \A j \in manifest.jobs : \E z \in manifest.tables : z.id = j.source
  BY DEF Named, UniqueIn, Unique, JobsUnique
<1>15. AllFits(manifest, flushing, work, R2, B2, N, O)
  BY <1>11, <1>12, <1>13, <1>14, Rebased
<1>16. Fits(e.schema, C, e.next_field_id)
  BY <1>1, <1>4, <1>5, DerivedFits
<1> QED
  BY <1>3, <1>9, <1>15, <1>16 DEF HasTarget

(* ALTER TABLE.                                                            *)
LEMMA AlterLines ==
    ASSUME SafeInv, Named, ColumnsInv, JobsKnown, LineageInv, BatchesBorn,
           NEW nm, NEW ops \in AlterOps, Alter(nm, ops)
    PROVE  LineStep
<1>1. PICK R0, B0, N0, O : AllFits(manifest, flushing, work, R0, B0, N0, O)
  BY DEF LineageInv
<1>2. PICK t \in manifest.tables :
         /\ CanCreateJob(manifest, t, ops)
         /\ manifest'.jobs = manifest.jobs \union {NewJob(manifest, t, ops)}
         /\ manifest'.tables = manifest.tables /\ manifest'.retired = manifest.retired
  BY AlterTo
<1>3. UNCHANGED <<pending, in_flight, flushing, work>>
  BY DEF Alter, buffer
<1> DEFINE p == PlanAlter(t, manifest.next_table_id, ops)[Len(ops)]
           j == NewJob(manifest, t, ops)
           e == j.target
<1>4. Len(ops) \in Nat /\ \A i \in 1 .. Len(ops) : ops[i].op \in Clauses
  BY StatementAssumption DEF Clauses
<1>5. SchemaOK(t.schema, t.next_field_id) /\ KillsNamed(t.tombstones, t.schema)
  BY DEF ColumnsInv, ColumnsOK, EntryOK
<1>6. PlanOK(t, p)
  BY <1>2, <1>4, <1>5, PlanKeeps
<1>7. /\ j.id = manifest.next_job_id /\ j.source = t.id
      /\ e.id = manifest.next_table_id /\ e.schema = p.schema
      /\ e.next_field_id = p.next_field_id /\ e.segments = {} /\ e.tombstones = {}
  BY DEF NewJob
<1>8. j \in manifest'.jobs /\ manifest'.jobs = manifest.jobs \union {j}
  BY <1>2
<1> HIDE DEF p, j
<1>9. EntryOK(e) /\ Derived(t, e)
  BY <1>6, <1>7 DEF PlanOK, EntryOK, KillsNamed, Derived
<1>10. NoId(e.id)
  <2>1. manifest.next_table_id \in Nat
    BY DEF SafeInv, Safe, IsManifest
  <2> QED
    BY <1>7, <2>1 DEF NoId, Entries, Named, UniqueIn, Unique, TablesUnique
<1>11. ~JobRunning(manifest, t)
  BY <1>2 DEF CanCreateJob
<1>12. HasTarget(t, e, O)
  BY <1>1, <1>9, <1>10, <1>11, TargetLine
<1>13. PICK R, B, N :
          /\ AllFits(manifest, flushing, work, R, B, N, O)
          /\ R[e.id] = R[t.id] /\ Fits(e.schema, B[R[e.id]], e.next_field_id)
  BY <1>12 DEF HasTarget
<1>14. /\ EntriesFit(manifest, R, B, O) /\ HeadsFit(manifest, R, N) /\ JobsFit(manifest, R)
       /\ LinesFit(manifest, R) /\ WorkFits(manifest, work, R, B, N, O)
       /\ FlushFits(manifest, flushing, R, B)
  BY <1>13 DEF AllFits, LineageOK
<1>15. Swapped(manifest') = Swapped(manifest) /\ Dropped(manifest') = Dropped(manifest)
  BY <1>2 DEF Swapped, Dropped
<1>16. EntriesFit(manifest', R, B, O)
  <2>1. EntryFits(e, R, B, O)
    BY <1>7, <1>13 DEF EntryFits
  <2>2. \A d \in Entries(manifest') : d = e \/ d \in Entries(manifest)
    BY <1>2, <1>8 DEF Entries
  <2> QED
    BY <1>14, <2>1, <2>2 DEF EntriesFit
<1>17. HeadsFit(manifest', R, N)
  <2>1. Heads(manifest') = Heads(manifest)
    BY <1>2, <1>15 DEF Heads
  <2> QED
    BY <1>2, <1>14, <2>1 DEF HeadsFit
<1>18. JobsFit(manifest', R)
  BY <1>7, <1>8, <1>13, <1>14 DEF JobsFit
<1>19. LinesFit(manifest', R)
  BY <1>2, <1>14, <1>15 DEF LinesFit
<1>20. WorkFits(manifest', work', R, B, N, O)
  <2> SUFFICES ASSUME NEW w \in Workers
               PROVE  MergeFits(work[w], B, N, O) /\ StepFits(manifest', work[w], R, B)
    BY <1>3 DEF WorkFits
  <2>1. MergeFits(work[w], B, N, O) /\ StepFits(manifest, work[w], R, B)
    BY <1>14 DEF WorkFits
  <2>2. work[w].kind = "advance" => j.id # work[w].job
    <3>1. manifest.next_job_id \in Nat
      BY DEF SafeInv, Safe, IsManifest
    <3> QED
      BY <1>7, <3>1 DEF JobsKnown
  <2> QED
    BY <1>8, <2>1, <2>2 DEF StepFits
<1>21. FlushFits(manifest', flushing', R, B)
  BY <1>2, <1>3, <1>14 DEF FlushFits
<1>22. AllFits(manifest', flushing', work', R, B, N, O)
  BY <1>16, <1>17, <1>18, <1>19, <1>20, <1>21 DEF AllFits, LineageOK
<1>23. BatchesBorn'
  BY <1>2, <1>3 DEF BatchesBorn
<1> QED
  BY <1>22, <1>23, LineageNext DEF LineStep

(* A table of a lineage takes over from its head t.                        *)
TakesOver(t, u, R) ==
    /\ manifest'.tables = (manifest.tables \ {t}) \union {u}
    /\ manifest'.jobs \subseteq manifest.jobs
    /\ \A r \in manifest'.retired : r \in manifest.retired \/ r.entry = t
    /\ Dropped(manifest') = Dropped(manifest)
    /\ u.name = t.name /\ R[u.id] = R[t.id]
    /\ u.next_field_id \in Nat /\ t.next_field_id <= u.next_field_id
LEMMA TakesOverLines ==
    ASSUME Named, FlushRows, ColumnsInv, NEW R, NEW B, NEW N, NEW O,
           AllFits(manifest, flushing, work, R, B, N, O),
           NEW t \in manifest.tables, NEW u, TakesOver(t, u, R), EntryFits(u, R, B, O),
           LinesFit(manifest', R), ~BufferHolds(in_flight, t.name),
           UNCHANGED <<flushing, work>>
    PROVE  LineageInv'
<1> DEFINE l == R[t.id]
           k == u.next_field_id
           L == {R[d.id] : d \in Entries(manifest)} \union
                {O[s] : s \in UNION {SpentBy(work[w]) : w \in Workers}}
           N2 == [x \in L |-> IF x = l THEN k ELSE N[x]]
<1>0. /\ EntriesFit(manifest, R, B, O) /\ HeadsFit(manifest, R, N) /\ JobsFit(manifest, R)
      /\ WorkFits(manifest, work, R, B, N, O) /\ FlushFits(manifest, flushing, R, B)
  BY DEF AllFits, LineageOK
<1>1. t \in Entries(manifest) /\ t \in Heads(manifest)
      /\ t.next_field_id \in Nat /\ N[l] = t.next_field_id
  BY TableFits, NextNat DEF Entries, Heads
<1>2. k \in Nat /\ t.next_field_id <= k
  BY DEF TakesOver
<1>3. ASSUME NEW x \in L PROVE N2[x] = IF x = l THEN k ELSE N[x]
  <2> HIDE DEF L, k, l
  <2> QED
    OBVIOUS
<1>4. \A d \in Entries(manifest) : R[d.id] \in L
  OBVIOUS
<1>5. \A w \in Workers : \A s \in SpentBy(work[w]) : O[s] \in L
  OBVIOUS
<1> HIDE DEF N2, L
<1>6. /\ manifest'.tables = (manifest.tables \ {t}) \union {u}
      /\ manifest'.jobs \subseteq manifest.jobs
      /\ \A r \in manifest'.retired : r \in manifest.retired \/ r.entry = t
      /\ Dropped(manifest') = Dropped(manifest) /\ u.name = t.name /\ R[u.id] = l
  BY DEF TakesOver
<1>7. EntriesFit(manifest', R, B, O)
  <2>1. \A d \in Entries(manifest') : d = u \/ d \in Entries(manifest)
    BY <1>1, <1>6 DEF Entries
  <2> QED
    BY <1>0, <2>1 DEF EntriesFit
<1>8. HeadsFit(manifest', R, N2)
  <2>1. ASSUME NEW d \in Heads(manifest'), d # u
        PROVE  d \in Heads(manifest) /\ d \in Entries(manifest) /\ R[d.id] # l
    <3>1. d \in manifest.tables \ {t} \/ d \in {r.entry : r \in Dropped(manifest)}
      BY <1>6, <2>1 DEF Heads
    <3>2. d \in Heads(manifest) /\ d \in Entries(manifest)
      BY <3>1 DEF Heads, Entries, Dropped
    <3>3. d.id # t.id
      BY <3>1 DEF Named, UniqueIn, Unique, TablesUnique, Dropped
    <3> QED
      BY <1>0, <1>1, <3>2, <3>3 DEF HeadsFit
  <2>2. l \in L
    BY <1>1, <1>4
  <2>3. \A d \in Heads(manifest') : d.next_field_id = N2[R[d.id]]
    BY <1>0, <1>3, <1>4, <1>6, <2>1, <2>2 DEF HeadsFit
  <2>4. \A c, d \in Heads(manifest') : R[c.id] = R[d.id] => c.id = d.id
    BY <1>0, <1>6, <2>1 DEF HeadsFit
  <2>5. ASSUME NEW r \in manifest'.retired
        PROVE  r.entry.next_field_id <= N2[R[r.entry.id]]
    <3>1. r.entry \in Entries(manifest) /\ r.entry.next_field_id \in Nat
      BY <1>1, <1>6, NextNat DEF Entries
    <3>2. r.entry.next_field_id <= N[R[r.entry.id]]
      BY <1>0, <1>1, <1>6 DEF HeadsFit
    <3>3. CASE R[r.entry.id] = l
      BY <1>1, <1>2, <1>3, <2>2, <3>1, <3>2, <3>3
    <3>4. CASE R[r.entry.id] # l
      BY <1>3, <1>4, <3>1, <3>2, <3>4
    <3> QED
      BY <3>3, <3>4
  <2> QED
    BY <2>3, <2>4, <2>5 DEF HeadsFit
<1>9. JobsFit(manifest', R)
  BY <1>0, <1>6 DEF JobsFit
<1>10. WorkFits(manifest', work', R, B, N2, O)
  <2> SUFFICES ASSUME NEW w \in Workers
               PROVE  MergeFits(work[w], B, N2, O) /\ StepFits(manifest', work[w], R, B)
    BY DEF WorkFits
  <2>1. MergeFits(work[w], B, N, O) /\ StepFits(manifest, work[w], R, B)
    BY <1>0 DEF WorkFits
  <2>2. MergeFits(work[w], B, N2, O)
    <3> SUFFICES ASSUME work[w].kind = "merge"
                 PROVE  /\ work[w].removes # {}
                        /\ \A i \in work[w].removes, a \in work[w].adds :
                             Fits(a.file, B[O[i]], N2[O[i]])
      BY DEF MergeFits
    <3>1. /\ work[w].removes # {}
          /\ \A i \in work[w].removes, a \in work[w].adds : Fits(a.file, B[O[i]], N[O[i]])
      BY <2>1 DEF MergeFits
    <3>2. ASSUME NEW i \in work[w].removes, NEW a \in work[w].adds
          PROVE  Fits(a.file, B[O[i]], N2[O[i]])
      <4>1. O[i] \in L
        BY <1>5 DEF SpentBy
      <4>2. CASE O[i] = l
        BY <1>1, <1>2, <1>3, <3>1, <4>1, <4>2, FitsWider
      <4>3. CASE O[i] # l
        BY <1>3, <3>1, <4>1, <4>3
      <4> QED
        BY <4>2, <4>3
    <3> QED
      BY <3>1, <3>2
  <2>3. StepFits(manifest', work[w], R, B)
    BY <1>6, <2>1 DEF StepFits
  <2> QED
    BY <2>2, <2>3
<1>11. FlushFits(manifest', flushing', R, B)
  <2>1. \A p \in flushing : p.table # u.name
    BY <1>6 DEF FlushRows, BufferHolds
  <2> QED
    BY <1>0, <1>6, <2>1 DEF FlushFits
<1>12. AllFits(manifest', flushing', work', R, B, N2, O)
  BY <1>7, <1>8, <1>9, <1>10, <1>11 DEF AllFits, LineageOK
<1> QED
  BY <1>12, LineageNext

(* The buffer is projected along.                                          *)
LEMMA TakesOverBatches ==
    ASSUME Named, Buffers, FlushAccepted, BatchesBorn,
           NEW t \in manifest.tables, NEW u, u.name = t.name,
           manifest'.tables = (manifest.tables \ {t}) \union {u},
           OneEach(t.schema), OneEach(u.schema), Agree(t.schema, u.schema),
           pending' = ProjectPending(t.name, t.schema, u.schema), in_flight' = in_flight,
           ~BufferHolds(in_flight, t.name)
    PROVE  BatchesBorn'
<1> SUFFICES ASSUME NEW d \in pending' \union in_flight, NEW x \in manifest'.tables,
                    x.name = d.table
             PROVE  BornAs(d, x.schema)
  BY DEF BatchesBorn
<1>1. ASSUME NEW z \in manifest.tables, z.name = t.name PROVE z = t
  BY <1>1 DEF Named, UniqueIn, Unique, TablesUnique
<1>2. \A z \in manifest'.tables : z.name # t.name => z \in manifest.tables
  OBVIOUS
<1>3. CASE d \in in_flight
  BY <1>2, <1>3 DEF BatchesBorn, BufferHolds
<1>4. CASE d \in pending'
  <2>1. PICK b \in pending :
           d = IF b.table = t.name THEN ProjectBatch(b, t.schema, u.schema) ELSE b
    BY <1>4 DEF ProjectPending
  <2>2. CASE b.table # t.name
    BY <1>2, <2>1, <2>2 DEF BatchesBorn
  <2>3. CASE b.table = t.name
    <3>1. d = ProjectBatch(b, t.schema, u.schema)
      BY <2>1, <2>3
    <3>2. IsBatch(b) /\ BornAs(b, t.schema)
      BY <2>3 DEF Buffers, BatchesBorn
    <3>3. Cols(t.schema) = {c.col : c \in b.cols}
      BY <1>1, <2>3 DEF FlushAccepted
    <3>4. BornAs(d, u.schema)
      BY <3>1, <3>2, <3>3, ProjectedBorn
    <3>5. d.table = t.name
      BY <2>3, <3>1, <3>2 DEF ProjectBatch, IsBatch
    <3> QED
      BY <1>1, <3>4, <3>5
  <2> QED
    BY <2>2, <2>3
<1> QED
  BY <1>3, <1>4

(* A job's swap.                                                           *)
LEMMA SwapLines ==
    ASSUME SafeInv, Named, Buffers, FlushRows, FlushAccepted, ColumnsInv, BirthsInv,
           Past(manifest), LineageInv, BatchesBorn,
           NEW j \in manifest.jobs, JobSwap(j)
    PROVE  LineStep
<1>1. PICK R, B, N, O : AllFits(manifest, flushing, work, R, B, N, O)
  BY DEF LineageInv
<1>2. PICK t \in manifest.tables : \E u, r :
         /\ manifest'.tables = (manifest.tables \ {t}) \union {u}
         /\ manifest'.jobs \subseteq manifest.jobs \ {j}
         /\ manifest'.retired = manifest.retired \union {r}
         /\ t.id = j.source /\ r.entry = t /\ u.name = t.name
         /\ u.id = j.target.id /\ u.schema = j.target.schema
         /\ u.next_field_id = j.target.next_field_id
         /\ u.segments = j.target.segments \union Carried(t, j, SegIds(Gap(t, j)))
         /\ u.tombstones = RenameTombstones(t.tombstones, t.schema, j.target.schema)
         /\ r.reason = "swapped" /\ r.version = manifest.version + 1
         /\ ~BufferHolds(in_flight, t.name)
         /\ pending' = ProjectPending(t.name, t.schema, j.target.schema)
  BY SwapTo
<1>3. PICK u, r :
         /\ manifest'.tables = (manifest.tables \ {t}) \union {u}
         /\ manifest'.jobs \subseteq manifest.jobs
         /\ manifest'.retired = manifest.retired \union {r}
         /\ t.id = j.source /\ r.entry = t /\ u.name = t.name
         /\ u.id = j.target.id /\ u.schema = j.target.schema
         /\ u.next_field_id = j.target.next_field_id
         /\ u.segments = j.target.segments \union Carried(t, j, SegIds(Gap(t, j)))
         /\ r.reason = "swapped" /\ r.version = manifest.version + 1
         /\ ~BufferHolds(in_flight, t.name)
         /\ pending' = ProjectPending(t.name, t.schema, u.schema)
  BY <1>2
<1>4. UNCHANGED <<in_flight, flushing, work>>
  BY DEF JobSwap
<1>5. j.target \in Entries(manifest) /\ t \in Entries(manifest)
  BY DEF Entries
<1>6. /\ EntryOK(t) /\ t.next_field_id \in Nat
      /\ EntryOK(j.target) /\ j.target.next_field_id \in Nat
  BY <1>5, NextNat
<1>7. Derived(t, j.target) /\ t.next_field_id <= j.target.next_field_id
  BY <1>3 DEF BirthsInv, BirthsOK, Derived
<1>8. /\ EntryFits(t, R, B, O) /\ EntryFits(j.target, R, B, O)
      /\ R[j.target.id] = R[t.id] /\ LinesFit(manifest, R)
  BY <1>1, <1>3, <1>5 DEF AllFits, LineageOK, EntriesFit, JobsFit
<1>9. EntryFits(u, R, B, O)
  <2>1. \A s \in Carried(t, j, SegIds(Gap(t, j))) :
           O[s.id] = R[t.id] /\ Fits(s.file, B[R[t.id]], j.target.next_field_id)
    BY <1>6, <1>7, <1>8, CarriedFits
  <2> QED
    BY <1>3, <1>8, <2>1 DEF EntryFits
<1>10. Dropped(manifest') = Dropped(manifest)
       /\ \A q \in Swapped(manifest') : q = r \/ q \in Swapped(manifest)
  BY <1>3 DEF Dropped, Swapped
<1>11. TakesOver(t, u, R)
  BY <1>3, <1>6, <1>7, <1>8, <1>10 DEF TakesOver
<1>12. LinesFit(manifest', R)
  <2>1. ASSUME NEW x \in manifest'.tables, NEW q \in Swapped(manifest'),
               x.name = q.entry.name
        PROVE  R[x.id] = R[q.entry.id]
    <3>1. CASE q = r
      BY <1>3, <1>8, <2>1, <3>1 DEF Named, UniqueIn, Unique, TablesUnique
    <3>2. CASE q \in Swapped(manifest)
      BY <1>3, <1>8, <2>1, <3>2 DEF LinesFit
    <3> QED
      BY <1>10, <3>1, <3>2
  <2>2. ASSUME NEW d \in Dropped(manifest), NEW q \in Swapped(manifest'),
               d.entry.name = q.entry.name, q.version < d.version
        PROVE  R[d.entry.id] = R[q.entry.id]
    <3>1. d.version \in Nat /\ d.version <= manifest.version /\ manifest.version \in Nat
      BY DEF Past, Dropped, SafeInv, Safe, IsManifest
    <3>2. q # r
      BY <1>3, <2>2, <3>1
    <3> QED
      BY <1>8, <1>10, <2>2, <3>2 DEF LinesFit
  <2> QED
    BY <1>10, <2>1, <2>2 DEF LinesFit
<1>13. LineageInv'
  BY <1>1, <1>3, <1>4, <1>9, <1>11, <1>12, TakesOverLines
<1>14. OneEach(t.schema) /\ OneEach(u.schema) /\ Agree(t.schema, u.schema)
  BY <1>3, <1>6, <1>7 DEF EntryOK, SchemaOK, Derived
<1>15. BatchesBorn'
  BY <1>3, <1>4, <1>14, TakesOverBatches
<1> QED
  BY <1>13, <1>15 DEF LineStep

(* REVERT.                                                                 *)
LEMMA RevertLines ==
    ASSUME SafeInv, Named, Buffers, FlushRows, FlushAccepted, ColumnsInv, LineageInv,
           BatchesBorn, NEW nm, Revert(nm)
    PROVE  LineStep
<1>1. PICK R, B, N, O : AllFits(manifest, flushing, work, R, B, N, O)
  BY DEF LineageInv
<1>2. PICK cur \in manifest.tables, r \in manifest.retired : \E v, q :
         /\ "revert" \in Ops /\ cur.name = nm /\ CanRevertTable(manifest, r, cur)
         /\ manifest'.tables = (manifest.tables \ {cur}) \union {v}
         /\ manifest'.jobs = manifest.jobs
         /\ manifest'.retired = (manifest.retired \ {r}) \union {q}
         /\ q.entry = cur /\ q.reason = "reverted"
         /\ v.id = r.entry.id /\ v.name = r.entry.name /\ v.schema = r.entry.schema
         /\ v.next_field_id = NextField(r, cur)
         /\ v.segments = r.entry.segments \union
              {ProjectOnto(s, r.entry.schema) : s \in Since(r, cur)}
         /\ v.tombstones = r.entry.tombstones \union
              RenameTombstones(LaterKills(r, cur), cur.schema, r.entry.schema)
         /\ ~BufferHolds(in_flight, nm)
         /\ pending' = ProjectPending(nm, cur.schema, r.entry.schema)
  BY RevertTo, SMTT(20), ZenonT(20)
<1>3. PICK v, q :
         /\ "revert" \in Ops /\ cur.name = nm /\ CanRevertTable(manifest, r, cur)
         /\ manifest'.tables = (manifest.tables \ {cur}) \union {v}
         /\ manifest'.jobs = manifest.jobs
         /\ manifest'.retired = (manifest.retired \ {r}) \union {q}
         /\ q.entry = cur /\ q.reason = "reverted"
         /\ v.id = r.entry.id /\ v.name = r.entry.name /\ v.schema = r.entry.schema
         /\ v.next_field_id = NextField(r, cur)
         /\ v.segments = r.entry.segments \union
              {ProjectOnto(s, r.entry.schema) : s \in Since(r, cur)}
         /\ ~BufferHolds(in_flight, cur.name)
         /\ pending' = ProjectPending(cur.name, cur.schema, v.schema)
  BY <1>2
<1>4. UNCHANGED <<in_flight, flushing, work>>
  BY DEF Revert
<1>5. cur \in Entries(manifest) /\ r.entry \in Entries(manifest)
  BY DEF Entries
<1>6. /\ EntryOK(cur) /\ cur.next_field_id \in Nat
      /\ EntryOK(r.entry) /\ r.entry.next_field_id \in Nat
  BY <1>5, NextNat
<1>7. /\ v.next_field_id \in Nat /\ cur.next_field_id <= v.next_field_id
      /\ r.entry.next_field_id <= v.next_field_id
  BY <1>3, <1>6 DEF NextField
<1>8. r \in Swapped(manifest) /\ r.reason = "swapped" /\ cur.name = r.entry.name
  BY <1>3 DEF Swapped, CanRevertTable, LastRetired
<1>9. /\ EntryFits(cur, R, B, O) /\ EntryFits(r.entry, R, B, O)
      /\ R[cur.id] = R[r.entry.id] /\ LinesFit(manifest, R)
  BY <1>1, <1>5, <1>8 DEF AllFits, LineageOK, EntriesFit, LinesFit
<1> DEFINE l == R[cur.id]
           n == v.next_field_id
<1>10. EntryFits(v, R, B, O)
  <2>1. Fits(v.schema, B[l], n)
    BY <1>3, <1>6, <1>7, <1>9, FitsWider DEF EntryFits
  <2>2. ASSUME NEW s \in r.entry.segments PROVE O[s.id] = l /\ Fits(s.file, B[l], n)
    BY <1>6, <1>7, <1>9, FitsWider DEF EntryFits
  <2>3. ASSUME NEW s \in Since(r, cur)
        PROVE  /\ O[ProjectOnto(s, r.entry.schema).id] = l
               /\ Fits(ProjectOnto(s, r.entry.schema).file, B[l], n)
    <3>1. O[s.id] = l /\ Fits(s.file, B[l], cur.next_field_id)
      BY <1>9 DEF EntryFits, Since
    <3>2. Fits(s.file, B[l], n)
      BY <1>6, <1>7, <3>1, FitsWider
    <3> QED
      BY <3>1, <3>2, ProjectedFits
  <2> QED
    BY <1>3, <1>9, <2>1, <2>2, <2>3, SMTT(20), ZenonT(20) DEF EntryFits
<1>11. Dropped(manifest') = Dropped(manifest)
       /\ Swapped(manifest') \subseteq Swapped(manifest)
  BY <1>3, <1>8 DEF Dropped, Swapped
<1>12. TakesOver(cur, v, R)
  BY <1>3, <1>7, <1>8, <1>9, <1>11 DEF TakesOver
<1>13. LinesFit(manifest', R)
  BY <1>3, <1>8, <1>9, <1>11 DEF LinesFit
<1>14. LineageInv'
  BY <1>1, <1>3, <1>4, <1>10, <1>12, <1>13, TakesOverLines
<1>15. OneEach(cur.schema) /\ OneEach(v.schema)
  BY <1>3, <1>6 DEF EntryOK, SchemaOK
<1>16. Agree(cur.schema, v.schema)
  BY <1>3, <1>9, FitsAgree DEF EntryFits
<1>17. BatchesBorn'
  BY <1>3, <1>4, <1>8, <1>15, <1>16, TakesOverBatches
<1> QED
  BY <1>14, <1>17 DEF LineStep

-----------------------------------------------------------------------------
(* Columns: the theorem.                                                   *)

(* Every step keeps the lineages.                                          *)
LEMMA NextLines ==
    ASSUME RowsAll, ColumnsInv, ContentsInv, BirthsInv, JobsKnown, LineageInv, BatchesBorn,
           [Next]_vars, [NameUnused]_vars
    PROVE  LineStep
<1>1. /\ SafeInv /\ Named /\ Buffers /\ StoredRows /\ FlushRows /\ FlushAccepted
      /\ ManifestOrder(manifest) /\ Past(manifest)
  BY DEF RowsAll, TypeInv, RowsInv, ContentsInv, ManifestOrder
<1>2. CASE UNCHANGED vars
  BY <1>2, SameLines DEF vars
<1> SUFFICES ASSUME Next, NameUnused PROVE LineStep
  BY <1>2
<1>3. ASSUME NEW n \in Names, NEW columns \in ColumnLists, Create(n, columns)
      PROVE  LineStep
  BY <1>1, <1>3, CreateLines
<1>4. ASSUME NEW n \in Names, Truncate(n) \/ Revert(n) \/ Drop(n) \/ Undrop(n)
      PROVE  LineStep
  BY <1>1, <1>4, TruncateLines, RevertLines, DropLines, UndropLines
<1>5. ASSUME NEW n \in Names, NEW r \in Rows, Write(n, r) PROVE LineStep
  BY <1>1, <1>5, WriteLines
<1>6. ASSUME NEW n \in Names, NEW c, NEW kills, Delete(n, c, kills) PROVE LineStep
  BY <1>1, <1>6, DeleteLines
<1>7. ASSUME NEW n \in Names, NEW ops \in AlterOps, Alter(n, ops) PROVE LineStep
  BY <1>1, <1>7, AlterLines
<1>8. ASSUME NEW n \in Names, NEW w \in Workers, CompactPrepare(w, n) PROVE LineStep
  BY <1>1, <1>8, CompactPrepareLines
<1>9. ASSUME FlushTake \/ FlushWrite \/ FlushCommit \/ FlushFail \/ Reopen PROVE LineStep
  BY <1>1, <1>9, FlushTakeLines, FlushWriteLines, FlushCommitLines, ReopenLines
<1>10. ASSUME NEW w \in Workers, CompactCommit(w) \/ JobAdvance(w) \/ Abandon(w)
       PROVE  LineStep
  BY <1>1, <1>10, CompactCommitLines, JobAdvanceLines, AbandonLines
<1>11. ASSUME NEW j \in manifest.jobs, JobSwap(j) \/ Cancel(j) PROVE LineStep
  BY <1>1, <1>11, SwapLines, CancelLines
<1>12. ASSUME NEW j \in manifest.jobs, NEW w \in Workers, JobPrepare(w, j) PROVE LineStep
  BY <1>1, <1>12, JobPrepareLines
<1>13. ASSUME NEW expired \in SUBSET manifest.retired, Expire(expired) PROVE LineStep
  BY <1>1, <1>13, ExpireLines
<1>14. ASSUME NEW ids \in SUBSET GarbageIds(manifest), Forget(ids) PROVE LineStep
  BY <1>1, <1>14, ForgetLines
<1> QED
  BY <1>3, <1>4, <1>5, <1>6, <1>7, <1>8, <1>9, <1>10, <1>11, <1>12, <1>13, <1>14 DEF Next

(* A new store has no lineages.                                            *)
LEMMA LinesInit == Init => JobsKnown /\ LineageInv /\ BatchesBorn
<1> SUFFICES ASSUME Init PROVE JobsKnown /\ LineageInv /\ BatchesBorn
  OBVIOUS
<1>1. /\ manifest.tables = {} /\ manifest.retired = {} /\ manifest.jobs = {}
      /\ pending = {} /\ in_flight = {} /\ flushing = {}
      /\ \A w \in Workers : work[w] = NoWork
  BY DEF Init, EmptyManifest, Idle
<1>2. JobsKnown /\ BatchesBorn
  BY <1>1 DEF JobsKnown, BatchesBorn, NoWork
<1>3. /\ Entries(manifest) = {} /\ Heads(manifest) = {} /\ Swapped(manifest) = {}
  BY <1>1 DEF Entries, Heads, Swapped, Dropped
<1>4. ASSUME NEW F PROVE AllFits(manifest, flushing, work, F, F, F, F)
  <2>1. LineageOK(manifest, F, F, F, F)
    BY <1>1, <1>3 DEF LineageOK, EntriesFit, HeadsFit, JobsFit, LinesFit
  <2>2. WorkFits(manifest, work, F, F, F, F)
    BY <1>1 DEF WorkFits, MergeFits, StepFits, NoWork
  <2>3. FlushFits(manifest, flushing, F, F)
    BY <1>1 DEF FlushFits
  <2> QED
    BY <2>1, <2>2, <2>3 DEF AllFits
<1> QED
  BY <1>2, <1>4 DEF LineageInv

(* Where columns follow their lineage none mixes with another.             *)
LEMMA LineNeverMixes == LineageInv => ColumnsNeverMix
<1> SUFFICES ASSUME LineageInv, NEW t \in manifest.tables, NEW s \in t.segments,
                    NEW c \in s.file, NEW f \in t.schema, c.fid = f.fid
             PROVE  c.birth = f.birth
  BY DEF ColumnsNeverMix
<1>1. PICK R, B, N, O : AllFits(manifest, flushing, work, R, B, N, O)
  BY DEF LineageInv
<1>2. /\ Fits(s.file, B[R[t.id]], t.next_field_id)
      /\ Fits(t.schema, B[R[t.id]], t.next_field_id)
  BY <1>1, TableFits DEF EntryFits
<1> QED
  BY <1>2 DEF Fits

(* What a segment's file holds for a field was written for that column:    *)
(* a column dropped and re-added under its name is a new one, and a table  *)
(* altered, swapped, reverted, dropped and undropped, compacted and        *)
(* flushed into meanwhile never reads the data of one as that of another.  *)
(* The hypotheses are those of TombstonesFollow.                           *)
THEOREM ColumnsStayApart ==
    Spec /\ [][ExpiryOrder]_vars /\ [][NameUnused]_vars => []ColumnsNeverMix
<1> DEFINE I == BirthsInv /\ JobsKnown /\ LineageInv /\ BatchesBorn
<1>1. Init => I
  BY ColumnsInit, LinesInit
<1>2. RowsAll /\ ColumnsInv /\ ContentsInv /\ I /\ [Next]_vars /\ [NameUnused]_vars => I'
  <2> SUFFICES ASSUME RowsAll, ColumnsInv, ContentsInv, I, [Next]_vars, [NameUnused]_vars
               PROVE  I'
    OBVIOUS
  <2>1. LineageInv' /\ BatchesBorn'
    BY NextLines DEF LineStep
  <2>2. JobsKnown'
    BY NextKnown DEF RowsAll, TypeInv
  <2>3. BirthsInv'
    BY NextBirths
  <2> QED
    BY <2>1, <2>2, <2>3
<1>3. I => ColumnsNeverMix
  BY LineNeverMixes
<1> HIDE DEF I
<1> QED
  BY <1>1, <1>2, <1>3, RowsAlways, ColumnsAlways, ContentsAlways, PTL DEF Spec
=============================================================================
