----------------------------- MODULE QueryRows -----------------------------
(***************************************************************************)
(* The rows of a query: every stage that finishes has the right answer.    *)
(* First what a sink keeps of the rows it is given, told by weights: the   *)
(* weight of a sequence of rows, with 1 for the rows of a set and 0 for    *)
(* the others, says how many of them are there.  A push and a merge add    *)
(* weights until the sink is full, and a sink that holds enough returns    *)
(* the answer.  Then the invariant of the running stage: what the workers  *)
(* hold and have to push weighs what the morsels they have claimed do,     *)
(* unless somebody has enough or has failed.  Last, the slice that ORDER BY*)
(* with LIMIT and OFFSET returns.                                          *)
(***************************************************************************)
EXTENDS QueryProofs

-----------------------------------------------------------------------------
(* Weights of rows.  With 1 for the rows of a set and 0 for the others, the *)
(* weight of a sequence says how many of its rows are in the set.          *)

Weight(rows, f) == SumFunction([i \in 1 .. Len(rows) |-> f[rows[i]]])
Ind(R, S) == [r \in R |-> IF r \in S THEN 1 ELSE 0]

(* What holds of the empty sequence, and of a sequence with one more       *)
(* element when it holds of the sequence, holds of every sequence.         *)
LEMMA Rowwise ==
    ASSUME NEW R, NEW T, <<>> \in T,
           \A s \in Seq(R) : \A x \in R : s \in T => Append(s, x) \in T
    PROVE  Seq(R) \subseteq T
<1> DEFINE U == {n \in Nat : \A s \in Seq(R) : Len(s) = n => s \in T}
<1>1. 0 \in U
  OBVIOUS
<1>2. ASSUME NEW n \in Nat, n \in U PROVE n + 1 \in U
  <2> SUFFICES ASSUME NEW s \in Seq(R), Len(s) = n + 1 PROVE s \in T
    OBVIOUS
  <2>1. s # <<>>
    OBVIOUS
  <2>2. PICK t \in Seq(R), x \in R : s = Append(t, x)
    BY <2>1, SequenceEmptyOrAppend
  <2>3. Len(t) = n
    BY <2>2
  <2> QED
    BY <1>2, <2>2, <2>3
<1>3. Nat \subseteq U
  <2> HIDE DEF U
  <2> QED
    BY <1>1, <1>2, CountUp
<1> QED
  BY <1>3

(* A sum is a sum from the first to the last.                              *)
LEMMA SumAppend ==
    ASSUME NEW n \in Nat, NEW f, NEW h, Numbers(f, n), Numbers(h, n + 1),
           \A i \in 1 .. n : h[i] = f[i]
    PROVE  SumFunction(h) = SumFunction(f) + h[n + 1]
<1> DEFINE Longer(a, b, m) ==
                /\ Numbers(a, n) /\ Numbers(b, n + 1) /\ b[n + 1] = 0
                /\ \A i \in 1 .. n : a[i] = b[i]
                /\ \A i \in 1 .. n : i > m => a[i] = 0
           T == {m \in Nat : \A a, b : Longer(a, b, m) => SumFunction(a) = SumFunction(b)}
<1>1. 0 \in T
  <2> SUFFICES ASSUME NEW a, NEW b, Numbers(a, n), Numbers(b, n + 1), b[n + 1] = 0,
                      \A i \in 1 .. n : a[i] = b[i], \A i \in 1 .. n : i > 0 => a[i] = 0
               PROVE  SumFunction(a) = SumFunction(b)
    OBVIOUS
  <2>1. \A i \in 1 .. n : a[i] = 0
    OBVIOUS
  <2>2. \A i \in 1 .. n + 1 : b[i] = 0
    BY <2>1
  <2>3. n + 1 \in Nat /\ DOMAIN a = 1 .. n /\ DOMAIN b = 1 .. n + 1
    BY DEF Numbers
  <2>4. SumFunction(a) = 0
    BY <2>1, <2>3, SumZero
  <2>5. SumFunction(b) = 0
    BY <2>2, <2>3, SumZero
  <2> QED
    BY <2>4, <2>5
<1>2. ASSUME NEW m \in Nat, m \in T PROVE m + 1 \in T
  <2> SUFFICES ASSUME NEW a, NEW b, Numbers(a, n), Numbers(b, n + 1), b[n + 1] = 0,
                      \A i \in 1 .. n : a[i] = b[i], \A i \in 1 .. n : i > m + 1 => a[i] = 0
               PROVE  SumFunction(a) = SumFunction(b)
    OBVIOUS
  <2>1. CASE m + 1 > n
    <3>1. \A i \in 1 .. n : i > m => a[i] = 0
      BY <2>1
    <3> QED
      BY <1>2, <3>1
  <2>2. CASE m + 1 <= n
    <3> DEFINE c == [i \in 1 .. n |-> IF i = m + 1 THEN 0 ELSE a[i]]
               d == [i \in 1 .. n + 1 |-> IF i = m + 1 THEN 0 ELSE b[i]]
    <3>1. m + 1 \in 1 .. n /\ m + 1 \in 1 .. n + 1 /\ m + 1 # n + 1 /\ n + 1 \in Nat
      BY <2>2
    <3>2. Numbers(c, n) /\ Numbers(d, n + 1)
      BY DEF Numbers
    <3>3. /\ \A i \in 1 .. n : i # m + 1 => c[i] = a[i]
          /\ \A i \in 1 .. n + 1 : i # m + 1 => d[i] = b[i]
          /\ c[m + 1] = 0 /\ d[m + 1] = 0 /\ d[n + 1] = 0
      BY <3>1
    <3>4. \A i \in 1 .. n : c[i] = d[i]
      OBVIOUS
    <3>5. \A i \in 1 .. n : i > m => c[i] = 0
      BY <3>3
    <3> HIDE DEF c, d
    <3>6. SumFunction(c) = SumFunction(d)
      BY <1>2, <3>2, <3>3, <3>4, <3>5
    <3>7. SumFunction(c) = SumFunction(a) - a[m + 1] + c[m + 1]
      BY <3>1, <3>2, <3>3, SumChange
    <3>8. SumFunction(d) = SumFunction(b) - b[m + 1] + d[m + 1]
      BY <3>1, <3>2, <3>3, SumChange
    <3>9. SumFunction(a) \in Nat /\ SumFunction(b) \in Nat
      BY <3>1, SumNat
    <3>10. a[m + 1] = b[m + 1] /\ a[m + 1] \in Nat
      BY <3>1 DEF Numbers
    <3>11. c[m + 1] = 0 /\ d[m + 1] = 0
      BY <3>3
    <3>12. SumFunction(c) = SumFunction(a) - a[m + 1]
      BY <3>7, <3>9, <3>10, <3>11
    <3>13. SumFunction(d) = SumFunction(b) - a[m + 1]
      BY <3>8, <3>9, <3>10, <3>11
    <3>14. SumFunction(a) - a[m + 1] = SumFunction(b) - a[m + 1]
      BY <3>6, <3>12, <3>13
    <3>15. \A p, q, r \in Nat : p - r = q - r => p = q
      OBVIOUS
    <3>16. a[m + 1] \in Nat
      BY <3>10
    <3> QED
      BY <3>9, <3>14, <3>15, <3>16
  <2> QED
    BY <2>1, <2>2
<1>3. n \in T
  <2> HIDE DEF T
  <2> QED
    BY <1>1, <1>2, CountUp
<1> DEFINE b == [i \in 1 .. n + 1 |-> IF i = n + 1 THEN 0 ELSE h[i]]
<1>4. Numbers(b, n + 1) /\ b[n + 1] = 0 /\ (\A i \in 1 .. n + 1 : i # n + 1 => h[i] = b[i])
  BY DEF Numbers
<1>5. \A i \in 1 .. n : f[i] = b[i]
  OBVIOUS
<1> HIDE DEF b
<1>6. SumFunction(f) = SumFunction(b)
  BY <1>3, <1>4, <1>5
<1>7. SumFunction(h) = SumFunction(b) - b[n + 1] + h[n + 1]
  BY <1>4, n + 1 \in Nat, n + 1 \in 1 .. n + 1, SumChange
<1>8. SumFunction(f) \in Nat /\ h[n + 1] \in Nat
  BY SumNat DEF Numbers
<1> QED
  BY <1>4, <1>6, <1>7, <1>8

(* The weight of no rows, and of one more row.                             *)
LEMMA WeightSteps ==
    ASSUME NEW R, NEW f \in [R -> Nat]
    PROVE  /\ Weight(<<>>, f) = 0
           /\ \A s \in Seq(R) : Weight(s, f) \in Nat
           /\ \A s \in Seq(R) : \A x \in R : Weight(Append(s, x), f) = Weight(s, f) + f[x]
<1>1. Weight(<<>>, f) = 0
  <2> DEFINE g == [i \in 1 .. Len(<<>>) |-> f[<<>>[i]]]
  <2>1. DOMAIN g = 1 .. 0 /\ \A i \in 1 .. 0 : g[i] = 0
    OBVIOUS
  <2> HIDE DEF g
  <2>2. SumFunction(g) = 0
    BY <2>1, SumZero
  <2> QED
    BY <2>2 DEF Weight, g
<1>2. ASSUME NEW s \in Seq(R)
      PROVE  Numbers([i \in 1 .. Len(s) |-> f[s[i]]], Len(s)) /\ Len(s) \in Nat
  BY DEF Numbers
<1>3. ASSUME NEW s \in Seq(R) PROVE Weight(s, f) \in Nat
  BY <1>2, SumNat DEF Weight
<1>4. ASSUME NEW s \in Seq(R), NEW x \in R
      PROVE  Weight(Append(s, x), f) = Weight(s, f) + f[x]
  <2> DEFINE t == Append(s, x)
             n == Len(s)
             g == [i \in 1 .. Len(s) |-> f[s[i]]]
             h == [i \in 1 .. Len(t) |-> f[t[i]]]
  <2>1. t \in Seq(R) /\ Len(t) = n + 1 /\ n \in Nat /\ t[n + 1] = x
        /\ \A i \in 1 .. n : t[i] = s[i]
    OBVIOUS
  <2>2. Numbers(g, n) /\ Numbers(h, n + 1)
    BY <1>2, <2>1
  <2>3. \A i \in 1 .. n : h[i] = g[i]
    BY <2>1
  <2>4. h[n + 1] = f[x]
    BY <2>1
  <2> HIDE DEF g, h, n
  <2>5. SumFunction(h) = SumFunction(g) + h[n + 1]
    BY <2>1, <2>2, <2>3, SumAppend
  <2> QED
    BY <2>4, <2>5 DEF Weight, g, h
<1> QED
  BY <1>1, <1>3, <1>4

(* The weight of two sequences, one after the other.                       *)
LEMMA WeightTogether ==
    ASSUME NEW R, NEW f \in [R -> Nat], NEW s \in Seq(R), NEW t \in Seq(R)
    PROVE  Weight(s \o t, f) = Weight(s, f) + Weight(t, f)
<1> DEFINE T == {u \in Seq(R) : Weight(s \o u, f) = Weight(s, f) + Weight(u, f)}
<1>1. <<>> \in T
  BY WeightSteps
<1>2. ASSUME NEW u \in Seq(R), NEW x \in R, u \in T PROVE Append(u, x) \in T
  <2>1. s \o Append(u, x) = Append(s \o u, x) /\ s \o u \in Seq(R) /\ Append(u, x) \in Seq(R)
    OBVIOUS
  <2>2. Weight(Append(s \o u, x), f) = Weight(s \o u, f) + f[x]
    BY <2>1, WeightSteps
  <2>3. Weight(Append(u, x), f) = Weight(u, f) + f[x]
    BY WeightSteps
  <2>4. Weight(s, f) \in Nat /\ Weight(u, f) \in Nat /\ f[x] \in Nat
    BY WeightSteps
  <2>5. Weight(s \o u, f) = Weight(s, f) + Weight(u, f)
    BY <1>2
  <2>6. Weight(s \o Append(u, x), f) = Weight(s, f) + Weight(Append(u, x), f)
    BY <2>1, <2>2, <2>3, <2>4, <2>5
  <2> QED
    BY <2>1, <2>6
<1>3. Seq(R) \subseteq T
  <2> HIDE DEF T
  <2> QED
    BY <1>1, <1>2, Rowwise
<1> QED
  BY <1>3

(* With the set's indicator, the weight is the number of rows in the set.  *)
LEMMA WeightCounts ==
    ASSUME NEW R, NEW S, NEW s \in Seq(R)
    PROVE  /\ IsFiniteSet({i \in DOMAIN s : s[i] \in S})
           /\ Weight(s, Ind(R, S)) = Cardinality({i \in DOMAIN s : s[i] \in S})
<1> DEFINE Where(u) == {i \in 1 .. Len(u) : u[i] \in S}
           f == Ind(R, S)
           T == {u \in Seq(R) : IsFiniteSet(Where(u)) /\ Weight(u, f) = Cardinality(Where(u))}
<1>1. f \in [R -> Nat]
  BY DEF Ind
<1>2. <<>> \in T
  <2>1. Where(<<>>) = {}
    OBVIOUS
  <2>2. Weight(<<>>, f) = 0
    BY <1>1, WeightSteps
  <2> HIDE DEF Where, f
  <2> QED
    BY <2>1, <2>2, FS_EmptySet
<1>3. ASSUME NEW u \in Seq(R), NEW x \in R, u \in T PROVE Append(u, x) \in T
  <2> DEFINE t == Append(u, x)
             n == Len(u)
  <2>1. t \in Seq(R) /\ Len(t) = n + 1 /\ n \in Nat /\ t[n + 1] = x
        /\ \A i \in 1 .. n : t[i] = u[i]
    OBVIOUS
  <2>2. Where(t) = IF x \in S THEN Where(u) \cup {n + 1} ELSE Where(u)
    BY <2>1
  <2>3. n + 1 \notin Where(u)
    BY <2>1
  <2>4. f[x] = IF x \in S THEN 1 ELSE 0
    BY DEF Ind
  <2>5. Weight(t, f) = Weight(u, f) + f[x] /\ Weight(u, f) \in Nat
    BY <1>1, WeightSteps
  <2>6. IsFiniteSet(Where(u)) /\ Weight(u, f) = Cardinality(Where(u))
    BY <1>3
  <2> HIDE DEF Where, f, t, n
  <2>7. /\ IsFiniteSet(Where(u) \cup {n + 1})
        /\ Cardinality(Where(u) \cup {n + 1}) = Cardinality(Where(u)) + 1
    BY <2>3, <2>6, FS_AddElement
  <2>8. IsFiniteSet(Where(t)) /\ Weight(t, f) = Cardinality(Where(t))
    BY <2>2, <2>4, <2>5, <2>6, <2>7
  <2> QED
    BY <2>1, <2>8 DEF t
<1>4. Seq(R) \subseteq T
  <2> HIDE DEF T
  <2> QED
    BY <1>2, <1>3, Rowwise
<1>5. DOMAIN s = 1 .. Len(s)
  OBVIOUS
<1>6. s \in T
  BY <1>4
<1>7. Where(s) = {i \in DOMAIN s : s[i] \in S}
  BY <1>5
<1> QED
  BY <1>6, <1>7

(* All the rows.                                                           *)
LEMMA WeightAll ==
    ASSUME NEW R, NEW s \in Seq(R)
    PROVE  Weight(s, Ind(R, R)) = Len(s)
<1> DEFINE T == {u \in Seq(R) : Weight(u, Ind(R, R)) = Len(u)}
<1>1. Ind(R, R) \in [R -> Nat] /\ \A x \in R : Ind(R, R)[x] = 1
  BY DEF Ind
<1>2. <<>> \in T
  <2>1. Weight(<<>>, Ind(R, R)) = 0
    BY <1>1, WeightSteps
  <2>2. <<>> \in Seq(R) /\ Len(<<>>) = 0
    OBVIOUS
  <2> QED
    BY <2>1, <2>2
<1>3. ASSUME NEW u \in Seq(R), NEW x \in R, u \in T PROVE Append(u, x) \in T
  <2>1. Weight(Append(u, x), Ind(R, R)) = Weight(u, Ind(R, R)) + 1
    BY <1>1, WeightSteps
  <2>2. Append(u, x) \in Seq(R) /\ Len(Append(u, x)) = Len(u) + 1
    OBVIOUS
  <2>3. Weight(u, Ind(R, R)) = Len(u)
    BY <1>3
  <2> QED
    BY <2>1, <2>2, <2>3
<1>4. Seq(R) \subseteq T
  <2> HIDE DEF T
  <2> QED
    BY <1>2, <1>3, Rowwise
<1> QED
  BY <1>4

(* RowsIn drops the rows that are not in the set.                          *)
LEMMA RowsInAppend ==
    ASSUME NEW R, NEW S, NEW s \in Seq(R), NEW x \in R
    PROVE  /\ RowsIn(<<>>, S) = <<>>
           /\ RowsIn(Append(s, x), S) = IF x \in S THEN Append(RowsIn(s, S), x) ELSE RowsIn(s, S)
<1> DEFINE t == Append(s, x)
           n == Len(s)
<1>1. Len(t) = n + 1 /\ n \in Nat /\ t[n + 1] = x /\ \A i \in 1 .. n : t[i] = s[i]
  OBVIOUS
<1> HIDE DEF t
<1>2. PICK a : KeptSteps(a, s, S) /\ RowsIn(s, S) = a[n]
  BY <1>1, RowsInSteps
<1>3. PICK b : KeptSteps(b, t, S) /\ RowsIn(t, S) = b[n + 1]
  BY <1>1, RowsInSteps
<1> HIDE DEF n
<1> DEFINE U == {i \in Nat : i <= n => a[i] = b[i]}
<1>4. 0 \in U
  BY <1>2, <1>3 DEF KeptSteps
<1>5. ASSUME NEW i \in Nat, i \in U PROVE i + 1 \in U
  <2> SUFFICES ASSUME i + 1 <= n PROVE a[i + 1] = b[i + 1]
    OBVIOUS
  <2>1. i + 1 \in 1 .. n /\ i + 1 \in 1 .. n + 1 /\ (i + 1) - 1 = i /\ i <= n
    BY <1>1
  <2>2. a[i + 1] = IF s[i + 1] \in S THEN Append(a[i], s[i + 1]) ELSE a[i]
    BY <1>2, <2>1 DEF KeptSteps, n
  <2>3. b[i + 1] = IF t[i + 1] \in S THEN Append(b[i], t[i + 1]) ELSE b[i]
    BY <1>1, <1>3, <2>1 DEF KeptSteps
  <2> QED
    BY <1>1, <1>5, <2>1, <2>2, <2>3
<1>6. Nat \subseteq U
  <2> HIDE DEF U
  <2> QED
    BY <1>4, <1>5, CountUp
<1>7. a[n] = b[n]
  BY <1>1, <1>6
<1>8. n + 1 \in 1 .. n + 1 /\ (n + 1) - 1 = n
  BY <1>1
<1>9. b[n + 1] = IF x \in S THEN Append(b[n], x) ELSE b[n]
  BY <1>1, <1>3, <1>8 DEF KeptSteps
<1>10. RowsIn(<<>>, S) = <<>>
  <2>1. PICK k : KeptSteps(k, <<>>, S) /\ RowsIn(<<>>, S) = k[Len(<<>>)]
    BY RowsInSteps
  <2> QED
    BY <2>1 DEF KeptSteps
<1> QED
  BY <1>2, <1>3, <1>7, <1>9, <1>10 DEF t

(* What passes is as heavy as the rows in the set.                         *)
Mask(R, S, f) == [r \in R |-> IF r \in S THEN f[r] ELSE 0]

(* Restricting rows to a set is masking the weights.                       *)
LEMMA WeightIn ==
    ASSUME NEW R, NEW S, NEW f \in [R -> Nat], NEW s \in Seq(R)
    PROVE  /\ RowsIn(s, S) \in Seq(R)
           /\ Weight(RowsIn(s, S), f) = Weight(s, Mask(R, S, f))
<1> DEFINE g == Mask(R, S, f)
           T == {u \in Seq(R) : Weight(RowsIn(u, S), f) = Weight(u, g)}
<1>1. g \in [R -> Nat] /\ \A x \in R : g[x] = IF x \in S THEN f[x] ELSE 0
  BY DEF Mask
<1> HIDE DEF g
<1>2. <<>> \in T
  <2>1. RowsIn(<<>>, S) = <<>>
    <3>1. PICK k : KeptSteps(k, <<>>, S) /\ RowsIn(<<>>, S) = k[Len(<<>>)]
      BY RowsInSteps
    <3> QED
      BY <3>1 DEF KeptSteps
  <2>2. Weight(<<>>, f) = 0
    BY WeightSteps
  <2>3. Weight(<<>>, g) = 0
    BY <1>1, WeightSteps
  <2> QED
    BY <2>1, <2>2, <2>3
<1>3. ASSUME NEW u \in Seq(R), NEW x \in R, u \in T PROVE Append(u, x) \in T
  <2>1. RowsIn(u, S) \in Seq(R)
    BY RowsInSeq
  <2>2. RowsIn(Append(u, x), S) = IF x \in S THEN Append(RowsIn(u, S), x) ELSE RowsIn(u, S)
    BY RowsInAppend
  <2>3. Weight(Append(RowsIn(u, S), x), f) = Weight(RowsIn(u, S), f) + f[x]
    BY <2>1, WeightSteps
  <2>4. Weight(Append(u, x), g) = Weight(u, g) + g[x] /\ Weight(u, g) \in Nat
    <3>1. g \in [R -> Nat]
      BY <1>1
    <3> QED
      BY <3>1, WeightSteps
  <2>5. g[x] = (IF x \in S THEN f[x] ELSE 0) /\ f[x] \in Nat
    BY <1>1
  <2>6. Weight(RowsIn(u, S), f) = Weight(u, g)
    BY <1>3
  <2>7. Weight(RowsIn(Append(u, x), S), f) = Weight(Append(u, x), g)
    BY <2>2, <2>3, <2>4, <2>5, <2>6
  <2> QED
    BY <2>7
<1>4. Seq(R) \subseteq T
  <2> HIDE DEF T
  <2> QED
    BY <1>2, <1>3, Rowwise
<1> QED
  BY <1>4, RowsInSeq DEF g

-----------------------------------------------------------------------------
(* Batches, one after the other.                                           *)

(* What is appended step by step is the concatenation.                     *)
LEMMA ConcatIs ==
    ASSUME NEW S, NEW h \in Seq(Seq(S)), NEW c, c[0] = <<>>,
           \A i \in 1 .. Len(h) : c[i] = c[i - 1] \o h[i]
    PROVE  Concat(h) = c[Len(h)]
<1> DEFINE n == Len(h)
<1>1. n \in Nat
  OBVIOUS
<1>2. PICK d : Joined(d, h, S) /\ Concat(h) = d[n]
  BY ConcatSteps
<1> DEFINE U == {i \in Nat : i <= n => c[i] = d[i]}
<1>3. 0 \in U
  BY <1>2 DEF Joined
<1>4. ASSUME NEW i \in Nat, i \in U PROVE i + 1 \in U
  <2> SUFFICES ASSUME i + 1 <= n PROVE c[i + 1] = d[i + 1]
    OBVIOUS
  <2>1. i + 1 \in 1 .. Len(h) /\ (i + 1) - 1 = i /\ i <= n
    BY <1>1
  <2>2. d[i + 1] = d[i] \o h[i + 1]
    BY <1>2, <2>1 DEF Joined
  <2>3. c[i + 1] = c[i] \o h[i + 1]
    BY <2>1
  <2>4. c[i] = d[i]
    BY <1>4, <2>1
  <2> QED
    BY <2>2, <2>3, <2>4
<1>5. Nat \subseteq U
  <2> HIDE DEF U
  <2> QED
    BY <1>3, <1>4, CountUp
<1> QED
  BY <1>1, <1>2, <1>5

(* One batch is its rows.                                                  *)
LEMMA ConcatOne ==
    ASSUME NEW S, NEW b \in Seq(S)
    PROVE  Concat(<<b>>) = b /\ <<b>> \in Seq(Seq(S))
<1>1. <<b>> = Append(<<>>, b) /\ <<>> \in Seq(Seq(S)) /\ <<b>> \in Seq(Seq(S))
  OBVIOUS
<1>2. Concat(Append(<<>>, b)) = Concat(<<>>) \o b
  BY <1>1, ConcatAppend
<1>3. <<>> \o b = b
  OBVIOUS
<1> QED
  BY <1>1, <1>2, <1>3, NothingHeld

(* The weight of batches is the weight of each.                            *)
LEMMA BatchesWeigh ==
    ASSUME NEW R, NEW f \in [R -> Nat], NEW h \in Seq(Seq(R)), NEW b \in Seq(R)
    PROVE  Weight(Concat(Append(h, b)), f) = Weight(Concat(h), f) + Weight(b, f)
<1>1. Concat(Append(h, b)) = Concat(h) \o b
  BY ConcatAppend
<1>2. Concat(h) \in Seq(R)
  BY ConcatSeq
<1> QED
  BY <1>1, <1>2, WeightTogether

(* Two runs of batches put together weigh what they weigh apart.           *)
LEMMA MoreBatchesWeigh ==
    ASSUME NEW R, NEW f \in [R -> Nat], NEW h \in Seq(Seq(R)), NEW g \in Seq(Seq(R))
    PROVE  Weight(Concat(h \o g), f) = Weight(Concat(h), f) + Weight(Concat(g), f)
<1> DEFINE T == {u \in Seq(Seq(R)) :
                    Weight(Concat(h \o u), f) = Weight(Concat(h), f) + Weight(Concat(u), f)}
<1>1. Concat(h) \in Seq(R)
  BY ConcatSeq
<1>2. Weight(Concat(h), f) \in Nat
  BY <1>1, WeightSteps
<1>3. <<>> \in T
  <2>1. Weight(Concat(<<>>), f) = 0
    BY WeightSteps, NothingHeld
  <2>2. h \o <<>> = h /\ <<>> \in Seq(Seq(R))
    OBVIOUS
  <2> QED
    BY <1>2, <2>1, <2>2
<1>4. ASSUME NEW u \in Seq(Seq(R)), NEW b \in Seq(R), u \in T PROVE Append(u, b) \in T
  <2>1. h \o Append(u, b) = Append(h \o u, b) /\ h \o u \in Seq(Seq(R))
    OBVIOUS
  <2>2. Weight(Concat(Append(h \o u, b)), f) = Weight(Concat(h \o u), f) + Weight(b, f)
    BY <2>1, BatchesWeigh
  <2>3. Weight(Concat(Append(u, b)), f) = Weight(Concat(u), f) + Weight(b, f)
    BY BatchesWeigh
  <2>4. Concat(u) \in Seq(R)
    BY ConcatSeq
  <2>5. Weight(Concat(u), f) \in Nat /\ Weight(b, f) \in Nat
    BY <2>4, WeightSteps
  <2>6. Weight(Concat(h \o u), f) = Weight(Concat(h), f) + Weight(Concat(u), f)
    BY <1>4
  <2>7. Weight(Concat(h \o Append(u, b)), f)
          = Weight(Concat(h), f) + Weight(Concat(Append(u, b)), f)
    BY <1>2, <2>1, <2>2, <2>3, <2>5, <2>6
  <2>8. Append(u, b) \in Seq(Seq(R))
    OBVIOUS
  <2> QED
    BY <2>7, <2>8
<1>5. Seq(Seq(R)) \subseteq T
  <2> HIDE DEF T
  <2> QED
    BY <1>3, <1>4, Rowwise
<1> QED
  BY <1>5

(* The first batch and the rest.                                           *)
LEMMA FirstBatchWeighs ==
    ASSUME NEW R, NEW f \in [R -> Nat], NEW h \in Seq(Seq(R)), h # <<>>
    PROVE  /\ Head(h) \in Seq(R) /\ Tail(h) \in Seq(Seq(R))
           /\ Weight(Concat(h), f) = Weight(Head(h), f) + Weight(Concat(Tail(h)), f)
<1>1. Head(h) \in Seq(R) /\ Tail(h) \in Seq(Seq(R))
  BY HeadTailProperties
<1>2. h = <<Head(h)>> \o Tail(h)
  OBVIOUS
<1>3. Concat(<<Head(h)>>) = Head(h) /\ <<Head(h)>> \in Seq(Seq(R))
  BY <1>1, ConcatOne
<1>4. Weight(Concat(<<Head(h)>> \o Tail(h)), f)
        = Weight(Concat(<<Head(h)>>), f) + Weight(Concat(Tail(h)), f)
  BY <1>1, <1>3, MoreBatchesWeigh
<1> QED
  BY <1>1, <1>2, <1>3, <1>4

(* The weight of the morsels taken so far.                                 *)
LEMMA MorselsWeigh ==
    ASSUME NEW R, NEW f \in [R -> Nat], NEW ms \in Seq(Seq(Seq(R)))
    PROVE  /\ Weight(Concat(Concat(SubSeq(ms, 1, 0))), f) = 0
           /\ Concat(Concat(ms)) \in Seq(R)
           /\ SubSeq(ms, 1, Len(ms)) = ms
           /\ \A n \in 1 .. Len(ms) :
                 /\ SubSeq(ms, 1, n - 1) \in Seq(Seq(Seq(R)))
                 /\ ms[n] \in Seq(Seq(R))
                 /\ Weight(Concat(Concat(SubSeq(ms, 1, n))), f)
                      = Weight(Concat(Concat(SubSeq(ms, 1, n - 1))), f) + Weight(Concat(ms[n]), f)
<1>1. SubSeq(ms, 1, 0) = <<>>
  BY SubSeqEmpty
<1>2. Weight(Concat(Concat(SubSeq(ms, 1, 0))), f) = 0
  BY <1>1, NothingHeld, WeightSteps
<1>3. Concat(ms) \in Seq(Seq(R))
  BY ConcatSeq
<1>4. Concat(Concat(ms)) \in Seq(R)
  BY <1>3, ConcatSeq
<1>5. SubSeq(ms, 1, Len(ms)) = ms
  BY SubSeqFull
<1>6. ASSUME NEW n \in 1 .. Len(ms)
      PROVE  /\ SubSeq(ms, 1, n - 1) \in Seq(Seq(Seq(R)))
             /\ ms[n] \in Seq(Seq(R))
             /\ Weight(Concat(Concat(SubSeq(ms, 1, n))), f)
                  = Weight(Concat(Concat(SubSeq(ms, 1, n - 1))), f) + Weight(Concat(ms[n]), f)
  <2> DEFINE t == SubSeq(ms, 1, n - 1)
  <2>1. t \in Seq(Seq(Seq(R))) /\ ms[n] \in Seq(Seq(R)) /\ Len(ms) \in Nat
    OBVIOUS
  <2>2. SubSeq(ms, 1, n) = t \o <<ms[n]>>
    <3>1. 1 \in 1 .. Len(ms) /\ n \in 1 .. Len(ms)
      BY <2>1
    <3> QED
      BY <3>1, SubSeqRecursiveSecond
  <2> HIDE DEF t
  <2>3. t \o <<ms[n]>> = Append(t, ms[n])
    BY <2>1
  <2>4. Concat(Append(t, ms[n])) = Concat(t) \o ms[n]
    BY <2>1, ConcatAppend
  <2>5. Concat(t) \in Seq(Seq(R))
    BY <2>1, ConcatSeq
  <2>6. Weight(Concat(Concat(t) \o ms[n]), f)
            = Weight(Concat(Concat(t)), f) + Weight(Concat(ms[n]), f)
    BY <2>1, <2>5, MoreBatchesWeigh
  <2> QED
    BY <2>1, <2>2, <2>3, <2>4, <2>6 DEF t
<1> QED
  BY <1>2, <1>4, <1>5, <1>6

(* Result batches that become morsels of one batch each.                   *)
LEMMA MorselsOfBatches ==
    ASSUME NEW S, NEW out \in Seq(Seq(S)), NEW ms, ms = [b \in DOMAIN out |-> <<out[b]>>]
    PROVE  ms \in Seq(Seq(Seq(S))) /\ Concat(ms) = out
<1> DEFINE n == Len(out)
           c == [i \in 0 .. n |-> SubSeq(out, 1, i)]
<1>1. n \in Nat /\ DOMAIN out = 1 .. n /\ \A i \in 1 .. n : out[i] \in Seq(S)
  OBVIOUS
<1>2. ms \in Seq(Seq(Seq(S))) /\ Len(ms) = n /\ \A i \in 1 .. n : ms[i] = <<out[i]>>
  <2>1. \A i \in 1 .. n : <<out[i]>> \in Seq(Seq(S))
    BY <1>1
  <2>2. ms \in [1 .. n -> Seq(Seq(S))]
    BY <1>1, <2>1
  <2> QED
    BY <1>1, <2>2
<1>3. c[0] = <<>>
  BY <1>1, SubSeqEmpty
<1>4. ASSUME NEW i \in 1 .. n PROVE c[i] = c[i - 1] \o ms[i]
  <2>1. 1 \in 1 .. Len(out) /\ i \in 0 .. n /\ i - 1 \in 0 .. n
    BY <1>1
  <2>2. SubSeq(out, 1, i) = SubSeq(out, 1, i - 1) \o <<out[i]>>
    BY <2>1, SubSeqRecursiveSecond
  <2> QED
    BY <1>2, <2>1, <2>2
<1>5. c[n] = out
  BY <1>1, SubSeqFull
<1> HIDE DEF c
<1>6. Concat(ms) = c[n]
  BY <1>2, <1>3, <1>4, ConcatIs
<1> QED
  BY <1>2, <1>5, <1>6

(* rechunk cuts the rows and loses none.                                   *)
LEMMA Multiples ==
    ASSUME NEW B \in Nat \ {0}, NEW L \in Nat
    PROVE  LET n == (L + B - 1) \div B
           IN  /\ n \in Nat /\ n * B >= L /\ (L = 0 => n = 0)
               /\ \A b \in 1 .. n : /\ (b - 1) * B \in Nat /\ (b - 1) * B < L
                                   /\ b * B = (b - 1) * B + B /\ b * B \in Nat
<1> DEFINE n == (L + B - 1) \div B
           r == (L + B - 1) % B
<1>1. L + B - 1 = B * n + r /\ r \in 0 .. B - 1 /\ n \in Int
  OBVIOUS
<1> HIDE DEF n, r
<1>2. n >= 0
  <2>1. CASE n <= -1
    <3>1. B * n <= B * (-1)
      BY <1>1, <2>1
    <3> QED
      BY <1>1, <3>1
  <2> QED
    BY <1>1, <2>1
<1>3. n * B = B * n
  BY <1>1
<1>4. n * B >= L
  BY <1>1, <1>3
<1>5. ASSUME NEW b \in 1 .. n
      PROVE  /\ (b - 1) * B \in Nat /\ (b - 1) * B < L
             /\ b * B = (b - 1) * B + B /\ b * B \in Nat
  <2>1. b \in Nat /\ b - 1 \in Nat /\ b <= n
    BY <1>1, <1>2
  <2>2. b * B = (b - 1) * B + B
    BY <2>1
  <2>3. (b - 1) * B \in Nat /\ b * B \in Nat
    BY <2>1
  <2>4. b * B <= n * B
    <3>1. n - b \in Nat
      BY <1>1, <2>1
    <3>2. (n - b) * B \in Nat
      BY <3>1
    <3>3. n * B = b * B + (n - b) * B
      BY <1>1, <2>1
    <3>4. n * B \in Int
      BY <1>1
    <3> QED
      BY <2>3, <3>2, <3>3, <3>4
  <2> DEFINE x == (b - 1) * B
             y == b * B
             z == n * B
  <2>5. x \in Nat /\ y \in Nat /\ y = x + B /\ y <= z /\ z = L + B - 1 - r /\ r >= 0 /\ r \in Int
    BY <1>1, <1>3, <2>2, <2>3, <2>4
  <2> HIDE DEF x, y, z
  <2>6. x < L
    BY <2>5
  <2> QED
    BY <2>2, <2>3, <2>6 DEF x
<1>6. L = 0 => n = 0
  <2> SUFFICES ASSUME L = 0, n # 0 PROVE FALSE
    OBVIOUS
  <2>1. 1 \in 1 .. n
    BY <1>1, <1>2
  <2>2. (1 - 1) * B < L
    BY <1>5, <2>1
  <2> QED
    BY <2>2
<1> QED
  BY <1>1, <1>2, <1>4, <1>5, <1>6 DEF n

(* Cutting rows into batches loses none and keeps their order.             *)
LEMMA RechunkConcat ==
    ASSUME NEW S, NEW rows \in Seq(S)
    PROVE  Rechunk(rows) \in Seq(Seq(S)) /\ Concat(Rechunk(rows)) = rows
<1> DEFINE L == Len(rows)
           n == (L + BatchRows - 1) \div BatchRows
           h == Rechunk(rows)
           last(b) == Min({b * BatchRows, L})
           c == [b \in 0 .. n |-> SubSeq(rows, 1, IF b = 0 THEN 0 ELSE last(b))]
<1>1. L \in Nat /\ BatchRows \in Nat \ {0}
  BY SinksAssumption
<1> HIDE DEF L
<1>2. /\ n \in Nat /\ n * BatchRows >= L /\ (L = 0 => n = 0)
      /\ \A b \in 1 .. n : /\ (b - 1) * BatchRows \in Nat /\ (b - 1) * BatchRows < L
                           /\ b * BatchRows = (b - 1) * BatchRows + BatchRows
                           /\ b * BatchRows \in Nat
  BY <1>1, Multiples
<1>3. DOMAIN h = 1 .. n
      /\ \A b \in 1 .. n : h[b] = SubSeq(rows, (b - 1) * BatchRows + 1, last(b))
  BY DEF Rechunk, L
<1>4. h = [b \in 1 .. n |-> h[b]]
  BY DEF Rechunk, L
<1> HIDE DEF n, h
<1>5. ASSUME NEW b \in 1 .. n
      PROVE  /\ last(b) \in (b - 1) * BatchRows .. L
             /\ last(b) = b * BatchRows \/ last(b) = L
             /\ b # 1 => last(b - 1) = (b - 1) * BatchRows
             /\ b = n => last(b) = L
  <2> DEFINE x == (b - 1) * BatchRows
             y == b * BatchRows
  <2>1. x \in Nat /\ y \in Nat /\ x < L /\ y = x + BatchRows
    BY <1>2
  <2>2. b = n => y >= L
    BY <1>2
  <2> HIDE DEF x, y
  <2>8. x \in Int /\ y \in Int /\ L \in Int
    BY <1>1, <2>1
  <2>3. Min({y, L}) \in {y, L} /\ Min({y, L}) <= y /\ Min({y, L}) <= L
    BY <2>8, MinIs
  <2>4. Min({x, L}) \in {x, L} /\ Min({x, L}) <= x /\ Min({x, L}) <= L
    BY <2>8, MinIs
  <2>5. Min({x, L}) = x
    BY <1>1, <2>1, <2>4
  <2>6. Min({y, L}) \in x .. L
    BY <1>1, <2>1, <2>3
  <2>7. b = n => Min({y, L}) = L
    BY <1>1, <2>1, <2>2, <2>3
  <2> QED
    BY <2>3, <2>5, <2>6, <2>7 DEF x, y
<1>12. \A b \in 0 .. n : c[b] = SubSeq(rows, 1, IF b = 0 THEN 0 ELSE last(b))
  OBVIOUS
<1> HIDE DEF c, last
<1>6. h \in Seq(Seq(S))
  <2>1. ASSUME NEW b \in 1 .. n PROVE h[b] \in Seq(S)
    <3> DEFINE first == (b - 1) * BatchRows + 1
    <3>1. first \in Int /\ last(b) \in Int /\ first >= 1 /\ last(b) <= L
      <4> DEFINE x == (b - 1) * BatchRows
      <4>1. x \in Nat /\ last(b) \in x .. L
        BY <1>2, <1>5
      <4> HIDE DEF x
      <4>2. x + 1 \in Int /\ x + 1 >= 1 /\ last(b) \in Int /\ last(b) <= L
        BY <1>1, <4>1
      <4> QED
        BY <4>2 DEF x
    <3> HIDE DEF first
    <3>2. \A i \in first .. last(b) : rows[i] \in S
      BY <1>1, <3>1 DEF L
    <3>3. SubSeq(rows, first, last(b)) \in Seq(S)
      BY <3>1, <3>2, SubSeqProperties
    <3> QED
      BY <1>3, <3>3 DEF first
  <2>2. h \in [1 .. n -> Seq(S)]
    BY <1>4, <2>1
  <2> QED
    BY <1>2, <2>2
<1>7. Len(h) = n
  BY <1>2, <1>3, <1>6
<1>8. c[0] = <<>>
  <2>1. c[0] = SubSeq(rows, 1, 0)
    BY <1>2, <1>12
  <2>2. SubSeq(rows, 1, 0) = <<>>
    BY SubSeqEmpty
  <2> QED
    BY <2>1, <2>2
<1>9. ASSUME NEW b \in 1 .. n PROVE c[b] = c[b - 1] \o h[b]
  <2> DEFINE x == (b - 1) * BatchRows
  <2>1. x \in Nat /\ x < L /\ last(b) \in x .. L
    BY <1>2, <1>5
  <2>6. b = 1 => x = 0
    BY <1>1
  <2>2. c[b] = SubSeq(rows, 1, last(b)) /\ h[b] = SubSeq(rows, x + 1, last(b))
    BY <1>2, <1>3, <1>12
  <2>3. c[b - 1] = SubSeq(rows, 1, x)
    <3>1. b - 1 \in 0 .. n
      BY <1>2
    <3>2. CASE b = 1
      BY <1>12, <2>6, <3>1, <3>2
    <3>3. CASE b # 1
      <4>1. last(b - 1) = x
        BY <1>5, <3>3
      <4>2. b - 1 # 0
        BY <3>3
      <4> QED
        BY <1>12, <3>1, <4>1, <4>2
    <3> QED
      BY <3>2, <3>3
  <2> HIDE DEF x
  <2>4. 1 \in 1 .. Len(rows) + 1 /\ x \in 1 - 1 .. Len(rows) /\ last(b) \in x .. Len(rows)
    BY <1>1, <2>1 DEF L
  <2>5. SubSeq(rows, 1, x) \o SubSeq(rows, x + 1, last(b)) = SubSeq(rows, 1, last(b))
    BY <2>4, ConcatAdjacentSubSeq
  <2> QED
    BY <2>2, <2>3, <2>5
<1>10. c[n] = rows
  <2>1. CASE n = 0
    <3>1. L = 0
      BY <1>1, <1>2, <2>1
    <3>2. rows = <<>>
      BY <3>1 DEF L
    <3> QED
      BY <1>8, <2>1, <3>2
  <2>2. CASE n # 0
    <3>1. n \in 1 .. n
      BY <1>2, <2>2
    <3>2. last(n) = L
      BY <1>5, <3>1
    <3>3. c[n] = SubSeq(rows, 1, L)
      BY <1>2, <1>12, <2>2, <3>2
    <3> QED
      BY <3>3, SubSeqFull DEF L
  <2> QED
    BY <2>1, <2>2
<1>11. Concat(h) = c[Len(h)]
  BY <1>6, <1>7, <1>8, <1>9, ConcatIs
<1> QED
  BY <1>6, <1>7, <1>10, <1>11 DEF h

-----------------------------------------------------------------------------
(* Sorting.                                                                *)

(* The order of the positions: by key, and among equals by place.          *)
Earlier(rows, i, j) == \/ rows[i].key < rows[j].key
                       \/ rows[i].key = rows[j].key /\ i < j
Rank(rows, i) == Cardinality({j \in DOMAIN rows : Earlier(rows, j, i)})
PlaceOf(rows, n) == CHOOSE i \in DOMAIN rows : Rank(rows, i) = n - 1

Keyed(rows) == \A i \in DOMAIN rows : rows[i].key \in Int

(* The stable sort puts each row where its rank says.                      *)
LEMMA SortByRank ==
    ASSUME NEW rows
    PROVE  StableSort(rows) = [n \in DOMAIN rows |-> rows[PlaceOf(rows, n)]]
BY DEF StableSort, PlaceOf, Rank, Earlier

(* A position that comes earlier has a lower rank.                         *)
LEMMA RankOrder ==
    ASSUME NEW R, NEW rows \in Seq(R), Keyed(rows),
           NEW i \in DOMAIN rows, NEW j \in DOMAIN rows, Earlier(rows, i, j)
    PROVE  Rank(rows, i) < Rank(rows, j)
<1> DEFINE D == DOMAIN rows
           N == Len(rows)
           A == {x \in D : Earlier(rows, x, i)}
           B == {x \in D : Earlier(rows, x, j)}
<1>1. D = 1 .. N /\ N \in Nat
  OBVIOUS
<1>2. A \in SUBSET (1 .. N) /\ B \in SUBSET (1 .. N)
  BY <1>1
<1>3. A \subseteq B /\ i \in B /\ i \notin A
  BY <1>1 DEF Earlier, Keyed
<1>4. IsFiniteSet(A) /\ IsFiniteSet(B) /\ Cardinality(A) \in Nat /\ Cardinality(B) \in Nat
  <2> HIDE DEF A, B
  <2> QED
    BY <1>1, <1>2, Parts
<1> HIDE DEF A, B
<1>5. Cardinality(A \cup {i}) = Cardinality(A) + 1
  BY <1>3, <1>4, FS_AddElement
<1>6. Cardinality(A \cup {i}) <= Cardinality(B)
  <2>1. A \cup {i} \subseteq B
    BY <1>3
  <2> QED
    BY <1>4, <2>1, FS_Subset
<1> QED
  BY <1>4, <1>5, <1>6 DEF Rank, A, B

(* Every rank up to the number of rows is taken by exactly one position.   *)
LEMMA RanksTaken ==
    ASSUME NEW R, NEW rows \in Seq(R), Keyed(rows)
    PROVE  /\ \A n \in DOMAIN rows : /\ PlaceOf(rows, n) \in DOMAIN rows
                                     /\ Rank(rows, PlaceOf(rows, n)) = n - 1
           /\ \A i \in DOMAIN rows : \E n \in DOMAIN rows : PlaceOf(rows, n) = i
<1> DEFINE N == Len(rows)
           D == 1 .. N
           Z == 0 .. N - 1
           f == [i \in D |-> Rank(rows, i)]
<1>1. DOMAIN rows = D /\ N \in Nat
  OBVIOUS
<1>2. ASSUME NEW i \in D PROVE Rank(rows, i) \in Z
  <2> DEFINE A == {x \in D : Earlier(rows, x, i)}
             C == (1 .. N) \ {i}
  <2>1. A \in SUBSET (1 .. N) /\ i \notin A
    BY <1>1 DEF Earlier, Keyed
  <2>2. A \subseteq C
    BY <2>1
  <2>3. IsFiniteSet(1 .. N) /\ Cardinality(1 .. N) = N
    BY <1>1, FS_Interval
  <2>4. IsFiniteSet(C) /\ Cardinality(C) = N - 1
    BY <2>3, FS_RemoveElement
  <2> HIDE DEF A, C
  <2>5. IsFiniteSet(A) /\ Cardinality(A) \in Nat
    BY <1>1, <2>1, Parts
  <2>6. Cardinality(A) <= N - 1
    BY <2>2, <2>4, FS_Subset
  <2>7. Rank(rows, i) = Cardinality(A)
    BY <1>1 DEF Rank, A
  <2> QED
    BY <1>1, <2>5, <2>6, <2>7
<1>3. ASSUME NEW i \in D, NEW j \in D, Rank(rows, i) = Rank(rows, j) PROVE i = j
  <2> SUFFICES ASSUME i # j PROVE FALSE
    OBVIOUS
  <2>1. Earlier(rows, i, j) \/ Earlier(rows, j, i)
    BY <1>1 DEF Earlier, Keyed
  <2>2. i \in DOMAIN rows /\ j \in DOMAIN rows
    BY <1>1
  <2>3. Rank(rows, i) < Rank(rows, j) \/ Rank(rows, j) < Rank(rows, i)
    BY <2>1, <2>2, RankOrder
  <2>4. Rank(rows, i) \in Int
    BY <1>2
  <2> QED
    BY <1>3, <2>3, <2>4
<1>4. f \in Injection(D, Z)
  BY <1>2, <1>3 DEF Injection, IsInjective
<1>5. IsFiniteSet(D) /\ IsFiniteSet(Z) /\ Cardinality(D) = N /\ Cardinality(Z) = N
  <2>1. 1 \in Int /\ N \in Int /\ 0 \in Int /\ N - 1 \in Int
    BY <1>1
  <2>2. IsFiniteSet(D) /\ Cardinality(D) = N
    BY <1>1, FS_Interval
  <2>3. IsFiniteSet(Z) /\ Cardinality(Z) = IF 0 > N - 1 THEN 0 ELSE (N - 1) - 0 + 1
    BY <2>1, FS_Interval
  <2> QED
    BY <1>1, <2>2, <2>3
<1>6. f \in Surjection(D, Z)
  <2> HIDE DEF f, D, Z
  <2> QED
    BY <1>4, <1>5, FS_Injection
<1>7. ASSUME NEW n \in D PROVE PlaceOf(rows, n) \in D /\ Rank(rows, PlaceOf(rows, n)) = n - 1
  <2>1. n - 1 \in Z
    BY <1>1
  <2>2. \E i \in D : f[i] = n - 1
    BY <1>6, <2>1 DEF Surjection
  <2>3. \E i \in DOMAIN rows : Rank(rows, i) = n - 1
    BY <1>1, <2>2
  <2> QED
    BY <1>1, <2>3 DEF PlaceOf
<1>8. ASSUME NEW i \in D PROVE \E n \in D : PlaceOf(rows, n) = i
  <2> DEFINE n == Rank(rows, i) + 1
  <2>1. n \in D /\ n - 1 = Rank(rows, i)
    BY <1>1, <1>2
  <2> HIDE DEF n
  <2>2. PlaceOf(rows, n) \in D /\ Rank(rows, PlaceOf(rows, n)) = Rank(rows, i)
    BY <1>7, <2>1
  <2>3. PlaceOf(rows, n) = i
    BY <1>3, <2>2
  <2> QED
    BY <2>1, <2>3
<1> QED
  BY <1>1, <1>7, <1>8

(* sort_indices puts the rows in order and keeps each as often as it was.  *)
LEMMA SortKeeps ==
    ASSUME NEW R, NEW rows \in Seq(R), Keyed(rows)
    PROVE  LET s == StableSort(rows)
           IN  /\ s \in Seq(R) /\ Len(s) = Len(rows) /\ Keyed(s)
               /\ \A i, j \in DOMAIN s : i <= j => s[i].key <= s[j].key
               /\ \A S : Weight(s, Ind(R, S)) = Weight(rows, Ind(R, S))
<1> DEFINE N == Len(rows)
           D == 1 .. N
           s == StableSort(rows)
           at(n) == PlaceOf(rows, n)
<1>1. DOMAIN rows = D /\ N \in Nat /\ \A i \in D : rows[i] \in R
  OBVIOUS
<1>2. s = [n \in D |-> rows[at(n)]]
  BY <1>1, SortByRank
<1>3. /\ \A n \in D : at(n) \in D /\ Rank(rows, at(n)) = n - 1
      /\ \A i \in D : \E n \in D : at(n) = i
  BY <1>1, RanksTaken
<1> HIDE DEF at, s, D
<1>4. s \in [D -> R]
  BY <1>1, <1>2, <1>3
<1>5. s \in Seq(R) /\ Len(s) = N /\ DOMAIN s = D
  BY <1>1, <1>4 DEF D
<1>6. Keyed(s)
  BY <1>1, <1>2, <1>3, <1>5 DEF Keyed
<1>7. ASSUME NEW i \in D, NEW j \in D, i <= j PROVE s[i].key <= s[j].key
  <2>1. s[i] = rows[at(i)] /\ s[j] = rows[at(j)] /\ at(i) \in D /\ at(j) \in D
    BY <1>2, <1>3
  <2>2. rows[at(i)].key \in Int /\ rows[at(j)].key \in Int
    BY <1>1, <2>1 DEF Keyed
  <2>3. ASSUME rows[at(j)].key < rows[at(i)].key PROVE FALSE
    <3>1. Earlier(rows, at(j), at(i))
      BY <2>3 DEF Earlier
    <3>2. Rank(rows, at(j)) < Rank(rows, at(i))
      BY <1>1, <2>1, <3>1, RankOrder
    <3>3. Rank(rows, at(j)) = j - 1 /\ Rank(rows, at(i)) = i - 1
      BY <1>3
    <3>4. i \in Nat /\ j \in Nat
      BY <1>1 DEF D
    <3> QED
      BY <1>7, <3>2, <3>3, <3>4
  <2> QED
    BY <2>1, <2>2, <2>3
<1>8. ASSUME NEW S PROVE Weight(s, Ind(R, S)) = Weight(rows, Ind(R, S))
  <2> DEFINE A == {n \in DOMAIN s : s[n] \in S}
             B == {i \in DOMAIN rows : rows[i] \in S}
             g == [n \in A |-> at(n)]
  <2>1. IsFiniteSet(A) /\ Weight(s, Ind(R, S)) = Cardinality(A)
    BY <1>5, WeightCounts
  <2>2. Weight(rows, Ind(R, S)) = Cardinality(B)
    BY WeightCounts
  <2>3. \A n \in A : n \in D /\ at(n) \in B
    BY <1>1, <1>2, <1>3, <1>5
  <2>4. \A m, n \in A : at(m) = at(n) => m = n
    <3> SUFFICES ASSUME NEW m \in A, NEW n \in A, at(m) = at(n) PROVE m = n
      OBVIOUS
    <3>1. Rank(rows, at(m)) = m - 1 /\ Rank(rows, at(n)) = n - 1 /\ m \in D /\ n \in D
      BY <1>3, <2>3
    <3>2. m \in Nat /\ n \in Nat
      BY <1>1, <3>1 DEF D
    <3> QED
      BY <3>1, <3>2
  <2>5. \A i \in B : \E n \in A : at(n) = i
    BY <1>1, <1>2, <1>3, <1>5
  <2> HIDE DEF A, B
  <2>6. g \in Bijection(A, B)
    BY <2>3, <2>4, <2>5 DEF Bijection, Injection, IsInjective, Surjection
  <2>7. Cardinality(B) = Cardinality(A)
    BY <2>1, <2>6, FS_Bijection DEF ExistsBijection
  <2> QED
    BY <2>1, <2>2, <2>7
<1> QED
  BY <1>5, <1>6, <1>7, <1>8 DEF s

(* The first rows of a sequence.                                           *)
LEMMA FirstRowsAre ==
    ASSUME NEW R, NEW s \in Seq(R), NEW n \in Nat
    PROVE  LET t == FirstRows(s, n)
           IN  /\ t \in Seq(R) /\ Len(t) = IF n <= Len(s) THEN n ELSE Len(s)
               /\ \A i \in 1 .. Len(t) : i \in 1 .. Len(s) /\ t[i] = s[i]
               /\ n >= Len(s) => t = s
               /\ \A f \in [R -> Nat] : Weight(t, f) <= Weight(s, f)
<1> DEFINE m == Min({n, Len(s)})
           t == FirstRows(s, n)
           N == Len(s)
<1>1. N \in Nat /\ \A i \in 1 .. N : s[i] \in R
  OBVIOUS
<1>2. m = IF n <= N THEN n ELSE N
  <2>1. n \in Int /\ N \in Int
    BY <1>1
  <2>2. m \in {n, N} /\ m <= n /\ m <= N
    BY <2>1, MinIs
  <2> HIDE DEF m
  <2> QED
    BY <2>1, <2>2
<1>3. t = SubSeq(s, 1, m)
  BY DEF FirstRows
<1>4. m \in 0 .. N
  BY <1>1, <1>2
<1> HIDE DEF m, t, N
<1>5. t \in Seq(R) /\ Len(t) = m /\ \A i \in 1 .. m : t[i] = s[i]
  <2>1. m \in Int /\ 1 \in Int /\ \A i \in 1 .. m : s[i] \in R
    BY <1>1, <1>4
  <2>2. /\ SubSeq(s, 1, m) \in Seq(R)
        /\ Len(SubSeq(s, 1, m)) = IF 1 <= m THEN m - 1 + 1 ELSE 0
        /\ \A i \in 1 .. m - 1 + 1 : SubSeq(s, 1, m)[i] = s[1 + i - 1]
    BY <2>1, SubSeqProperties
  <2>3. m - 1 + 1 = m /\ (~(1 <= m) => m = 0)
    BY <1>1, <1>4
  <2>4. \A i \in 1 .. m : 1 + i - 1 = i
    BY <2>1
  <2> QED
    BY <1>3, <2>2, <2>3, <2>4
<1>6. n >= N => t = s
  <2>1. n >= N => m = N
    BY <1>1, <1>2
  <2>2. SubSeq(s, 1, N) = s
    BY SubSeqFull DEF N
  <2> QED
    BY <1>3, <2>1, <2>2
<1>7. ASSUME NEW f \in [R -> Nat] PROVE Weight(t, f) <= Weight(s, f)
  <2> DEFINE u == SubSeq(s, m + 1, N)
  <2>1. u \in Seq(R)
    <3>1. m + 1 \in Int /\ N \in Int /\ \A i \in m + 1 .. N : s[i] \in R
      BY <1>1, <1>4
    <3> QED
      BY <3>1, SubSeqProperties
  <2>2. t \o u = s
    <3>1. 1 \in 1 .. Len(s) + 1 /\ m \in 1 - 1 .. Len(s) /\ N \in m .. Len(s)
      BY <1>1, <1>4 DEF N
    <3>2. SubSeq(s, 1, m) \o SubSeq(s, m + 1, N) = SubSeq(s, 1, N)
      BY <3>1, ConcatAdjacentSubSeq
    <3> QED
      BY <1>3, <3>2, SubSeqFull DEF N
  <2> HIDE DEF u
  <2>3. Weight(t \o u, f) = Weight(t, f) + Weight(u, f)
    BY <1>5, <2>1, WeightTogether
  <2>4. Weight(t, f) \in Nat /\ Weight(u, f) \in Nat
    BY <1>5, <2>1, WeightSteps
  <2> QED
    BY <2>2, <2>3, <2>4
<1>8. \A i \in 1 .. m : i \in 1 .. N
  BY <1>1, <1>4
<1> QED
  BY <1>2, <1>5, <1>6, <1>7, <1>8 DEF t, N

Ascending(s) == \A i, j \in DOMAIN s : i <= j => s[i].key <= s[j].key
UpTo(R, v) == {r \in R : r.key <= v}

(* In a sorted sequence the rows with a key of at most v come first.       *)
LEMMA LowRowsFirst ==
    ASSUME NEW R, \A r \in R : r.key \in Int, NEW s \in Seq(R), Ascending(s), NEW v \in Int
    PROVE  /\ Weight(s, Ind(R, UpTo(R, v))) \in 0 .. Len(s)
           /\ \A i \in 1 .. Len(s) : s[i].key <= v <=> i <= Weight(s, Ind(R, UpTo(R, v)))
<1> DEFINE f == Ind(R, UpTo(R, v))
           Good(u) == /\ Weight(u, f) \in 0 .. Len(u)
                      /\ \A i \in 1 .. Len(u) : u[i].key <= v <=> i <= Weight(u, f)
           T == {u \in Seq(R) : Ascending(u) => Good(u)}
<1>1. f \in [R -> Nat] /\ \A x \in R : f[x] = IF x.key <= v THEN 1 ELSE 0
  BY DEF Ind, UpTo
<1> HIDE DEF f
<1>2. <<>> \in T
  <2>1. Weight(<<>>, f) = 0
    BY <1>1, WeightSteps
  <2> QED
    BY <2>1
<1>3. ASSUME NEW u \in Seq(R), NEW x \in R, u \in T PROVE Append(u, x) \in T
  <2> DEFINE t == Append(u, x)
             n == Len(u)
  <2>1. t \in Seq(R) /\ Len(t) = n + 1 /\ n \in Nat /\ t[n + 1] = x
        /\ (\A i \in 1 .. n : t[i] = u[i] /\ u[i] \in R)
        /\ DOMAIN t = 1 .. n + 1 /\ DOMAIN u = 1 .. n
    OBVIOUS
  <2>2. Weight(t, f) = Weight(u, f) + f[x]
    BY <1>1, WeightSteps
  <2> HIDE DEF t, n
  <2> SUFFICES ASSUME Ascending(t) PROVE Good(t)
    BY <2>1 DEF t
  <2>3. Ascending(u)
    <3>1. \A i \in 1 .. n : i \in 1 .. n + 1
      BY <2>1
    <3> QED
      BY <2>1, <3>1 DEF Ascending
  <2>4. Good(u)
    BY <1>3, <2>3
  <2>5. \A i \in 1 .. n : u[i].key <= x.key
    <3>1. \A i \in 1 .. n : i \in 1 .. n + 1 /\ n + 1 \in 1 .. n + 1 /\ i <= n + 1
      BY <2>1
    <3> QED
      BY <2>1, <3>1 DEF Ascending
  <2>6. CASE x.key <= v
    <3>1. \A i \in 1 .. n : u[i].key <= v
      <4>1. \A i \in 1 .. n : u[i].key \in Int
        BY <2>1
      <4>2. x.key \in Int
        OBVIOUS
      <4> QED
        BY <2>5, <2>6, <4>1, <4>2
    <3>2. Weight(u, f) = n
      <4>1. Weight(u, f) \in 0 .. n
        BY <2>4 DEF n
      <4>2. CASE n = 0
        BY <4>1, <4>2
      <4>3. CASE n # 0
        <5>1. n \in 1 .. Len(u)
          BY <2>1, <4>3 DEF n
        <5>2. n <= Weight(u, f)
          BY <2>4, <3>1, <5>1 DEF n
        <5> QED
          BY <2>1, <4>1, <5>2
      <4> QED
        BY <4>2, <4>3
    <3>3. Weight(t, f) = n + 1
      BY <1>1, <2>2, <2>6, <3>2
    <3>4. \A i \in 1 .. n + 1 : t[i].key <= v
      <4>1. \A i \in 1 .. n + 1 : i \in 1 .. n \/ i = n + 1
        BY <2>1
      <4> QED
        BY <2>1, <2>6, <3>1, <4>1
    <3> QED
      BY <2>1, <3>3, <3>4
  <2>7. CASE ~(x.key <= v)
    <3>1. Weight(t, f) = Weight(u, f)
      <4>1. f[x] = 0
        BY <1>1, <2>7
      <4>2. Weight(u, f) \in Nat
        BY <1>1, WeightSteps
      <4> QED
        BY <2>2, <4>1, <4>2
    <3>2. Weight(u, f) \in 0 .. n
      BY <2>4 DEF n
    <3>3. ASSUME NEW i \in 1 .. n + 1 PROVE t[i].key <= v <=> i <= Weight(u, f)
      <4>1. CASE i \in 1 .. n
        BY <2>1, <2>4, <4>1 DEF n
      <4>2. CASE i = n + 1
        <5>1. ~(n + 1 <= Weight(u, f))
          BY <2>1, <3>2
        <5> QED
          BY <2>1, <2>7, <4>2, <5>1
      <4> QED
        BY <2>1, <4>1, <4>2
    <3> QED
      BY <2>1, <3>1, <3>2, <3>3
  <2> QED
    BY <2>6, <2>7
<1>4. Seq(R) \subseteq T
  <2> HIDE DEF T
  <2> QED
    BY <1>2, <1>3, Rowwise
<1>5. Good(s)
  BY <1>4
<1> QED
  BY <1>5 DEF f

(* Of the rows with a key of at most v, the first k rows have all, or are  *)
(* all such rows.                                                          *)
LEMMA FirstOfSorted ==
    ASSUME NEW R, \A r \in R : r.key \in Int, NEW s \in Seq(R), Ascending(s),
           NEW k \in Nat, NEW v \in Int
    PROVE  LET t == FirstRows(s, k)
               f == Ind(R, UpTo(R, v))
           IN  /\ Ascending(t)
               /\ Weight(t, f) = IF Weight(s, f) <= k THEN Weight(s, f) ELSE k
<1> DEFINE t == FirstRows(s, k)
           f == Ind(R, UpTo(R, v))
           a == Weight(t, f)
           b == Weight(s, f)
<1>1. /\ t \in Seq(R) /\ Len(t) = IF k <= Len(s) THEN k ELSE Len(s)
      /\ \A i \in 1 .. Len(t) : i \in 1 .. Len(s) /\ t[i] = s[i]
  BY FirstRowsAre
<1> HIDE DEF t
<1>2. Ascending(t)
  <2>1. DOMAIN t = 1 .. Len(t) /\ DOMAIN s = 1 .. Len(s)
    BY <1>1
  <2> QED
    BY <1>1, <2>1 DEF Ascending
<1>3. b \in 0 .. Len(s) /\ \A i \in 1 .. Len(s) : s[i].key <= v <=> i <= b
  BY LowRowsFirst
<1>4. a \in 0 .. Len(t) /\ \A i \in 1 .. Len(t) : t[i].key <= v <=> i <= a
  BY <1>1, <1>2, LowRowsFirst
<1>5. Len(s) \in Nat /\ Len(t) \in Nat
  BY <1>1
<1> HIDE DEF a, b
<1>6. \A i \in 1 .. Len(t) : i <= b <=> i <= a
  BY <1>1, <1>3, <1>4
<1>7. a = IF b <= Len(t) THEN b ELSE Len(t)
  <2>1. CASE a = Len(t)
    <3>1. CASE a = 0
      BY <1>1, <1>3, <1>5, <2>1, <3>1
    <3>2. CASE a # 0
      <4>1. a \in 1 .. Len(t)
        BY <1>4, <1>5, <3>2
      <4>2. a <= b
        BY <1>4, <1>5, <1>6, <4>1
      <4> QED
        BY <1>3, <1>4, <1>5, <2>1, <4>2
    <3> QED
      BY <3>1, <3>2
  <2>2. CASE a # Len(t)
    <3>1. a + 1 \in 1 .. Len(t)
      BY <1>4, <1>5, <2>2
    <3>2. ~(a + 1 <= b)
      BY <1>4, <1>5, <1>6, <3>1
    <3>3. CASE a = 0
      BY <1>3, <1>4, <1>5, <3>2, <3>3
    <3>4. CASE a # 0
      <4>1. a \in 1 .. Len(t)
        BY <1>4, <1>5, <3>4
      <4>2. a <= b
        BY <1>4, <1>5, <1>6, <4>1
      <4> QED
        BY <1>3, <1>4, <1>5, <3>2, <4>2
    <3> QED
      BY <3>3, <3>4
  <2> QED
    BY <2>1, <2>2
<1>8. a = IF b <= k THEN b ELSE k
  BY <1>1, <1>3, <1>5, <1>7
<1> QED
  BY <1>2, <1>8 DEF t, a, b

-----------------------------------------------------------------------------
(* Groups.                                                                 *)

(* A sum of one number and zeros.                                          *)
LEMMA SumOne ==
    ASSUME NEW n \in Nat, NEW f, Numbers(f, n), NEW w \in 1 .. n,
           \A i \in 1 .. n : i # w => f[i] = 0
    PROVE  SumFunction(f) = f[w]
<1> DEFINE z == [i \in 1 .. n |-> 0]
<1>1. Numbers(z, n) /\ z[w] = 0 /\ \A i \in 1 .. n : i # w => f[i] = z[i]
  BY DEF Numbers
<1>2. DOMAIN z = 1 .. n /\ \A i \in 1 .. n : z[i] = 0
  OBVIOUS
<1> HIDE DEF z
<1>3. SumFunction(z) = 0
  BY <1>2, SumZero
<1>4. SumFunction(f) = SumFunction(z) - z[w] + f[w]
  BY <1>1, SumChange
<1>5. f[w] \in Nat
  BY DEF Numbers
<1> QED
  BY <1>1, <1>3, <1>4, <1>5

(* Weights that agree on the rows give the same.                           *)
LEMMA SameWeights ==
    ASSUME NEW s, NEW f, NEW g, \A i \in 1 .. Len(s) : f[s[i]] = g[s[i]]
    PROVE  Weight(s, f) = Weight(s, g)
<1>1. [i \in 1 .. Len(s) |-> f[s[i]]] = [i \in 1 .. Len(s) |-> g[s[i]]]
  OBVIOUS
<1> QED
  BY <1>1 DEF Weight

(* What RowsIn keeps is in the set.                                        *)
LEMMA RowsInOnly ==
    ASSUME NEW R, NEW S, NEW s \in Seq(R)
    PROVE  RowsIn(s, S) \in Seq(R \cap S)
<1> DEFINE T == {u \in Seq(R) : RowsIn(u, S) \in Seq(R \cap S)}
<1>1. <<>> \in T
  <2>1. PICK k : KeptSteps(k, <<>>, S) /\ RowsIn(<<>>, S) = k[Len(<<>>)]
    BY RowsInSteps
  <2>2. RowsIn(<<>>, S) = <<>>
    BY <2>1 DEF KeptSteps
  <2>3. <<>> \in Seq(R) /\ <<>> \in Seq(R \cap S)
    OBVIOUS
  <2> QED
    BY <2>2, <2>3
<1>2. ASSUME NEW u \in Seq(R), NEW x \in R, u \in T PROVE Append(u, x) \in T
  <2>1. RowsIn(Append(u, x), S) = IF x \in S THEN Append(RowsIn(u, S), x) ELSE RowsIn(u, S)
    BY RowsInAppend
  <2>2. RowsIn(u, S) \in Seq(R \cap S)
    BY <1>2
  <2>3. x \in S => Append(RowsIn(u, S), x) \in Seq(R \cap S)
    BY <2>2
  <2>4. Append(u, x) \in Seq(R)
    OBVIOUS
  <2> QED
    BY <2>1, <2>2, <2>3, <2>4
<1>3. Seq(R) \subseteq T
  <2> HIDE DEF T
  <2> QED
    BY <1>1, <1>2, Rowwise
<1> QED
  BY <1>3

(* For how many rows with key k a row stands.                              *)
NOf(R, k) == [r \in R |-> IF r.key = k THEN r.n ELSE 0]
Loose == [id : Nat, key : Int, n : Nat]

(* How many rows have a key is a weight.                                   *)
LEMMA CountWeighs ==
    ASSUME NEW s \in Seq(Loose), NEW k
    PROVE  /\ CountOf(s, k) = Weight(s, NOf(Loose, k)) /\ CountOf(s, k) \in Nat
           /\ NOf(Loose, k) \in [Loose -> Nat]
<1> DEFINE f == NOf(Loose, k)
<1>1. f \in [Loose -> Nat]
  BY DEF NOf, Loose
<1>2. DOMAIN s = 1 .. Len(s) /\ \A i \in 1 .. Len(s) : s[i] \in Loose
  OBVIOUS
<1>3. [i \in DOMAIN s |-> IF s[i].key = k THEN s[i].n ELSE 0] = [i \in 1 .. Len(s) |-> f[s[i]]]
  BY <1>2 DEF NOf
<1>4. CountOf(s, k) = Weight(s, f)
  BY <1>3 DEF CountOf, Weight
<1> QED
  BY <1>1, <1>4, WeightSteps

(* A key has a count when a row has it.                                    *)
LEMMA KeyCounts ==
    ASSUME NEW s \in Seq(Rows), NEW k
    PROVE  /\ CountOf(s, k) \in Nat
           /\ CountOf(s, k) # 0 <=> \E i \in DOMAIN s : s[i].key = k
<1> DEFINE n == Len(s)
           f == [i \in DOMAIN s |-> IF s[i].key = k THEN s[i].n ELSE 0]
<1>1. n \in Nat /\ DOMAIN s = 1 .. n /\ \A i \in 1 .. n : s[i] \in Rows
  OBVIOUS
<1>2. \A i \in 1 .. n : s[i].n \in Nat \ {0}
  BY <1>1 DEF Rows
<1>3. Numbers(f, n)
  BY <1>1, <1>2 DEF Numbers
<1>4. \A i \in 1 .. n : f[i] = IF s[i].key = k THEN s[i].n ELSE 0
  BY <1>1
<1>5. CountOf(s, k) = SumFunction(f)
  BY DEF CountOf
<1> HIDE DEF f, n
<1>6. CountOf(s, k) \in Nat
  BY <1>1, <1>3, <1>5, SumNat
<1>7. ASSUME NEW i \in DOMAIN s, s[i].key = k PROVE CountOf(s, k) # 0
  <2>1. f[i] <= SumFunction(f) /\ f[i] \in Nat \ {0}
    BY <1>1, <1>2, <1>3, <1>4, <1>7, SumBound
  <2> QED
    BY <1>5, <1>6, <2>1
<1>8. ASSUME ~(\E i \in DOMAIN s : s[i].key = k) PROVE CountOf(s, k) = 0
  <2>1. \A i \in 1 .. n : f[i] = 0
    BY <1>1, <1>4, <1>8
  <2>2. DOMAIN f = 1 .. n
    BY <1>3 DEF Numbers
  <2> QED
    BY <1>1, <1>5, <2>1, <2>2, SumZero
<1> QED
  BY <1>6, <1>7, <1>8

Distinct(s) == \A i, j \in DOMAIN s : s[i].key = s[j].key => i = j

(* When no two rows have the same key, a row has the count of its key.     *)
LEMMA DistinctCounts ==
    ASSUME NEW s \in Seq(Rows), Distinct(s), NEW i \in DOMAIN s
    PROVE  CountOf(s, s[i].key) = s[i].n
<1> DEFINE n == Len(s)
           f == [j \in DOMAIN s |-> IF s[j].key = s[i].key THEN s[j].n ELSE 0]
<1>1. n \in Nat /\ DOMAIN s = 1 .. n /\ \A j \in 1 .. n : s[j] \in Rows
  OBVIOUS
<1>2. \A j \in 1 .. n : s[j].n \in Nat
  BY <1>1 DEF Rows
<1>3. Numbers(f, n)
  BY <1>1, <1>2 DEF Numbers
<1>4. f[i] = s[i].n /\ \A j \in 1 .. n : j # i => f[j] = 0
  BY <1>1 DEF Distinct
<1>5. CountOf(s, s[i].key) = SumFunction(f)
  BY DEF CountOf
<1> HIDE DEF f, n
<1> QED
  BY <1>1, <1>3, <1>4, <1>5, SumOne

(* Two things are two.                                                     *)
LEMMA PairSize ==
    ASSUME NEW a, NEW b, a # b
    PROVE  Cardinality({a, b}) = 2
<1>1. IsFiniteSet({a}) /\ Cardinality({a}) = 1 /\ b \notin {a}
  BY FS_Singleton
<1>2. Cardinality({a} \cup {b}) = Cardinality({a}) + 1
  BY <1>1, FS_AddElement
<1>3. {a} \cup {b} = {a, b}
  OBVIOUS
<1>4. Cardinality({a, b}) = Cardinality({a}) + 1
  BY <1>2, <1>3
<1>5. Cardinality({a}) + 1 = 2
  BY <1>1
<1> QED
  BY <1>4, <1>5

(* Grouping keeps the count of every key, and has one row for each.        *)
LEMMA GroupedCounts ==
    ASSUME NEW rows \in Seq(Rows)
    PROVE  LET g == Grouped(rows)
           IN  /\ g \in Seq(Rows) /\ Distinct(g)
               /\ \A i \in DOMAIN g : g[i].id = 0
               /\ \A k \in Int : CountOf(g, k) = CountOf(rows, k)
<1> DEFINE N == Len(rows)
           First(i) == \A j \in 1 .. i - 1 : rows[j].key # rows[i].key
           all == [i \in DOMAIN rows |->
                     [id |-> 0, key |-> rows[i].key,
                      n |-> IF First(i) THEN CountOf(rows, rows[i].key) ELSE 0]]
           P == {r \in Range(all) : r.n > 0}
           g == RowsIn(all, P)
<1>1. Grouped(rows) = g
  BY DEF Grouped
<1>2. N \in Nat /\ DOMAIN rows = 1 .. N /\ \A i \in 1 .. N : rows[i] \in Rows
  OBVIOUS
<1>3. \A i \in 1 .. N : rows[i].key \in Int /\ rows[i].n \in Nat \ {0}
  BY <1>2 DEF Rows
<1>4. rows \in Seq(Loose)
  <2>1. Rows \subseteq Loose
    BY DEF Rows, Loose
  <2> QED
    BY <2>1, SeqMonotonic
<1>5. \A k : CountOf(rows, k) \in Nat
  BY KeyCounts
<1> HIDE DEF First, N
<1>6. ASSUME NEW i \in 1 .. N
      PROVE  /\ all[i] \in Loose /\ all[i].id = 0 /\ all[i].key = rows[i].key
             /\ all[i].n = IF First(i) THEN CountOf(rows, rows[i].key) ELSE 0
  <2>1. all[i] = [id |-> 0, key |-> rows[i].key,
                  n |-> IF First(i) THEN CountOf(rows, rows[i].key) ELSE 0]
    BY <1>2
  <2>2. (IF First(i) THEN CountOf(rows, rows[i].key) ELSE 0) \in Nat
    BY <1>5
  <2> HIDE DEF all
  <2> QED
    BY <1>3, <2>1, <2>2 DEF Loose
<1>7. all \in Seq(Loose) /\ Len(all) = N /\ DOMAIN all = 1 .. N
  <2>1. all \in [1 .. N -> Loose]
    BY <1>2, <1>6
  <2> HIDE DEF all
  <2> QED
    BY <1>2, <2>1
<1>8. \A i \in 1 .. N : all[i] \in P <=> all[i].n > 0
  <2> HIDE DEF all
  <2>1. \A i \in 1 .. N : all[i] \in Range(all)
    BY <1>7 DEF Range
  <2> QED
    BY <2>1
<1>9. Loose \cap P \subseteq {r \in Rows : r.id = 0}
  <2> SUFFICES ASSUME NEW r \in Loose, r \in P PROVE r \in Rows /\ r.id = 0
    OBVIOUS
  <2> HIDE DEF all
  <2>1. PICK i \in 1 .. N : r = all[i]
    BY <1>7 DEF Range
  <2>2. r.id = 0 /\ r.n > 0 /\ r.n \in Nat
    BY <1>6, <2>1 DEF Loose
  <2>3. r.n \in Nat \ {0}
    BY <2>2
  <2> QED
    BY <2>2, <2>3 DEF Rows, Loose
<1> HIDE DEF all, P
<1>10. g \in Seq({r \in Rows : r.id = 0})
  <2>1. g \in Seq(Loose \cap P)
    BY <1>7, RowsInOnly
  <2> HIDE DEF g
  <2> QED
    BY <1>9, <2>1, SeqMonotonic
<1>11. g \in Seq(Rows) /\ \A i \in DOMAIN g : g[i].id = 0
  <2> HIDE DEF g
  <2>1. g \in Seq(Rows)
    BY <1>10, SeqMonotonic
  <2>2. \A i \in DOMAIN g : g[i] \in {r \in Rows : r.id = 0}
    BY <1>10
  <2> QED
    BY <2>1, <2>2
<1>12. g \in Seq(Loose)
  <2> HIDE DEF g
  <2>1. Rows \subseteq Loose
    BY DEF Rows, Loose
  <2> QED
    BY <1>11, <2>1, SeqMonotonic
(* The first row with a key is one, if there is a row with it.             *)
<1>13. ASSUME NEW k, ~(\E i \in 1 .. N : First(i) /\ rows[i].key = k)
       PROVE  \A i \in 1 .. N : rows[i].key # k
  <2> DEFINE U == {m \in Nat : \A i \in 1 .. N : i <= m => rows[i].key # k}
  <2>1. 0 \in U
    BY <1>2
  <2>2. ASSUME NEW m \in Nat, m \in U PROVE m + 1 \in U
    <3> SUFFICES ASSUME NEW i \in 1 .. N, i <= m + 1, rows[i].key = k PROVE FALSE
      OBVIOUS
    <3>1. ~First(i)
      BY <1>13
    <3>2. PICK j \in 1 .. i - 1 : rows[j].key = k
      BY <3>1 DEF First
    <3>3. j \in 1 .. N /\ j <= m
      BY <1>2
    <3> QED
      BY <2>2, <3>2, <3>3
  <2>3. Nat \subseteq U
    <3> HIDE DEF U
    <3> QED
      BY <2>1, <2>2, CountUp
  <2> QED
    BY <1>2, <2>3
<1>14. ASSUME NEW i \in 1 .. N, NEW j \in 1 .. N, First(i), First(j), rows[i].key = rows[j].key
       PROVE  i = j
  <2>1. ~(i < j) /\ ~(j < i)
    <3>1. i < j => i \in 1 .. j - 1
      BY <1>2
    <3>2. j < i => j \in 1 .. i - 1
      BY <1>2
    <3> QED
      BY <1>14, <3>1, <3>2 DEF First
  <2> QED
    BY <1>2, <2>1
<1>15. ASSUME NEW k \in Int PROVE CountOf(g, k) = CountOf(rows, k)
  <2> DEFINE f == NOf(Loose, k)
             m == Mask(Loose, P, f)
             h == [i \in 1 .. N |-> f[all[i]]]
  <2>1. f \in [Loose -> Nat] /\ CountOf(g, k) = Weight(g, f)
    BY <1>12, CountWeighs
  <2>2. Weight(g, f) = Weight(all, m)
    <3> HIDE DEF f
    <3> QED
      BY <1>7, <2>1, WeightIn
  <2>3. ASSUME NEW i \in 1 .. N
        PROVE  /\ m[all[i]] = f[all[i]]
               /\ f[all[i]] = IF First(i) /\ rows[i].key = k THEN CountOf(rows, k) ELSE 0
    <3>1. f[all[i]] = IF all[i].key = k THEN all[i].n ELSE 0
      BY <1>6 DEF NOf
    <3>2. m[all[i]] = IF all[i] \in P THEN f[all[i]] ELSE 0
      BY <1>6 DEF Mask
    <3>3. all[i].n \in Nat
      BY <1>6 DEF Loose
    <3> HIDE DEF f, m
    <3>4. all[i] \notin P => all[i].n = 0
      BY <1>8, <3>3
    <3> QED
      BY <1>6, <3>1, <3>2, <3>4
  <2> HIDE DEF f, m
  <2>4. Weight(all, m) = Weight(all, f)
    BY <1>7, <2>3, SameWeights
  <2>5. Weight(all, f) = SumFunction(h)
    BY <1>7 DEF Weight
  <2>6. Numbers(h, N)
    <3>1. \A i \in 1 .. N : f[all[i]] \in Nat
      BY <1>6, <2>1
    <3> QED
      BY <3>1 DEF Numbers
  <2>7. \A i \in 1 .. N : h[i] = IF First(i) /\ rows[i].key = k THEN CountOf(rows, k) ELSE 0
    BY <2>3
  <2> HIDE DEF h
  <2>8. SumFunction(h) = CountOf(rows, k)
    <3>1. CASE \E i \in 1 .. N : First(i) /\ rows[i].key = k
      <4>1. PICK i \in 1 .. N : First(i) /\ rows[i].key = k
        BY <3>1
      <4>2. \A j \in 1 .. N : j # i => h[j] = 0
        BY <1>14, <2>7, <4>1
      <4>3. SumFunction(h) = h[i]
        BY <1>2, <2>6, <4>2, SumOne
      <4> QED
        BY <2>7, <4>1, <4>3
    <3>2. CASE ~(\E i \in 1 .. N : First(i) /\ rows[i].key = k)
      <4>1. \A i \in 1 .. N : rows[i].key # k
        BY <1>13, <3>2
      <4>2. CountOf(rows, k) = 0
        BY <1>2, <4>1, KeyCounts
      <4>3. DOMAIN h = 1 .. N /\ \A i \in 1 .. N : h[i] = 0
        BY <2>6, <2>7, <4>1 DEF Numbers
      <4> QED
        BY <1>2, <4>2, <4>3, SumZero
    <3> QED
      BY <3>1, <3>2
  <2> QED
    BY <2>1, <2>2, <2>4, <2>5, <2>8
<1>16. Distinct(g)
  <2> SUFFICES ASSUME NEW a \in DOMAIN g, NEW b \in DOMAIN g, g[a].key = g[b].key, a # b
               PROVE  FALSE
    BY DEF Distinct
  <2> DEFINE k == g[a].key
             S == {r \in Loose : r.key = k}
             f == Ind(Loose, S)
             m == Mask(Loose, P, f)
             h == [i \in 1 .. N |-> m[all[i]]]
             A == {i \in DOMAIN g : g[i] \in S}
  <2>1. f \in [Loose -> Nat] /\ m \in [Loose -> Nat]
    BY DEF Ind, Mask
  <2>2. Weight(g, f) = Weight(all, m)
    <3> HIDE DEF f
    <3>1. all \in Seq(Loose) /\ f \in [Loose -> Nat]
      BY <1>7, <2>1
    <3> HIDE DEF all
    <3>2. Weight(RowsIn(all, P), f) = Weight(all, Mask(Loose, P, f))
      BY <3>1, WeightIn
    <3> QED
      BY <3>2
  <2>3. IsFiniteSet(A) /\ Weight(g, f) = Cardinality(A)
    BY <1>12, WeightCounts
  <2>4. {a, b} \subseteq A
    BY <1>12
  <2>5. ASSUME NEW i \in 1 .. N
        PROVE  m[all[i]] = IF First(i) /\ rows[i].key = k THEN 1 ELSE 0
    <3>1. m[all[i]] = IF all[i] \in P /\ all[i].key = k THEN 1 ELSE 0
      BY <1>6 DEF Mask, Ind
    <3> HIDE DEF m
    <3>2. all[i] \in P <=> First(i)
      <4>1. First(i) => all[i].n > 0
        <5>1. CountOf(rows, rows[i].key) \in Nat /\ CountOf(rows, rows[i].key) # 0
          BY <1>2, KeyCounts
        <5> QED
          BY <1>6, <5>1
      <4>2. ~First(i) => all[i].n = 0
        BY <1>6
      <4> QED
        BY <1>8, <4>1, <4>2
    <3> QED
      BY <1>6, <3>1, <3>2
  <2> HIDE DEF f, m, A, S, k
  <2>6. Weight(all, m) = SumFunction(h)
    BY <1>7 DEF Weight
  <2>7. Numbers(h, N)
    BY <1>6, <2>1 DEF Numbers
  <2>8. \A i \in 1 .. N : h[i] = IF First(i) /\ rows[i].key = k THEN 1 ELSE 0
    BY <2>5
  <2> HIDE DEF h
  <2>9. SumFunction(h) <= 1
    <3>1. CASE \E i \in 1 .. N : First(i) /\ rows[i].key = k
      <4>1. PICK i \in 1 .. N : First(i) /\ rows[i].key = k
        BY <3>1
      <4>2. \A j \in 1 .. N : j # i => h[j] = 0
        BY <1>14, <2>8, <4>1
      <4>3. SumFunction(h) = h[i]
        BY <1>2, <2>7, <4>2, SumOne
      <4> QED
        BY <2>8, <4>1, <4>3
    <3>2. CASE ~(\E i \in 1 .. N : First(i) /\ rows[i].key = k)
      <4>1. DOMAIN h = 1 .. N /\ \A i \in 1 .. N : h[i] = 0
        BY <2>7, <2>8, <3>2 DEF Numbers
      <4>2. SumFunction(h) = 0
        BY <1>2, <4>1, SumZero
      <4> QED
        BY <4>2
    <3> QED
      BY <3>1, <3>2
  <2>10. Cardinality({a, b}) = 2
    BY PairSize
  <2>11. Cardinality({a, b}) <= Cardinality(A) /\ Cardinality(A) \in Nat
    BY <2>3, <2>4, FS_Subset, FS_CardinalityType
  <2> HIDE DEF g
  <2>12. Cardinality(A) <= 1
    BY <2>2, <2>3, <2>6, <2>9
  <2> QED
    BY <2>10, <2>11, <2>12
<1> QED
  BY <1>1, <1>11, <1>15, <1>16

-----------------------------------------------------------------------------
(* What a sink keeps of the rows it is given.                              *)

Inds == {Ind(Rows, S) : S \in SUBSET Rows}
All == Ind(Rows, Rows)
Lows(v) == Ind(Rows, UpTo(Rows, v))

Limited(stage) == stage.sink = "limit" /\ stage.limit # NoLimit
Cap(stage) == IF stage.limit = 0 THEN 0 ELSE Bound(stage)

(* What a sink counts exactly until it is full: TOP-K the rows up to any   *)
(* key, LIMIT all rows, an aggregate the rows of each key, and the others  *)
(* the rows of any set.                                                    *)
Counted(stage) ==
    IF stage.sink = "aggregate" THEN {NOf(Rows, k) : k \in Int}
    ELSE IF stage.sink = "topk" THEN {Lows(v) : v \in Int} \cup {All}
    ELSE IF Limited(stage) THEN {All}
    ELSE Inds

(* What is held is enough, whatever else arrives.                          *)
Full(stage, h, f) ==
    \/ Limited(stage) /\ (stage.limit = 0 \/ Weight(Concat(h), f) >= Bound(stage))
    \/ stage.sink = "topk" /\ Weight(Concat(h), f) >= stage.k

Shape(stage, h) ==
    /\ h \in Seq(Seq(Rows))
    /\ Limited(stage) => Len(Concat(h)) <= Cap(stage)
    /\ stage.sink = "topk" => Len(Concat(h)) <= stage.k /\ Ascending(Concat(h))
    /\ stage.sink = "aggregate" => /\ Distinct(Concat(h))
                                   /\ \A i \in DOMAIN Concat(h) : Concat(h)[i].id = 0

(* What a sink counts are weights of rows.                                 *)
LEMMA Indicators ==
    /\ Inds \subseteq [Rows -> Nat]
    /\ All \in Inds /\ \A v : Lows(v) \in Inds
    /\ \A k : NOf(Rows, k) \in [Rows -> Nat]
    /\ \A stage : Counted(stage) \subseteq [Rows -> Nat]
    /\ \A stage : stage.sink # "aggregate" => Counted(stage) \subseteq Inds
    /\ \A r \in Rows : r.key \in Int /\ r.n \in Nat
<1>1. Inds \subseteq [Rows -> Nat]
  BY DEF Inds, Ind
<1>2. All \in Inds /\ \A v : Lows(v) \in Inds
  BY DEF Inds, All, Lows, UpTo
<1>3. \A r \in Rows : r.key \in Int /\ r.n \in Nat
  BY DEF Rows
<1>4. \A k : NOf(Rows, k) \in [Rows -> Nat]
  BY <1>3 DEF NOf
<1>5. \A stage : stage.sink # "aggregate" => Counted(stage) \subseteq Inds
  BY <1>2 DEF Counted
<1>6. \A stage : Counted(stage) \subseteq [Rows -> Nat]
  BY <1>1, <1>4, <1>5 DEF Counted
<1> QED
  BY <1>1, <1>2, <1>3, <1>4, <1>5, <1>6

(* The weight of what is held.                                             *)
LEMMA HeldWeighs ==
    ASSUME NEW h \in Seq(Seq(Rows)), NEW f \in [Rows -> Nat]
    PROVE  Concat(h) \in Seq(Rows) /\ Weight(Concat(h), f) \in Nat
BY ConcatSeq, WeightSteps

(* With 1 for every row the weight is the length.                          *)
LEMMA AllWeighs ==
    ASSUME NEW s \in Seq(Rows)
    PROVE  Weight(s, All) = Len(s) /\ Len(s) \in Nat
BY WeightAll DEF All

(* A stage has the fields of its type.                                     *)
LEMMA StageFields ==
    ASSUME NEW stage \in StageType
    PROVE  /\ stage.sink \in {"collect", "sort", "limit", "topk", "aggregate"}
           /\ stage.k \in Nat /\ stage.offset \in Nat
           /\ stage.limit \in Nat \/ stage.limit = NoLimit
           /\ Limited(stage) => stage.limit \in Nat /\ Bound(stage) \in Nat /\ Cap(stage) \in Nat
<1>1. /\ stage.sink \in {"collect", "sort", "limit", "topk", "aggregate"}
      /\ stage.k \in Nat /\ stage.offset \in Nat
      /\ stage.limit \in Nat \/ stage.limit = NoLimit
  BY DEF StageType
<1> QED
  BY <1>1 DEF Limited, Bound, Cap

(* A sink that is full stays so when it holds no less.                     *)
LEMMA FullGrows ==
    ASSUME NEW stage \in StageType, NEW h, NEW g, NEW f, Full(stage, h, f),
           Weight(Concat(h), f) \in Nat, Weight(Concat(g), f) \in Nat,
           Weight(Concat(g), f) >= Weight(Concat(h), f)
    PROVE  Full(stage, g, f)
<1> DEFINE a == Weight(Concat(h), f)
           b == Weight(Concat(g), f)
<1>1. a \in Nat /\ b \in Nat /\ b >= a
  OBVIOUS
<1>2. stage.k \in Nat /\ (Limited(stage) => Bound(stage) \in Nat)
  BY StageFields
<1>3. \/ Limited(stage) /\ (stage.limit = 0 \/ a >= Bound(stage))
      \/ stage.sink = "topk" /\ a >= stage.k
  BY DEF Full
<1> HIDE DEF a, b
<1>4. \/ Limited(stage) /\ (stage.limit = 0 \/ b >= Bound(stage))
      \/ stage.sink = "topk" /\ b >= stage.k
  BY <1>1, <1>2, <1>3
<1> QED
  BY <1>4 DEF Full, b

(* g is h with the rows of weight w added, or enough of them.              *)
Takes(stage, g, h, w) ==
    /\ Shape(stage, g)
    /\ \A f \in Counted(stage) :
          Full(stage, g, f) \/ Weight(Concat(g), f) = Weight(Concat(h), f) + w[f]
    /\ stage.sink # "aggregate" =>
          \A f \in Inds : Weight(Concat(g), f) <= Weight(Concat(h), f) + w[f]

Weights(rows) == [f \in [Rows -> Nat] |-> Weight(rows, f)]

(* LIMIT passes rows on until it has enough.                               *)
LEMMA LimitTakes ==
    ASSUME NEW stage \in StageType, stage.sink = "limit", NEW h, Shape(stage, h),
           NEW b \in Seq(Rows)
    PROVE  Takes(stage, LimitPush(stage, h, b), h, Weights(b))
<1> DEFINE w == Weights(b)
           rows == Len(Concat(h))
           room == IF rows > Bound(stage) THEN 0 ELSE Bound(stage) - rows
           kept == IF stage.limit = NoLimit THEN b ELSE FirstRows(b, room)
           g == LimitPush(stage, h, b)
<1>1. h \in Seq(Seq(Rows)) /\ (Limited(stage) => rows <= Cap(stage))
  BY DEF Shape
<1>2. Concat(h) \in Seq(Rows) /\ rows \in Nat
  BY <1>1, ConcatSeq
<1>3. g = IF stage.limit = 0 \/ kept = <<>> THEN h ELSE Append(h, kept)
  BY DEF LimitPush
<1>4. \A f \in [Rows -> Nat] : w[f] = Weight(b, f) /\ w[f] \in Nat /\ Weight(Concat(h), f) \in Nat
  BY <1>1, HeldWeighs, WeightSteps DEF Weights
<1>5. Inds \subseteq [Rows -> Nat] /\ All \in Inds /\ Counted(stage) \subseteq Inds
  BY Indicators
<1>6. (Limited(stage) <=> stage.limit # NoLimit)
      /\ (Limited(stage) => stage.limit \in Nat /\ Bound(stage) \in Nat)
  BY StageFields DEF Limited
<1> HIDE DEF w, g
<1>7. ASSUME kept \in Seq(Rows), \A f \in Inds : Weight(kept, f) <= Weight(b, f)
      PROVE  /\ g \in Seq(Seq(Rows))
             /\ Concat(g) = IF stage.limit = 0 \/ kept = <<>> THEN Concat(h) ELSE Concat(h) \o kept
             /\ \A f \in Inds :
                   Weight(Concat(g), f)
                     = Weight(Concat(h), f) + (IF stage.limit = 0 THEN 0 ELSE Weight(kept, f))
             /\ \A f \in Inds : Weight(Concat(g), f) <= Weight(Concat(h), f) + w[f]
  <2> HIDE DEF kept
  <2>1. g \in Seq(Seq(Rows))
    BY <1>1, <1>3, <1>7
  <2>2. Concat(Append(h, kept)) = Concat(h) \o kept
    BY <1>1, <1>7, ConcatAppend
  <2>3. ASSUME NEW f \in Inds
        PROVE  Weight(Concat(g), f)
                 = Weight(Concat(h), f) + (IF stage.limit = 0 THEN 0 ELSE Weight(kept, f))
    <3>1. f \in [Rows -> Nat]
      BY <1>5
    <3>2. Weight(Concat(h) \o kept, f) = Weight(Concat(h), f) + Weight(kept, f)
      BY <1>2, <1>7, <3>1, WeightTogether
    <3>3. kept = <<>> => Weight(kept, f) = 0
      BY <3>1, WeightSteps
    <3>4. Weight(Concat(h), f) \in Nat
      BY <1>4, <3>1
    <3>5. Weight(kept, f) \in Nat
      BY <1>7, <3>1, WeightSteps
    <3>6. CASE stage.limit = 0 \/ kept = <<>>
      <4>1. g = h
        BY <1>3, <3>6
      <4>2. (IF stage.limit = 0 THEN 0 ELSE Weight(kept, f)) = 0
        BY <3>3, <3>6
      <4> QED
        BY <3>4, <4>1, <4>2
    <3>7. CASE ~(stage.limit = 0 \/ kept = <<>>)
      BY <1>3, <2>2, <3>2, <3>7
    <3> QED
      BY <3>6, <3>7
  <2>4. ASSUME NEW f \in Inds PROVE Weight(Concat(g), f) <= Weight(Concat(h), f) + w[f]
    <3>1. f \in [Rows -> Nat]
      BY <1>5
    <3>2. Weight(kept, f) \in Nat
      BY <1>7, <3>1, WeightSteps
    <3>3. Weight(kept, f) <= w[f] /\ w[f] \in Nat /\ Weight(Concat(h), f) \in Nat
      BY <1>4, <1>7, <3>1
    <3> QED
      BY <2>3, <3>2, <3>3
  <2>5. Concat(g) = IF stage.limit = 0 \/ kept = <<>> THEN Concat(h) ELSE Concat(h) \o kept
    BY <1>3, <2>2
  <2> QED
    BY <2>1, <2>3, <2>4, <2>5
<1>8. CASE stage.limit = NoLimit
  <2>1. kept = b
    BY <1>8
  <2>2. ASSUME NEW f \in Inds PROVE Weight(b, f) <= Weight(b, f)
    <3>1. f \in [Rows -> Nat]
      BY <1>5
    <3>2. Weight(b, f) \in Nat
      BY <3>1, WeightSteps
    <3> QED
      BY <3>2
  <2> HIDE DEF kept
  <2>3. /\ g \in Seq(Seq(Rows))
        /\ \A f \in Inds : Weight(Concat(g), f)
                            = Weight(Concat(h), f) + (IF stage.limit = 0 THEN 0 ELSE Weight(b, f))
        /\ \A f \in Inds : Weight(Concat(g), f) <= Weight(Concat(h), f) + w[f]
    BY <1>7, <2>1, <2>2
  <2>4. stage.limit # 0
    BY <1>8 DEF NoLimit
  <2>5. Shape(stage, g)
    BY <1>6, <1>8, <2>3 DEF Shape
  <2>6. \A f \in Counted(stage) : Weight(Concat(g), f) = Weight(Concat(h), f) + w[f]
    BY <1>4, <1>5, <2>3, <2>4
  <2> QED
    BY <2>3, <2>5, <2>6 DEF Takes, w, g
<1>9. CASE stage.limit # NoLimit
  <2>1. room \in Nat
    BY <1>2, <1>6, <1>9
  <2>2. kept = FirstRows(b, room)
    BY <1>9
  <2> HIDE DEF room
  <2>3. /\ FirstRows(b, room) \in Seq(Rows)
        /\ Len(FirstRows(b, room)) = IF room <= Len(b) THEN room ELSE Len(b)
        /\ room >= Len(b) => FirstRows(b, room) = b
        /\ \A f \in [Rows -> Nat] : Weight(FirstRows(b, room), f) <= Weight(b, f)
    BY <2>1, FirstRowsAre
  <2> HIDE DEF kept
  <2>4. kept \in Seq(Rows) /\ \A f \in Inds : Weight(kept, f) <= Weight(b, f)
    BY <1>5, <2>2, <2>3
  <2>5. /\ g \in Seq(Seq(Rows))
        /\ Concat(g) = IF stage.limit = 0 \/ kept = <<>> THEN Concat(h) ELSE Concat(h) \o kept
        /\ \A f \in Inds :
              Weight(Concat(g), f)
                = Weight(Concat(h), f) + (IF stage.limit = 0 THEN 0 ELSE Weight(kept, f))
        /\ \A f \in Inds : Weight(Concat(g), f) <= Weight(Concat(h), f) + w[f]
    BY <1>7, <2>4
  <2>6. Len(Concat(g)) = rows + (IF stage.limit = 0 THEN 0 ELSE Len(kept)) /\ Len(kept) \in Nat
    <3>1. Weight(Concat(g), All)
            = Weight(Concat(h), All) + (IF stage.limit = 0 THEN 0 ELSE Weight(kept, All))
      BY <1>5, <2>5
    <3>2. Weight(Concat(h), All) = rows /\ Weight(kept, All) = Len(kept) /\ Len(kept) \in Nat
      BY <1>2, <2>4, AllWeighs
    <3>3. Weight(Concat(g), All) = Len(Concat(g))
      <4>1. Concat(g) \in Seq(Rows)
        BY <2>5, ConcatSeq
      <4> QED
        BY <4>1, AllWeighs
    <3> QED
      BY <3>1, <3>2, <3>3
  <2>7. stage.limit # 0 => rows <= Bound(stage) /\ room = Bound(stage) - rows
    <3>1. stage.limit # 0 => rows <= Bound(stage)
      BY <1>1, <1>6, <1>9 DEF Cap
    <3> QED
      BY <1>2, <1>6, <1>9, <3>1 DEF room
  <2>8. Len(b) \in Nat
    OBVIOUS
  <2>9. Len(Concat(g)) <= Cap(stage)
    <3>1. CASE stage.limit = 0
      BY <1>1, <1>2, <1>6, <1>9, <2>6, <3>1
    <3>2. CASE stage.limit # 0
      <4>1. Len(kept) <= room
        BY <2>1, <2>2, <2>3, <2>8
      <4> QED
        BY <1>2, <1>6, <1>9, <2>1, <2>6, <2>7, <3>2, <4>1 DEF Cap
    <3> QED
      BY <3>1, <3>2
  <2>10. Shape(stage, g)
    BY <2>5, <2>9 DEF Shape
  <2>11. ASSUME NEW f \in Counted(stage)
         PROVE  Full(stage, g, f) \/ Weight(Concat(g), f) = Weight(Concat(h), f) + w[f]
    <3>1. f = All
      BY <1>6, <1>9 DEF Counted
    <3>2. CASE stage.limit = 0
      BY <1>6, <1>9, <3>2 DEF Full
    <3>3. CASE stage.limit # 0 /\ room >= Len(b)
      <4>1. kept = b
        BY <2>2, <2>3, <3>3
      <4> QED
        BY <1>4, <1>5, <2>5, <3>1, <3>3, <4>1
    <3>4. CASE stage.limit # 0 /\ ~(room >= Len(b))
      <4>1. Len(kept) = room
        BY <2>1, <2>2, <2>3, <2>8, <3>4
      <4>2. Len(Concat(g)) = Bound(stage)
        BY <1>2, <1>6, <1>9, <2>6, <2>7, <3>4, <4>1
      <4>3. Weight(Concat(g), All) = Len(Concat(g))
        <5>1. Concat(g) \in Seq(Rows)
          BY <2>5, ConcatSeq
        <5> QED
          BY <5>1, AllWeighs
      <4>4. Weight(Concat(g), f) >= Bound(stage)
        BY <1>6, <1>9, <3>1, <4>2, <4>3
      <4> QED
        BY <1>6, <1>9, <4>4 DEF Full
    <3> QED
      BY <3>2, <3>3, <3>4
  <2> QED
    BY <2>5, <2>10, <2>11 DEF Takes, w, g
<1> QED
  BY <1>8, <1>9

(* TOP-K keeps the first rows of what it holds and is given.               *)
LEMMA TopKTakes ==
    ASSUME NEW stage \in StageType, stage.sink = "topk", NEW h, Shape(stage, h),
           NEW b \in Seq(Rows)
    PROVE  Takes(stage, TopKPush(stage, h, b), h, Weights(b))
<1> DEFINE w == Weights(b)
           k == stage.k
           x == Concat(h) \o b
           s == StableSort(x)
           t == FirstRows(s, k)
           g == TopKPush(stage, h, b)
<1>1. h \in Seq(Seq(Rows)) /\ k \in Nat /\ ~Limited(stage)
  BY StageFields DEF Shape, Limited
<1>2. Concat(h) \in Seq(Rows)
  BY <1>1, ConcatSeq
<1>3. \A f \in [Rows -> Nat] : w[f] = Weight(b, f) /\ w[f] \in Nat /\ Weight(Concat(h), f) \in Nat
  BY <1>1, HeldWeighs, WeightSteps DEF Weights
<1>4. /\ Inds \subseteq [Rows -> Nat] /\ All \in Inds /\ Counted(stage) \subseteq Inds
      /\ \A v : Lows(v) \in Inds
      /\ \A r \in Rows : r.key \in Int
  BY Indicators
<1>5. x \in Seq(Rows) /\ \A f \in [Rows -> Nat] : Weight(x, f) = Weight(Concat(h), f) + w[f]
  BY <1>2, <1>3, WeightTogether
<1> HIDE DEF x, w, k
<1>6. Keyed(x)
  <2>1. \A i \in DOMAIN x : x[i] \in Rows
    BY <1>5
  <2> QED
    BY <1>4, <2>1 DEF Keyed
<1>7. s \in Seq(Rows) /\ Ascending(s) /\ \A S : Weight(s, Ind(Rows, S)) = Weight(x, Ind(Rows, S))
  BY <1>5, <1>6, SortKeeps DEF Ascending
<1> HIDE DEF s
<1>8. /\ t \in Seq(Rows) /\ Len(t) = IF k <= Len(s) THEN k ELSE Len(s)
      /\ \A f \in [Rows -> Nat] : Weight(t, f) <= Weight(s, f)
  BY <1>1, <1>7, FirstRowsAre
<1>9. Ascending(t) /\ \A v \in Int : Weight(t, Lows(v)) = IF Weight(s, Lows(v)) <= k
                                                          THEN Weight(s, Lows(v)) ELSE k
  <2>1. ASSUME NEW v \in Int
        PROVE  /\ Ascending(t)
               /\ Weight(t, Lows(v)) = IF Weight(s, Lows(v)) <= k THEN Weight(s, Lows(v)) ELSE k
    BY <1>1, <1>4, <1>7, FirstOfSorted DEF Lows
  <2>2. 0 \in Int
    OBVIOUS
  <2> HIDE DEF t
  <2> QED
    BY <2>1, <2>2
<1> HIDE DEF t
<1>10. \A f \in Inds : Weight(s, f) = Weight(Concat(h), f) + w[f]
  <2> SUFFICES ASSUME NEW f \in Inds PROVE Weight(s, f) = Weight(Concat(h), f) + w[f]
    OBVIOUS
  <2>1. PICK S \in SUBSET Rows : f = Ind(Rows, S)
    BY DEF Inds
  <2>2. Weight(s, f) = Weight(x, f)
    BY <1>7, <2>1
  <2> QED
    BY <1>4, <1>5, <2>2
<1>11. CASE k = 0
  <2>1. g = h
    BY <1>11 DEF TopKPush, k
  <2> HIDE DEF g
  <2>2. ASSUME NEW f \in Counted(stage) PROVE Full(stage, h, f)
    <3>1. Weight(Concat(h), f) \in Nat
      BY <1>3, <1>4
    <3>2. Weight(Concat(h), f) >= stage.k
      BY <1>11, <3>1 DEF k
    <3> QED
      BY <3>2 DEF Full
  <2>3. ASSUME NEW f \in Inds PROVE Weight(Concat(h), f) <= Weight(Concat(h), f) + w[f]
    <3>1. Weight(Concat(h), f) \in Nat /\ w[f] \in Nat
      BY <1>3, <1>4
    <3> QED
      BY <3>1
  <2>4. Takes(stage, h, h, w)
    BY <2>2, <2>3 DEF Takes
  <2> QED
    BY <2>1, <2>4 DEF g, w
<1>12. CASE k # 0
  <2>1. g = <<t>>
    BY <1>12 DEF TopKPush, k, t, s, x
  <2>2. Concat(<<t>>) = t /\ <<t>> \in Seq(Seq(Rows))
    BY <1>8, ConcatOne
  <2> HIDE DEF g
  <2>3. Len(t) <= k /\ Len(s) \in Nat
    <3>1. Len(s) \in Nat
      BY <1>7
    <3> QED
      BY <1>1, <1>8, <3>1
  <2>4. Shape(stage, g)
    BY <1>1, <1>9, <2>1, <2>2, <2>3 DEF Shape, k
  <2>5. ASSUME NEW f \in Counted(stage)
        PROVE  Full(stage, g, f) \/ Weight(Concat(g), f) = Weight(Concat(h), f) + w[f]
    <3>1. f \in Inds /\ Weight(s, f) = Weight(Concat(h), f) + w[f]
      BY <1>4, <1>10
    <3>2. Weight(t, f) = IF Weight(s, f) <= k THEN Weight(s, f) ELSE k
      <4>1. CASE f = All
        <5>1. Weight(t, All) = Len(t) /\ Weight(s, All) = Len(s)
          BY <1>7, <1>8, AllWeighs
        <5> QED
          BY <1>1, <1>8, <2>3, <4>1, <5>1
      <4>2. CASE f # All
        <5>1. PICK v \in Int : f = Lows(v)
          BY <4>2 DEF Counted
        <5> QED
          BY <1>9, <5>1
      <4> QED
        BY <4>1, <4>2
    <3>3. CASE Weight(s, f) <= k
      BY <2>1, <2>2, <3>1, <3>2, <3>3
    <3>4. CASE ~(Weight(s, f) <= k)
      <4>1. Weight(Concat(g), f) = k
        BY <2>1, <2>2, <3>2, <3>4
      <4>2. Weight(Concat(g), f) >= stage.k
        BY <1>1, <4>1 DEF k
      <4> QED
        BY <4>2 DEF Full
    <3> QED
      BY <3>3, <3>4
  <2>6. ASSUME NEW f \in Inds PROVE Weight(Concat(g), f) <= Weight(Concat(h), f) + w[f]
    <3>1. f \in [Rows -> Nat]
      BY <1>4
    <3>2. Weight(t, f) <= Weight(s, f)
      BY <1>8, <3>1
    <3> QED
      BY <1>10, <2>1, <2>2, <3>2
  <2> QED
    BY <2>4, <2>5, <2>6 DEF Takes, w, g
<1> QED
  BY <1>11, <1>12

(* An aggregate groups what it holds and is given.                         *)
LEMMA CountIsWeight ==
    ASSUME NEW s \in Seq(Rows), NEW k
    PROVE  CountOf(s, k) = Weight(s, NOf(Rows, k))
<1>1. DOMAIN s = 1 .. Len(s) /\ \A i \in 1 .. Len(s) : s[i] \in Rows
  OBVIOUS
<1>2. [i \in DOMAIN s |-> IF s[i].key = k THEN s[i].n ELSE 0]
        = [i \in 1 .. Len(s) |-> NOf(Rows, k)[s[i]]]
  BY <1>1 DEF NOf
<1> QED
  BY <1>2 DEF CountOf, Weight

(* An aggregate adds the batch to the counts of the keys.                  *)
LEMMA GroupTakes ==
    ASSUME NEW stage \in StageType, stage.sink = "aggregate", NEW h, Shape(stage, h),
           NEW b \in Seq(Rows)
    PROVE  Takes(stage, <<Grouped(Concat(h) \o b)>>, h, Weights(b))
<1> DEFINE w == Weights(b)
           x == Concat(h) \o b
           t == Grouped(x)
           g == <<t>>
<1>1. h \in Seq(Seq(Rows)) /\ ~Limited(stage)
  BY DEF Shape, Limited
<1>2. Concat(h) \in Seq(Rows)
  BY <1>1, ConcatSeq
<1>3. \A f \in [Rows -> Nat] : w[f] = Weight(b, f)
  BY DEF Weights
<1>4. x \in Seq(Rows) /\ \A f \in [Rows -> Nat] : Weight(x, f) = Weight(Concat(h), f) + w[f]
  BY <1>2, <1>3, WeightTogether
<1> HIDE DEF x, w
<1>5. /\ t \in Seq(Rows) /\ Distinct(t) /\ \A i \in DOMAIN t : t[i].id = 0
      /\ \A k \in Int : CountOf(t, k) = CountOf(x, k)
  BY <1>4, GroupedCounts
<1> HIDE DEF t
<1>6. Concat(g) = t /\ g \in Seq(Seq(Rows))
  BY <1>5, ConcatOne
<1> HIDE DEF g
<1>7. Shape(stage, g)
  BY <1>1, <1>5, <1>6 DEF Shape
<1>8. ASSUME NEW f \in Counted(stage)
      PROVE  Weight(Concat(g), f) = Weight(Concat(h), f) + w[f]
  <2>1. PICK k \in Int : f = NOf(Rows, k)
    BY DEF Counted
  <2>2. f \in [Rows -> Nat]
    BY <2>1, Indicators
  <2>3. Weight(t, f) = Weight(x, f)
    BY <1>4, <1>5, <2>1, CountIsWeight
  <2> QED
    BY <1>4, <1>6, <2>2, <2>3
<1>9. Takes(stage, g, h, w)
  BY <1>7, <1>8 DEF Takes
<1> QED
  BY <1>9 DEF g, t, x, w

(* Whatever the sink, it takes the batch.                                  *)
LEMMA PushTakes ==
    ASSUME NEW stage \in StageType, NEW h, Shape(stage, h), NEW b \in Seq(Rows)
    PROVE  Takes(stage, SinkPush(stage, h, b), h, Weights(b))
<1>1. stage.sink \in {"collect", "sort", "limit", "topk", "aggregate"}
  BY StageFields
<1>2. CASE stage.sink = "limit"
  BY <1>2, LimitTakes DEF SinkPush
<1>3. CASE stage.sink = "topk"
  BY <1>3, TopKTakes DEF SinkPush
<1>4. CASE stage.sink = "aggregate"
  BY <1>4, GroupTakes DEF SinkPush
<1>5. CASE stage.sink \in {"collect", "sort"}
  <2> DEFINE g == Append(h, b)
             w == Weights(b)
  <2>1. SinkPush(stage, h, b) = g
    BY <1>5 DEF SinkPush
  <2>2. h \in Seq(Seq(Rows)) /\ g \in Seq(Seq(Rows))
    BY DEF Shape
  <2>3. ~Limited(stage) /\ stage.sink # "topk" /\ stage.sink # "aggregate"
    BY <1>5 DEF Limited
  <2>4. Shape(stage, g)
    BY <2>2, <2>3 DEF Shape
  <2>5. \A f \in [Rows -> Nat] : w[f] = Weight(b, f)
    BY DEF Weights
  <2>6. \A f \in [Rows -> Nat] : Weight(Concat(g), f) = Weight(Concat(h), f) + w[f]
    BY <2>2, <2>5, BatchesWeigh
  <2>7. Inds \subseteq [Rows -> Nat] /\ Counted(stage) \subseteq Inds
    BY <2>3, Indicators
  <2>8. \A f \in [Rows -> Nat] : w[f] \in Nat /\ Weight(Concat(h), f) \in Nat
    BY <2>2, <2>5, HeldWeighs, WeightSteps
  <2> HIDE DEF g, w
  <2>9. \A f \in Inds : Weight(Concat(g), f) <= Weight(Concat(h), f) + w[f]
    <3> SUFFICES ASSUME NEW f \in Inds PROVE Weight(Concat(g), f) <= Weight(Concat(h), f) + w[f]
      OBVIOUS
    <3>1. f \in [Rows -> Nat]
      BY <2>7
    <3>2. /\ Weight(Concat(g), f) = Weight(Concat(h), f) + w[f]
          /\ w[f] \in Nat /\ Weight(Concat(h), f) \in Nat
      BY <2>6, <2>8, <3>1
    <3> QED
      BY <3>2
  <2>10. Takes(stage, g, h, w)
    BY <2>4, <2>6, <2>7, <2>9 DEF Takes
  <2> QED
    BY <2>1, <2>10 DEF w
<1> QED
  BY <1>1, <1>2, <1>3, <1>4, <1>5

(* A merge takes over the other sink's batches, one after the other.       *)
LEMMA MergeTakes ==
    ASSUME NEW stage \in StageType, NEW h, Shape(stage, h), NEW o \in Seq(Seq(Rows))
    PROVE  Takes(stage, SinkMerge(stage, h, o), h, Weights(Concat(o)))
<1> DEFINE n == Len(o)
           part(i) == SubSeq(o, 1, i)
           w(i) == Weights(Concat(part(i)))
<1>1. n \in Nat /\ DOMAIN o = 1 .. n /\ \A i \in 1 .. n : o[i] \in Seq(Rows)
  OBVIOUS
<1>2. PICK a : Merged(a, stage, h, o) /\ SinkMerge(stage, h, o) = a[n]
  BY <1>1, MergeSteps
<1>3. Counted(stage) \subseteq [Rows -> Nat] /\ Inds \subseteq [Rows -> Nat]
  BY Indicators
<1>4. h \in Seq(Seq(Rows))
  BY DEF Shape
<1>5. \A f \in [Rows -> Nat] : Weight(Concat(h), f) \in Nat
  BY <1>4, HeldWeighs
<1>6. ASSUME NEW i \in 0 .. n
      PROVE  /\ part(i) \in Seq(Seq(Rows))
             /\ \A f \in [Rows -> Nat] : w(i)[f] = Weight(Concat(part(i)), f) /\ w(i)[f] \in Nat
  <2>1. part(i) \in Seq(Seq(Rows))
    <3>1. i \in Int /\ 1 \in Int /\ \A j \in 1 .. i : o[j] \in Seq(Rows)
      BY <1>1
    <3> QED
      BY <3>1, SubSeqProperties
  <2> HIDE DEF part
  <2> QED
    BY <2>1, HeldWeighs DEF Weights
<1>7. ASSUME NEW i \in 1 .. n
      PROVE  \A f \in [Rows -> Nat] : w(i)[f] = w(i - 1)[f] + Weight(o[i], f)
  <2>1. 1 \in 1 .. Len(o) /\ i \in 0 .. n /\ i - 1 \in 0 .. n
    BY <1>1
  <2>2. part(i) = part(i - 1) \o <<o[i]>>
    BY <2>1, SubSeqRecursiveSecond
  <2>3. part(i - 1) \in Seq(Seq(Rows)) /\ o[i] \in Seq(Rows)
    BY <1>1, <1>6, <2>1
  <2>4. part(i) = Append(part(i - 1), o[i])
    BY <2>2, <2>3
  <2>5. \A f \in [Rows -> Nat] : /\ w(i)[f] = Weight(Concat(part(i)), f)
                                 /\ w(i - 1)[f] = Weight(Concat(part(i - 1)), f)
    BY <1>6, <2>1
  <2> HIDE DEF part, w
  <2>6. ASSUME NEW f \in [Rows -> Nat]
        PROVE  w(i)[f] = w(i - 1)[f] + Weight(o[i], f)
    <3>1. Weight(Concat(part(i)), f) = Weight(Concat(part(i - 1)), f) + Weight(o[i], f)
      BY <2>3, <2>4, BatchesWeigh
    <3> QED
      BY <2>5, <3>1
  <2> QED
    BY <2>6
<1>8. w(n) = Weights(Concat(o))
  BY SubSeqFull
<1>9. \A f \in [Rows -> Nat] : w(0)[f] = 0
  <2>1. part(0) = <<>> /\ 0 \in 0 .. n
    BY <1>1, SubSeqEmpty
  <2>2. \A f \in [Rows -> Nat] : Weight(Concat(<<>>), f) = 0
    BY NothingHeld, WeightSteps
  <2>3. \A f \in [Rows -> Nat] : w(0)[f] = Weight(Concat(part(0)), f)
    BY <1>6, <2>1
  <2> HIDE DEF w, part
  <2> QED
    BY <2>1, <2>2, <2>3
<1>10. \A i \in 0 .. n : \A f \in [Rows -> Nat] : w(i)[f] \in Nat
  BY <1>6
<1> HIDE DEF w, part
<1> DEFINE U == {i \in Nat : i <= n => Takes(stage, a[i], h, w(i))}
<1>11. 0 \in U
  <2>1. a[0] = h
    BY <1>2 DEF Merged
  <2>2. \A f \in [Rows -> Nat] : Weight(Concat(h), f) = Weight(Concat(h), f) + w(0)[f]
    BY <1>5, <1>9
  <2>3. \A f \in [Rows -> Nat] : Weight(Concat(h), f) <= Weight(Concat(h), f) + w(0)[f]
    BY <1>5, <1>9
  <2>4. Takes(stage, h, h, w(0))
    BY <1>3, <2>2, <2>3 DEF Takes
  <2> QED
    BY <2>1, <2>4
<1>12. ASSUME NEW i \in Nat, i \in U PROVE i + 1 \in U
  <2> SUFFICES ASSUME i + 1 <= n PROVE Takes(stage, a[i + 1], h, w(i + 1))
    OBVIOUS
  <2>1. i + 1 \in 1 .. n /\ i <= n /\ i \in 0 .. n /\ (i + 1) - 1 = i /\ i + 1 \in 0 .. n
    BY <1>1
  <2>2. Takes(stage, a[i], h, w(i))
    BY <1>12, <2>1
  <2>3. Shape(stage, a[i])
    BY <2>2 DEF Takes
  <2>4. a[i + 1] = SinkPush(stage, a[i], o[i + 1])
    BY <1>1, <1>2, <2>1 DEF Merged
  <2>5. Takes(stage, a[i + 1], a[i], Weights(o[i + 1]))
    BY <1>1, <2>1, <2>3, <2>4, PushTakes
  <2> DEFINE v == Weights(o[i + 1])
  <2>6. \A f \in [Rows -> Nat] : w(i + 1)[f] = w(i)[f] + v[f] /\ w(i)[f] \in Nat /\ v[f] \in Nat
    <3>1. \A f \in [Rows -> Nat] : w(i + 1)[f] = w(i)[f] + Weight(o[i + 1], f)
      BY <1>7, <2>1
    <3>2. \A f \in [Rows -> Nat] : v[f] = Weight(o[i + 1], f) /\ v[f] \in Nat
      BY <1>1, <2>1, WeightSteps DEF Weights
    <3> QED
      BY <1>10, <2>1, <3>1, <3>2
  <2>7. Shape(stage, a[i + 1])
    BY <2>5 DEF Takes
  <2>8. \A f \in [Rows -> Nat] :
           Weight(Concat(a[i]), f) \in Nat /\ Weight(Concat(a[i + 1]), f) \in Nat
    BY <2>3, <2>7, HeldWeighs DEF Shape
  <2> HIDE DEF v
  <2>9. ASSUME NEW f \in Counted(stage)
        PROVE  \/ Full(stage, a[i + 1], f)
               \/ Weight(Concat(a[i + 1]), f) = Weight(Concat(h), f) + w(i + 1)[f]
    <3>1. f \in [Rows -> Nat]
      BY <1>3
    <3>2. Full(stage, a[i + 1], f) \/ Weight(Concat(a[i + 1]), f) = Weight(Concat(a[i]), f) + v[f]
      BY <2>5 DEF Takes, v
    <3>3. Full(stage, a[i], f) \/ Weight(Concat(a[i]), f) = Weight(Concat(h), f) + w(i)[f]
      BY <2>2 DEF Takes
    <3>4. /\ w(i + 1)[f] = w(i)[f] + v[f] /\ w(i)[f] \in Nat /\ v[f] \in Nat
          /\ Weight(Concat(a[i]), f) \in Nat /\ Weight(Concat(a[i + 1]), f) \in Nat
          /\ Weight(Concat(h), f) \in Nat
      BY <1>5, <2>6, <2>8, <3>1
    <3>5. CASE Full(stage, a[i + 1], f)
      BY <3>5
    <3>6. CASE /\ ~Full(stage, a[i + 1], f)
               /\ Weight(Concat(a[i + 1]), f) = Weight(Concat(a[i]), f) + v[f]
      <4>1. Weight(Concat(a[i + 1]), f) >= Weight(Concat(a[i]), f)
        BY <3>4, <3>6
      <4>2. ~Full(stage, a[i], f)
        BY <3>4, <3>6, <4>1, FullGrows
      <4> QED
        BY <3>3, <3>4, <3>6, <4>2
    <3> QED
      BY <3>2, <3>5, <3>6
  <2>10. ASSUME stage.sink # "aggregate", NEW f \in Inds
         PROVE  Weight(Concat(a[i + 1]), f) <= Weight(Concat(h), f) + w(i + 1)[f]
    <3>1. f \in [Rows -> Nat]
      BY <1>3
    <3>2. Weight(Concat(a[i + 1]), f) <= Weight(Concat(a[i]), f) + v[f]
      BY <2>5, <2>10 DEF Takes, v
    <3>3. Weight(Concat(a[i]), f) <= Weight(Concat(h), f) + w(i)[f]
      BY <2>2, <2>10 DEF Takes
    <3>4. /\ w(i + 1)[f] = w(i)[f] + v[f] /\ w(i)[f] \in Nat /\ v[f] \in Nat
          /\ Weight(Concat(a[i]), f) \in Nat /\ Weight(Concat(a[i + 1]), f) \in Nat
          /\ Weight(Concat(h), f) \in Nat
      BY <1>5, <2>6, <2>8, <3>1
    <3> DEFINE x == Weight(Concat(a[i + 1]), f)
               y == Weight(Concat(a[i]), f)
               z == Weight(Concat(h), f)
               p == w(i + 1)[f]
               q == w(i)[f]
               u == v[f]
    <3>5. /\ x <= y + u /\ y <= z + q /\ p = q + u
          /\ q \in Nat /\ u \in Nat /\ y \in Nat /\ x \in Nat /\ z \in Nat
      BY <3>2, <3>3, <3>4
    <3> HIDE DEF x, y, z, p, q, u
    <3>6. x <= z + p
      BY <3>5
    <3> QED
      BY <3>6 DEF x, z, p
  <2> QED
    BY <2>7, <2>9, <2>10 DEF Takes
<1>13. Nat \subseteq U
  <2> HIDE DEF U
  <2> QED
    BY <1>11, <1>12, CountUp
<1>14. Takes(stage, a[n], h, w(n))
  BY <1>1, <1>13
<1> QED
  BY <1>2, <1>8, <1>14

(* A sink that says it is done has enough.                                 *)
LEMMA DoneFull ==
    ASSUME NEW stage \in StageType, NEW h, Shape(stage, h), SinkDone(stage, h),
           NEW f \in Counted(stage)
    PROVE  Full(stage, h, f)
<1>1. h \in Seq(Seq(Rows)) /\ f \in [Rows -> Nat]
  BY Indicators DEF Shape
<1>2. Concat(h) \in Seq(Rows) /\ Weight(Concat(h), f) \in Nat
  BY <1>1, HeldWeighs
<1>3. CASE stage.sink = "limit"
  <2>1. stage.limit # NoLimit /\ (stage.limit = 0 \/ Len(Concat(h)) >= Bound(stage))
    BY <1>3 DEF SinkDone
  <2>2. Limited(stage)
    BY <1>3, <2>1 DEF Limited
  <2>3. f = All
    BY <1>3, <2>2 DEF Counted
  <2>4. Weight(Concat(h), f) = Len(Concat(h))
    BY <1>2, <2>3, AllWeighs
  <2> QED
    BY <2>1, <2>2, <2>4 DEF Full
<1>4. CASE stage.sink = "topk"
  <2>1. stage.k = 0
    BY <1>4 DEF SinkDone
  <2>2. Weight(Concat(h), f) >= stage.k
    BY <1>2, <2>1
  <2> QED
    BY <1>4, <2>2 DEF Full
<1>5. CASE stage.sink \notin {"limit", "topk"}
  BY <1>5 DEF SinkDone
<1> QED
  BY <1>3, <1>4, <1>5

(* The filter lets the rows through whose key it keeps.                    *)
Passing(stage) == {r \in Rows : r.key \in stage.keep}
Pass(stage, f) == Mask(Rows, Passing(stage), f)

(* The weight of what passes is that of the batch, masked.                 *)
LEMMA FilterWeighs ==
    ASSUME NEW stage, NEW b \in Seq(Rows)
    PROVE  /\ Filtered(stage, b) \in Seq(Rows) /\ Matching(stage, b) = Filtered(stage, b)
           /\ \A f \in [Rows -> Nat] : /\ Pass(stage, f) \in [Rows -> Nat]
                                       /\ Weight(Filtered(stage, b), f) = Weight(b, Pass(stage, f))
<1> DEFINE S == {r \in Range(b) : r.key \in stage.keep}
<1>1. Filtered(stage, b) = RowsIn(b, S) /\ Matching(stage, b) = RowsIn(b, S)
  BY DEF Filtered, Matching
<1>2. \A i \in 1 .. Len(b) : b[i] \in Rows /\ (b[i] \in S <=> b[i] \in Passing(stage))
  BY DEF Range, Passing
<1> HIDE DEF S
<1>3. ASSUME NEW f \in [Rows -> Nat]
      PROVE  /\ RowsIn(b, S) \in Seq(Rows) /\ Pass(stage, f) \in [Rows -> Nat]
             /\ Weight(RowsIn(b, S), f) = Weight(b, Pass(stage, f))
  <2>1. RowsIn(b, S) \in Seq(Rows) /\ Weight(RowsIn(b, S), f) = Weight(b, Mask(Rows, S, f))
    BY WeightIn
  <2>2. \A i \in 1 .. Len(b) : Mask(Rows, S, f)[b[i]] = Pass(stage, f)[b[i]]
    BY <1>2 DEF Mask, Pass
  <2>3. Weight(b, Mask(Rows, S, f)) = Weight(b, Pass(stage, f))
    BY <2>2, SameWeights
  <2>4. Pass(stage, f) \in [Rows -> Nat]
    BY DEF Pass, Mask
  <2> QED
    BY <2>1, <2>3, <2>4
<1>4. RowsIn(b, S) \in Seq(Rows)
  BY RowsInSeq
<1> QED
  BY <1>1, <1>3, <1>4

-----------------------------------------------------------------------------
(* What a sink returns.                                                    *)

(* The sink holds enough of the rows whose weights are w.                  *)
Enough(stage, h, w) ==
    /\ Shape(stage, h)
    /\ \A f \in Counted(stage) : Full(stage, h, f) \/ Weight(Concat(h), f) = w[f]
    /\ stage.sink # "aggregate" => \A f \in Inds : Weight(Concat(h), f) <= w[f]

(* How often a row is there is the weight of the set it alone is in.       *)
LEMMA RowCount ==
    ASSUME NEW s \in Seq(Rows), NEW r \in Rows
    PROVE  LET A == {i \in DOMAIN s : s[i] = r}
           IN  /\ Ind(Rows, {r}) \in Inds
               /\ Cardinality(A) = Weight(s, Ind(Rows, {r}))
               /\ r \in Range(s) <=> Cardinality(A) # 0
<1> DEFINE A == {i \in DOMAIN s : s[i] = r}
<1>1. A = {i \in DOMAIN s : s[i] \in {r}}
  OBVIOUS
<1>2. IsFiniteSet(A) /\ Cardinality(A) = Weight(s, Ind(Rows, {r}))
  <2> DEFINE B == {i \in DOMAIN s : s[i] \in {r}}
  <2>1. IsFiniteSet(B) /\ Weight(s, Ind(Rows, {r})) = Cardinality(B)
    BY WeightCounts
  <2>2. A = B
    BY <1>1
  <2> HIDE DEF A, B
  <2> QED
    BY <2>1, <2>2
<1>3. Ind(Rows, {r}) \in Inds
  BY DEF Inds
<1>4. r \in Range(s) <=> A # {}
  BY DEF Range
<1> HIDE DEF A
<1>5. A = {} <=> Cardinality(A) = 0
  BY <1>2, FS_EmptySet
<1> QED
  BY <1>2, <1>3, <1>4, <1>5 DEF A

(* Rows with the same weights are the same rows, each as often.            *)
LEMMA SameFromWeights ==
    ASSUME NEW out \in Seq(Rows), NEW in \in Seq(Rows),
           \A f \in Inds : Weight(out, f) = Weight(in, f)
    PROVE  SameRows(out, in)
<1> DEFINE N(s, r) == Cardinality({i \in DOMAIN s : s[i] = r})
<1>1. ASSUME NEW r \in Rows
      PROVE  N(out, r) = N(in, r) /\ (r \in Range(out) <=> r \in Range(in))
  <2>1. /\ Ind(Rows, {r}) \in Inds
        /\ N(out, r) = Weight(out, Ind(Rows, {r})) /\ (r \in Range(out) <=> N(out, r) # 0)
    BY RowCount
  <2>2. N(in, r) = Weight(in, Ind(Rows, {r})) /\ (r \in Range(in) <=> N(in, r) # 0)
    BY RowCount
  <2> HIDE DEF N
  <2> QED
    BY <2>1, <2>2
<1>2. Range(out) \subseteq Rows /\ Range(in) \subseteq Rows
  BY DEF Range
<1>3. ToBag(out) = [r \in Range(out) |-> N(out, r)] /\ ToBag(in) = [r \in Range(in) |-> N(in, r)]
  BY DEF ToBag
<1> HIDE DEF N
<1>4. Range(out) = Range(in)
  BY <1>1, <1>2
<1>5. \A r \in Range(out) : N(out, r) = N(in, r)
  BY <1>1, <1>2
<1> QED
  BY <1>3, <1>4, <1>5 DEF SameRows

(* Rows that weigh no more are among the rows.                             *)
LEMMA SomeFromWeights ==
    ASSUME NEW out \in Seq(Rows), NEW in \in Seq(Rows),
           \A f \in Inds : Weight(out, f) <= Weight(in, f)
    PROVE  SomeRows(out, in)
<1> DEFINE N(s, r) == Cardinality({i \in DOMAIN s : s[i] = r})
<1>1. ASSUME NEW r \in Range(out) PROVE N(out, r) <= N(in, r)
  <2>1. r \in Rows
    BY DEF Range
  <2>2. Ind(Rows, {r}) \in Inds /\ N(out, r) = Weight(out, Ind(Rows, {r}))
    BY <2>1, RowCount
  <2>3. N(in, r) = Weight(in, Ind(Rows, {r}))
    BY <2>1, RowCount
  <2> HIDE DEF N
  <2> QED
    BY <2>2, <2>3
<1> QED
  BY <1>1 DEF SomeRows

(* A sink that keeps everything returns everything.                        *)
LEMMA AllAnswers ==
    ASSUME NEW stage \in StageType, stage.sink \in {"collect", "sort"},
           NEW h, NEW input \in Seq(Rows), Enough(stage, h, Weights(Matching(stage, input)))
    PROVE  /\ SinkFinish(stage, h) \in Seq(Seq(Rows))
           /\ StageAnswer(stage, input, Concat(SinkFinish(stage, h)))
<1> DEFINE in == Matching(stage, input)
           rows == Concat(h)
           s == StableSort(rows)
           out == IF stage.sink = "sort" THEN s ELSE rows
           o == Concat(SinkFinish(stage, h))
<1>1. in \in Seq(Rows)
  BY FilterWeighs
<1>2. h \in Seq(Seq(Rows)) /\ rows \in Seq(Rows)
  BY ConcatSeq DEF Enough, Shape
<1>3. Counted(stage) = Inds /\ \A f : ~Full(stage, h, f)
  BY DEF Counted, Full, Limited
<1>4. \A f \in Inds : Weight(rows, f) = Weight(in, f)
  <2>1. Inds \subseteq [Rows -> Nat]
    BY Indicators
  <2> QED
    BY <1>3, <2>1 DEF Enough, Weights
<1>5. s \in Seq(Rows) /\ \A f \in Inds : Weight(s, f) = Weight(rows, f)
  <2>1. Keyed(rows)
    BY <1>2, Indicators DEF Keyed
  <2>2. s \in Seq(Rows) /\ \A S : Weight(s, Ind(Rows, S)) = Weight(rows, Ind(Rows, S))
    BY <1>2, <2>1, SortKeeps
  <2> QED
    BY <2>2 DEF Inds
<1> HIDE DEF s, rows, in
<1>6. out \in Seq(Rows) /\ \A f \in Inds : Weight(out, f) = Weight(in, f)
  BY <1>2, <1>4, <1>5
<1>7. SinkFinish(stage, h) = Rechunk(out)
  <2>1. CASE stage.sink = "sort"
    BY <2>1 DEF SinkFinish, s, rows
  <2>2. CASE stage.sink = "collect"
    BY <2>2 DEF SinkFinish, rows
  <2> QED
    BY <2>1, <2>2
<1> HIDE DEF out
<1>8. Rechunk(out) \in Seq(Seq(Rows)) /\ Concat(Rechunk(out)) = out
  BY <1>6, RechunkConcat
<1>9. SameRows(out, in)
  BY <1>1, <1>6, SameFromWeights
<1>10. o = out
  BY <1>7, <1>8
<1> HIDE DEF o
<1>11. StageAnswer(stage, input, o)
  BY <1>9, <1>10 DEF StageAnswer, in
<1> QED
  BY <1>7, <1>8, <1>11 DEF o

(* Two sorted sequences with as many rows up to any key have the same keys. *)
LEMMA LowsDecide ==
    ASSUME NEW s \in Seq(Rows), NEW t \in Seq(Rows), Ascending(s), Ascending(t), Len(s) = Len(t),
           \A v \in Int : Weight(s, Lows(v)) = Weight(t, Lows(v))
    PROVE  Keys(s) = Keys(t)
<1>1. \A r \in Rows : r.key \in Int
  BY Indicators
<1>2. ASSUME NEW a \in Seq(Rows), NEW b \in Seq(Rows), Ascending(a), Ascending(b), Len(a) = Len(b),
             \A v \in Int : Weight(a, Lows(v)) = Weight(b, Lows(v)), NEW i \in 1 .. Len(a)
      PROVE  b[i].key <= a[i].key
  <2> DEFINE v == a[i].key
  <2>1. v \in Int /\ i \in 1 .. Len(b)
    BY <1>1, <1>2
  <2>2. v <= v
    BY <2>1
  <2> HIDE DEF v
  <2>3. \A j \in 1 .. Len(a) : a[j].key <= v <=> j <= Weight(a, Lows(v))
    BY <1>1, <1>2, <2>1, LowRowsFirst DEF Lows
  <2>4. \A j \in 1 .. Len(b) : b[j].key <= v <=> j <= Weight(b, Lows(v))
    BY <1>1, <1>2, <2>1, LowRowsFirst DEF Lows
  <2>5. Weight(a, Lows(v)) = Weight(b, Lows(v))
    BY <1>2, <2>1
  <2>6. a[i].key <= v
    BY <2>2 DEF v
  <2>7. i <= Weight(a, Lows(v))
    BY <1>2, <2>3, <2>6
  <2>8. b[i].key <= v
    BY <2>1, <2>4, <2>5, <2>7
  <2> QED
    BY <2>8 DEF v
<1>3. ASSUME NEW i \in 1 .. Len(s) PROVE s[i].key = t[i].key
  <2>1. t[i].key <= s[i].key
    BY <1>2, <1>3
  <2>2. s[i].key <= t[i].key
    BY <1>2, <1>3
  <2>3. s[i] \in Rows /\ t[i] \in Rows
    OBVIOUS
  <2>4. s[i].key \in Int /\ t[i].key \in Int
    BY <1>1, <2>3
  <2> QED
    BY <2>1, <2>2, <2>4
<1>4. DOMAIN s = 1 .. Len(s) /\ DOMAIN t = 1 .. Len(s)
  OBVIOUS
<1> QED
  BY <1>3, <1>4 DEF Keys

(* TOP-K holds the first of the sorted rows.                               *)
LEMMA TopKAnswers ==
    ASSUME NEW stage \in StageType, stage.sink = "topk",
           NEW h, NEW input \in Seq(Rows), Enough(stage, h, Weights(Matching(stage, input)))
    PROVE  /\ SinkFinish(stage, h) \in Seq(Seq(Rows))
           /\ StageAnswer(stage, input, Concat(SinkFinish(stage, h)))
<1> DEFINE in == Matching(stage, input)
           out == Concat(h)
           s == StableSort(in)
           k == stage.k
           t == FirstRows(s, k)
<1>1. in \in Seq(Rows)
  BY FilterWeighs
<1>2. /\ h \in Seq(Seq(Rows)) /\ out \in Seq(Rows)
      /\ Len(out) <= k /\ Ascending(out)
  BY ConcatSeq DEF Enough, Shape
<1>3. k \in Nat /\ Len(out) \in Nat /\ Len(in) \in Nat
  BY <1>1, <1>2, StageFields
<1>4. /\ All \in Inds /\ Inds \subseteq [Rows -> Nat] /\ All \in Counted(stage)
      /\ \A v \in Int : Lows(v) \in Inds /\ Lows(v) \in Counted(stage)
      /\ \A r \in Rows : r.key \in Int
  BY Indicators DEF Counted
<1>5. \A f \in Counted(stage) \cap Inds : Weight(out, f) >= k \/ Weight(out, f) = Weight(in, f)
  BY <1>4 DEF Enough, Weights, Full, Limited
<1>6. \A f \in Inds : Weight(out, f) <= Weight(in, f)
  BY <1>4 DEF Enough, Weights
<1>7. /\ s \in Seq(Rows) /\ Len(s) = Len(in) /\ Ascending(s)
      /\ \A f \in Inds : Weight(s, f) = Weight(in, f)
  <2>1. Keyed(in)
    BY <1>1, <1>4 DEF Keyed
  <2> HIDE DEF in
  <2>2. /\ s \in Seq(Rows) /\ Len(s) = Len(in)
        /\ \A i, j \in DOMAIN s : i <= j => s[i].key <= s[j].key
        /\ \A S : Weight(s, Ind(Rows, S)) = Weight(in, Ind(Rows, S))
    BY <1>1, <2>1, SortKeeps
  <2> QED
    BY <2>2 DEF Ascending, Inds
<1> HIDE DEF in, out, s, k
<1>8. /\ t \in Seq(Rows) /\ Len(t) = IF k <= Len(s) THEN k ELSE Len(s)
      /\ \A i \in 1 .. Len(t) : i \in 1 .. Len(s) /\ t[i] = s[i]
  BY <1>3, <1>7, FirstRowsAre
<1>9. \A v \in Int :
         /\ Ascending(t)
         /\ Weight(t, Lows(v)) = IF Weight(s, Lows(v)) <= k THEN Weight(s, Lows(v)) ELSE k
  BY <1>3, <1>4, <1>7, FirstOfSorted DEF Lows
<1> HIDE DEF t
<1>10. Len(out) = Len(t)
  <2>1. Weight(out, All) = Len(out) /\ Weight(in, All) = Len(in)
    BY <1>1, <1>2, AllWeighs
  <2>2. Len(out) >= k \/ Len(out) = Len(in)
    BY <1>4, <1>5, <2>1
  <2>3. Len(out) <= Len(in)
    BY <1>4, <1>6, <2>1
  <2> QED
    BY <1>2, <1>3, <1>7, <1>8, <2>2, <2>3
<1>11. ASSUME NEW v \in Int PROVE Weight(out, Lows(v)) = Weight(t, Lows(v))
  <2>1. Weight(out, Lows(v)) \in 0 .. Len(out)
    BY <1>2, <1>4, LowRowsFirst DEF Lows
  <2>2. Weight(in, Lows(v)) \in Nat
    BY <1>1, <1>4, WeightSteps
  <2>3. Weight(out, Lows(v)) >= k \/ Weight(out, Lows(v)) = Weight(in, Lows(v))
    BY <1>4, <1>5
  <2>4. Weight(out, Lows(v)) <= Weight(in, Lows(v))
    BY <1>4, <1>6
  <2>5. Weight(t, Lows(v)) = IF Weight(in, Lows(v)) <= k THEN Weight(in, Lows(v)) ELSE k
    BY <1>4, <1>7, <1>9
  <2> QED
    BY <1>2, <1>3, <2>1, <2>2, <2>3, <2>4, <2>5
<1>12. Ascending(t)
  <2>1. 0 \in Int
    OBVIOUS
  <2> QED
    BY <1>9, <2>1
<1>13. Keys(out) = Keys(t)
  BY <1>2, <1>8, <1>10, <1>11, <1>12, LowsDecide
<1>14. Keys(t) = FirstRows(Keys(s), k)
  <2> DEFINE f == FirstRows(Keys(s), k)
  <2>1. Len(s) \in Nat /\ DOMAIN s = 1 .. Len(s) /\ \A i \in 1 .. Len(s) : s[i] \in Rows
    BY <1>7
  <2>2. \A i \in 1 .. Len(s) : s[i].key \in Int
    BY <1>4, <2>1
  <2>3. /\ Keys(s) \in Seq(Int) /\ Len(Keys(s)) = Len(s)
        /\ \A i \in 1 .. Len(s) : Keys(s)[i] = s[i].key
    BY <2>1, <2>2 DEF Keys
  <2>4. /\ f \in Seq(Int) /\ Len(f) = IF k <= Len(s) THEN k ELSE Len(s)
        /\ \A i \in 1 .. Len(f) : i \in 1 .. Len(s) /\ f[i] = Keys(s)[i]
    BY <1>3, <2>3, FirstRowsAre
  <2> HIDE DEF f
  <2>5. Len(f) = Len(t) /\ Len(t) \in Nat /\ DOMAIN t = 1 .. Len(t)
    BY <1>8, <2>4
  <2>6. f = [i \in 1 .. Len(t) |-> f[i]]
    BY <2>4, <2>5
  <2>7. \A i \in 1 .. Len(t) : f[i] = t[i].key
    BY <1>8, <2>3, <2>4, <2>5
  <2>8. Keys(t) = [i \in 1 .. Len(t) |-> t[i].key]
    BY <2>5 DEF Keys
  <2>9. Keys(t) = f
    BY <2>6, <2>7, <2>8
  <2> QED
    BY <2>9 DEF f
<1>15. SomeRows(out, in)
  BY <1>1, <1>2, <1>6, SomeFromWeights
<1>16. SinkFinish(stage, h) = h
  BY DEF SinkFinish
<1>17. StageAnswer(stage, input, out)
  BY <1>13, <1>14, <1>15 DEF StageAnswer, in, s, k
<1> QED
  BY <1>2, <1>16, <1>17 DEF out

(* The end of a sequence weighs no more than all of it.                    *)
LEMMA RestWeighs ==
    ASSUME NEW R, NEW s \in Seq(R), NEW n \in Nat
    PROVE  LET t == SubSeq(s, n + 1, Len(s))
           IN  /\ t \in Seq(R) /\ Len(t) = IF n <= Len(s) THEN Len(s) - n ELSE 0
               /\ \A f \in [R -> Nat] : Weight(t, f) <= Weight(s, f)
<1> DEFINE t == SubSeq(s, n + 1, Len(s))
           N == Len(s)
<1>1. N \in Nat /\ n + 1 \in Int /\ \A i \in 1 .. N : s[i] \in R
  OBVIOUS
<1>2. \A i \in (n + 1) .. N : s[i] \in R
  BY <1>1
<1>3. t \in Seq(R) /\ Len(t) = IF n <= N THEN N - n ELSE 0
  <2>1. t \in Seq(R) /\ Len(t) = IF n + 1 <= N THEN N - (n + 1) + 1 ELSE 0
    BY <1>1, <1>2, SubSeqProperties
  <2> HIDE DEF t, N
  <2> QED
    BY <1>1, <2>1
<1>4. ASSUME NEW f \in [R -> Nat] PROVE Weight(t, f) <= Weight(s, f)
  <2>1. Weight(t, f) \in Nat /\ Weight(s, f) \in Nat
    BY <1>3, WeightSteps
  <2>2. CASE n <= N
    <3> DEFINE a == SubSeq(s, 1, n)
    <3>1. a \in Seq(R) /\ Len(a) = n
      <4>1. 1 \in Int /\ n \in Int /\ \A i \in 1 .. n : s[i] \in R
        BY <1>1, <2>2
      <4>2. a \in Seq(R) /\ Len(a) = IF 1 <= n THEN n - 1 + 1 ELSE 0
        BY <4>1, SubSeqProperties
      <4> HIDE DEF a
      <4> QED
        BY <4>2
    <3>2. s = a \o t
      <4>1. 1 \in 1 .. Len(s) + 1 /\ n \in 0 .. Len(s) /\ Len(s) \in n .. Len(s) /\ 1 - 1 = 0
        BY <1>1, <2>2
      <4>2. a \o t = SubSeq(s, 1, Len(s))
        BY <4>1, ConcatAdjacentSubSeq
      <4> HIDE DEF a, t
      <4> QED
        BY <4>2, SubSeqFull
    <3> HIDE DEF a, t
    <3>3. Weight(s, f) = Weight(a, f) + Weight(t, f) /\ Weight(a, f) \in Nat
      BY <1>3, <3>1, <3>2, WeightTogether, WeightSteps
    <3> QED
      BY <2>1, <3>3
  <2>3. CASE ~(n <= N)
    <3>1. Len(t) = 0
      BY <1>3, <2>3
    <3>2. t = <<>>
      BY <1>3, <3>1
    <3> HIDE DEF t
    <3>3. Weight(t, f) = 0
      BY <3>2, WeightSteps
    <3> QED
      BY <2>1, <3>3
  <2> QED
    BY <2>2, <2>3
<1> QED
  BY <1>3, <1>4

(* LIMIT returns the rows after its offset, and has as many as it may.     *)
LEMMA LimitAnswers ==
    ASSUME NEW stage \in StageType, stage.sink = "limit",
           NEW h, NEW input \in Seq(Rows), Enough(stage, h, Weights(Matching(stage, input)))
    PROVE  /\ SinkFinish(stage, h) \in Seq(Seq(Rows))
           /\ StageAnswer(stage, input, Concat(SinkFinish(stage, h)))
<1> DEFINE in == Matching(stage, input)
           rows == Concat(h)
           n == stage.offset
           out == SubSeq(rows, n + 1, Len(rows))
           left == AtLeast0(Len(in) - n)
           o == Concat(SinkFinish(stage, h))
<1>1. in \in Seq(Rows)
  BY FilterWeighs
<1>2. /\ h \in Seq(Seq(Rows)) /\ rows \in Seq(Rows)
      /\ Limited(stage) => Len(rows) <= Cap(stage)
  BY ConcatSeq DEF Enough, Shape
<1>3. /\ n \in Nat /\ Len(rows) \in Nat /\ Len(in) \in Nat
      /\ stage.limit \in Nat \/ stage.limit = NoLimit
      /\ Limited(stage) <=> stage.limit # NoLimit
  BY <1>1, <1>2, StageFields DEF Limited
<1>4. All \in Inds /\ Inds \subseteq [Rows -> Nat] /\ All \in Counted(stage)
  BY Indicators DEF Counted
<1>5. Weight(rows, All) = Len(rows) /\ Weight(in, All) = Len(in)
  BY <1>1, <1>2, AllWeighs
<1>6. \/ Limited(stage) /\ (stage.limit = 0 \/ Len(rows) >= n + stage.limit)
      \/ Len(rows) = Len(in)
  <2>1. Full(stage, h, All) \/ Weight(rows, All) = Weight(in, All)
    BY <1>4 DEF Enough, Weights
  <2>2. Full(stage, h, All) => Limited(stage) /\ (stage.limit = 0 \/ Len(rows) >= n + stage.limit)
    BY <1>5 DEF Full, Bound
  <2> HIDE DEF rows, in, n
  <2> QED
    BY <1>5, <2>1, <2>2
<1>7. \A f \in Inds : Weight(rows, f) <= Weight(in, f)
  BY <1>4 DEF Enough, Weights
<1>8. Limited(stage) => IF stage.limit = 0 THEN Len(rows) <= 0 ELSE Len(rows) <= n + stage.limit
  BY <1>2 DEF Cap, Bound
<1>9. left = IF Len(in) < n THEN 0 ELSE Len(in) - n
  <2> HIDE DEF in, n
  <2> QED
    BY <1>3 DEF AtLeast0
<1> HIDE DEF in, rows, n, left
<1>10. /\ out \in Seq(Rows) /\ Len(out) = IF n <= Len(rows) THEN Len(rows) - n ELSE 0
       /\ \A f \in [Rows -> Nat] : Weight(out, f) <= Weight(rows, f)
  BY <1>2, <1>3, RestWeighs
<1>11. SinkFinish(stage, h) = Rechunk(out)
  BY DEF SinkFinish, rows, n
<1> HIDE DEF out
<1>12. Rechunk(out) \in Seq(Seq(Rows)) /\ Concat(Rechunk(out)) = out
  BY <1>10, RechunkConcat
<1>13. SomeRows(out, in)
  <2>1. ASSUME NEW f \in Inds PROVE Weight(out, f) <= Weight(in, f)
    <3>1. f \in [Rows -> Nat]
      BY <1>4
    <3>2. Weight(out, f) \in Nat /\ Weight(rows, f) \in Nat /\ Weight(in, f) \in Nat
      BY <1>1, <1>2, <1>10, <3>1, WeightSteps
    <3> QED
      BY <1>7, <1>10, <3>1, <3>2
  <2> QED
    BY <1>1, <1>10, <2>1, SomeFromWeights
<1>14. Len(rows) <= Len(in)
  BY <1>4, <1>5, <1>7
<1>15. Len(out) = IF stage.limit = NoLimit THEN left ELSE Min({stage.limit, left})
  <2>1. CASE stage.limit = NoLimit
    BY <1>3, <1>6, <1>9, <1>10, <2>1
  <2>2. CASE stage.limit # NoLimit
    <3>1. stage.limit \in Nat /\ left \in Nat /\ Limited(stage)
      BY <1>3, <1>9, <2>2
    <3> DEFINE m == Min({stage.limit, left})
    <3>2. m \in {stage.limit, left} /\ m <= stage.limit /\ m <= left
      <4>1. stage.limit \in Int /\ left \in Int
        BY <3>1
      <4> QED
        BY <4>1, MinIs
    <3> HIDE DEF m
    <3>3. CASE stage.limit = 0
      BY <1>3, <1>8, <1>10, <2>2, <3>1, <3>2, <3>3 DEF m
    <3>4. CASE stage.limit # 0 /\ Len(rows) >= n + stage.limit
      <4>1. Len(rows) = n + stage.limit /\ Len(out) = stage.limit /\ left >= stage.limit
        BY <1>3, <1>8, <1>9, <1>10, <1>14, <3>1, <3>4
      <4> QED
        BY <2>2, <3>1, <3>2, <4>1 DEF m
    <3>5. CASE stage.limit # 0 /\ ~(Len(rows) >= n + stage.limit)
      <4>1. Len(rows) = Len(in)
        BY <1>6, <3>5
      <4>2. Len(out) = left /\ left <= stage.limit
        BY <1>3, <1>8, <1>9, <1>10, <3>1, <3>5, <4>1
      <4> QED
        BY <2>2, <3>1, <3>2, <4>2 DEF m
    <3> QED
      BY <3>3, <3>4, <3>5
  <2> QED
    BY <2>1, <2>2
<1>16. o = out
  BY <1>11, <1>12
<1> HIDE DEF o
<1>17. StageAnswer(stage, input, o)
  BY <1>13, <1>15, <1>16 DEF StageAnswer, in, n, left
<1> QED
  BY <1>11, <1>12, <1>17 DEF o

(* An aggregate returns one row for each key, with the key's count.        *)
LEMMA AggregateAnswers ==
    ASSUME NEW stage \in StageType, stage.sink = "aggregate",
           NEW h, NEW input \in Seq(Rows), Enough(stage, h, Weights(Matching(stage, input)))
    PROVE  /\ SinkFinish(stage, h) \in Seq(Seq(Rows))
           /\ StageAnswer(stage, input, Concat(SinkFinish(stage, h)))
<1> DEFINE in == Matching(stage, input)
           out == Concat(h)
           o == Concat(SinkFinish(stage, h))
<1>1. in \in Seq(Rows)
  BY FilterWeighs
<1>2. /\ h \in Seq(Seq(Rows)) /\ out \in Seq(Rows)
      /\ Distinct(out) /\ \A i \in DOMAIN out : out[i].id = 0
  BY ConcatSeq DEF Enough, Shape
<1>3. /\ Counted(stage) = {NOf(Rows, k) : k \in Int} /\ \A f : ~Full(stage, h, f)
      /\ \A k : NOf(Rows, k) \in [Rows -> Nat]
  BY Indicators DEF Counted, Full, Limited
<1>4. ASSUME NEW k \in Int PROVE CountOf(out, k) = CountOf(in, k)
  <2>1. Weight(out, NOf(Rows, k)) = Weight(in, NOf(Rows, k))
    BY <1>3 DEF Enough, Weights
  <2> HIDE DEF out, in
  <2> QED
    BY <1>1, <1>2, <2>1, CountIsWeight
<1>5. SinkFinish(stage, h) = Rechunk(out)
  BY DEF SinkFinish
<1> HIDE DEF in, out
<1>6. Rechunk(out) \in Seq(Seq(Rows)) /\ Concat(Rechunk(out)) = out
  BY <1>2, RechunkConcat
<1>7. ASSUME NEW i \in DOMAIN out
      PROVE  out[i] = [id |-> 0, key |-> out[i].key, n |-> CountOf(in, out[i].key)]
  <2>1. out[i] \in Rows
    BY <1>2
  <2>2. out[i] = [id |-> out[i].id, key |-> out[i].key, n |-> out[i].n] /\ out[i].key \in Int
    BY <2>1 DEF Rows
  <2>3. CountOf(out, out[i].key) = out[i].n
    BY <1>2, DistinctCounts
  <2>4. out[i].id = 0
    BY <1>2
  <2>5. out[i].n = CountOf(in, out[i].key)
    BY <1>4, <2>2, <2>3
  <2> DEFINE r == out[i]
             c == CountOf(in, r.key)
  <2>6. r = [id |-> r.id, key |-> r.key, n |-> r.n] /\ r.id = 0 /\ r.n = c
    BY <2>2, <2>4, <2>5
  <2> HIDE DEF r, c
  <2>7. r = [id |-> 0, key |-> r.key, n |-> c]
    BY <2>6
  <2> QED
    BY <2>7 DEF r, c
<1>8. {r.key : r \in Range(out)} = {r.key : r \in Range(in)}
  <2>1. ASSUME NEW k \in Int
        PROVE  (\E i \in DOMAIN out : out[i].key = k) <=> \E i \in DOMAIN in : in[i].key = k
    <3>1. CountOf(out, k) # 0 <=> \E i \in DOMAIN out : out[i].key = k
      BY <1>2, KeyCounts
    <3>2. CountOf(in, k) # 0 <=> \E i \in DOMAIN in : in[i].key = k
      BY <1>1, KeyCounts
    <3> QED
      BY <1>4, <3>1, <3>2
  <2>2. (\A i \in DOMAIN out : out[i].key \in Int) /\ \A i \in DOMAIN in : in[i].key \in Int
    <3>1. \A r \in Rows : r.key \in Int
      BY Indicators
    <3> QED
      BY <1>1, <1>2, <3>1
  <2> DEFINE A == {out[i].key : i \in DOMAIN out}
             B == {in[i].key : i \in DOMAIN in}
  <2>3. {r.key : r \in Range(out)} = A /\ {r.key : r \in Range(in)} = B
    BY DEF Range
  <2>4. A \subseteq Int /\ B \subseteq Int
    BY <2>2
  <2>5. \A k \in Int : k \in A <=> k \in B
    BY <2>1
  <2> HIDE DEF A, B
  <2>6. A = B
    BY <2>4, <2>5
  <2> QED
    BY <2>3, <2>6
<1>9. \A i, j \in DOMAIN out : out[i].key = out[j].key => i = j
  BY <1>2 DEF Distinct
<1>10. o = out
  BY <1>5, <1>6
<1> HIDE DEF o
<1>11. StageAnswer(stage, input, o)
  BY <1>7, <1>8, <1>9, <1>10 DEF StageAnswer, in
<1> QED
  BY <1>5, <1>6, <1>11 DEF o

(* A sink that holds enough of a stage's rows returns the stage's answer.  *)
LEMMA FinishAnswers ==
    ASSUME NEW stage \in StageType,
           NEW h, NEW input \in Seq(Rows), Enough(stage, h, Weights(Matching(stage, input)))
    PROVE  /\ SinkFinish(stage, h) \in Seq(Seq(Rows))
           /\ StageAnswer(stage, input, Concat(SinkFinish(stage, h)))
<1>1. stage.sink \in {"collect", "sort", "limit", "topk", "aggregate"}
  BY StageFields
<1> QED
  BY <1>1, AllAnswers, LimitAnswers, TopKAnswers, AggregateAnswers

-----------------------------------------------------------------------------
(* The rows of a stage.  st is the stage, ms its morsels, ws its workers.   *)

(* What worker x still has to push.                                        *)
Pending(ms, x) ==
    IF x.pc \in {"read", "reading"} THEN ms[x.morsel]
    ELSE IF x.pc = "push" THEN x.todo ELSE <<>>

(* What it holds and has to push: the weight of the morsels it has taken.  *)
Load(st, ms, x, f) ==
    Weight(Concat(x.held), f) + Weight(Concat(Pending(ms, x)), Pass(st, f))
Loads(st, ms, ws, f) == [w \in DOMAIN ws |-> Load(st, ms, ws[w], f)]

(* The weight of all morsels taken, n being the next.                      *)
Taken(st, ms, n, f) ==
    Weight(Concat(Concat(SubSeq(ms, 1, IF n > Len(ms) THEN Len(ms) ELSE n - 1))), Pass(st, f))

WorkerFine(st, x) ==
    /\ Shape(st, x.held) /\ x.todo \in Seq(Seq(Rows))
    /\ x.pc \in {"fail", "record"} => x.err # NoError

(* The stage will not finish.                                              *)
Broken ==
    \/ error # NoError
    \/ \E w \in DOMAIN workers : workers[w].pc \in {"fail", "record", "panicked"}

AnswersInv == sources \in Seq(Seq(Seq(Seq(Rows)))) /\ StagesRight

SinksInv ==
    /\ \A w \in DOMAIN workers : WorkerFine(Stage, workers[w])
    /\ merging # None => Shape(Stage, merging.held)

(* A failure is never forgotten.                                           *)
StopInv ==
    /\ stop => Broken
    /\ \A w \in DOMAIN workers : workers[w].pc \in {"drop", "failed"} => error # NoError

(* What is held and pending together, by the main thread and the workers.  *)
Total(f) ==
    (IF merging = None THEN 0 ELSE Weight(Concat(merging.held), f))
        + SumFunction(Loads(Stage, Morsels, workers, f))
SomeFull(f) ==
    \/ merging # None /\ Full(Stage, merging.held, f)
    \/ \E w \in DOMAIN workers : Full(Stage, workers[w].held, f)

(* No row is lost, unless somebody has enough, and none is there twice.    *)
CountInv ==
    ~Broken =>
        /\ \A f \in Counted(Stage) :
              SomeFull(f) \/ Total(f) = Taken(Stage, Morsels, next, f)
        /\ Stage.sink # "aggregate" =>
              \A f \in Inds : Total(f) <= Taken(Stage, Morsels, next, f)

(* A worker is done when no morsel is left or its sink has enough.         *)
EndInv ==
    /\ (merging = None /\ ~Broken) =>
          \A w \in DOMAIN workers :
              workers[w].pc = "done" => next > Len(Morsels) \/ SinkDone(Stage, workers[w].held)
    /\ merging # None =>
          /\ ~Broken
          /\ \A w \in DOMAIN workers :
                workers[w].pc = "done" /\ (w < merging.left => workers[w].held = <<>>)
          /\ next > Len(Morsels) \/ \A f \in Counted(Stage) : SomeFull(f)

RowsInv == AnswersInv /\ (result = None => SinksInv /\ StopInv /\ CountInv /\ EndInv)

(* Weights of what a filter lets through.                                  *)
LEMMA PassTyped ==
    ASSUME NEW st, NEW f \in [Rows -> Nat]
    PROVE  Pass(st, f) \in [Rows -> Nat]
BY DEF Pass, Mask

(* What a worker holds and has to push has a weight.                       *)
LEMMA LoadNat ==
    ASSUME NEW st, NEW x, WorkerFine(st, x), NEW ms \in Seq(Seq(Seq(Rows))),
           x.pc \in {"read", "reading"} => x.morsel \in 1 .. Len(ms), NEW f \in [Rows -> Nat]
    PROVE  /\ Pending(ms, x) \in Seq(Seq(Rows)) /\ x.held \in Seq(Seq(Rows))
           /\ Weight(Concat(x.held), f) \in Nat
           /\ Weight(Concat(Pending(ms, x)), Pass(st, f)) \in Nat
           /\ Load(st, ms, x, f) \in Nat
<1>1. x.held \in Seq(Seq(Rows)) /\ x.todo \in Seq(Seq(Rows))
  BY DEF WorkerFine, Shape
<1>2. Pending(ms, x) \in Seq(Seq(Rows))
  <2>1. <<>> \in Seq(Seq(Rows))
    OBVIOUS
  <2> QED
    BY <1>1, <2>1 DEF Pending
<1>3. Pass(st, f) \in [Rows -> Nat]
  BY PassTyped
<1>4. Weight(Concat(x.held), f) \in Nat /\ Weight(Concat(Pending(ms, x)), Pass(st, f)) \in Nat
  BY <1>1, <1>2, <1>3, HeldWeighs
<1> QED
  BY <1>1, <1>2, <1>4 DEF Load

(* A morsel that is taken adds its rows; all that are taken are no more    *)
(* than the input, and all of it at the end.                               *)
LEMMA TakenSteps ==
    ASSUME NEW st, NEW ms \in Seq(Seq(Seq(Rows))), NEW n \in Nat \ {0}, NEW f \in [Rows -> Nat]
    PROVE  /\ Taken(st, ms, n, f) \in Nat
           /\ Taken(st, ms, 1, f) = 0
           /\ n <= Len(ms) => /\ Weight(Concat(ms[n]), Pass(st, f)) \in Nat
                              /\ Taken(st, ms, n + 1, f)
                                  = Taken(st, ms, n, f) + Weight(Concat(ms[n]), Pass(st, f))
           /\ n > Len(ms) => /\ Taken(st, ms, n + 1, f) = Taken(st, ms, n, f)
                             /\ Taken(st, ms, n, f)
                                  = Weight(Matching(st, Concat(Concat(ms))), f)
           /\ Taken(st, ms, n, f) <= Weight(Matching(st, Concat(Concat(ms))), f)
<1> DEFINE g == Pass(st, f)
           N == Len(ms)
           all(m) == Weight(Concat(Concat(SubSeq(ms, 1, m))), g)
           in == Weight(Matching(st, Concat(Concat(ms))), f)
           one(m) == Weight(Concat(ms[m]), g)
<1>1. g \in [Rows -> Nat] /\ N \in Nat
  BY PassTyped
<1> HIDE DEF g
<1>2. /\ all(0) = 0 /\ Concat(Concat(ms)) \in Seq(Rows)
      /\ \A m \in 1 .. N : ms[m] \in Seq(Seq(Rows)) /\ all(m) = all(m - 1) + one(m)
      /\ SubSeq(ms, 1, N) = ms
  <2>1. /\ Weight(Concat(Concat(SubSeq(ms, 1, 0))), g) = 0
        /\ Concat(Concat(ms)) \in Seq(Rows) /\ SubSeq(ms, 1, Len(ms)) = ms
        /\ \A m \in 1 .. Len(ms) :
              /\ ms[m] \in Seq(Seq(Rows))
              /\ Weight(Concat(Concat(SubSeq(ms, 1, m))), g)
                  = Weight(Concat(Concat(SubSeq(ms, 1, m - 1))), g) + Weight(Concat(ms[m]), g)
    <3>1. g \in [Rows -> Nat] /\ ms \in Seq(Seq(Seq(Rows)))
      BY <1>1
    <3>2. /\ Weight(Concat(Concat(SubSeq(ms, 1, 0))), g) = 0
          /\ Concat(Concat(ms)) \in Seq(Rows) /\ SubSeq(ms, 1, Len(ms)) = ms
          /\ \A m \in 1 .. Len(ms) :
                /\ SubSeq(ms, 1, m - 1) \in Seq(Seq(Seq(Rows)))
                /\ ms[m] \in Seq(Seq(Rows))
                /\ Weight(Concat(Concat(SubSeq(ms, 1, m))), g)
                    = Weight(Concat(Concat(SubSeq(ms, 1, m - 1))), g) + Weight(Concat(ms[m]), g)
      BY <3>1, MorselsWeigh
    <3> QED
      BY <3>2
  <2>2. ASSUME NEW m \in 1 .. N
        PROVE  ms[m] \in Seq(Seq(Rows)) /\ all(m) = all(m - 1) + one(m)
    BY <2>1
  <2> HIDE DEF all, one
  <2>3. all(0) = 0 /\ SubSeq(ms, 1, N) = ms
    BY <2>1 DEF all
  <2> QED
    BY <2>1, <2>2, <2>3
<1>3. in = all(N)
  BY <1>2, FilterWeighs DEF g
<1>4. \A m \in 1 .. N : one(m) \in Nat
  BY <1>1, <1>2, HeldWeighs
<1>5. \A i \in Nat : Taken(st, ms, i, f) = all(IF i > N THEN N ELSE i - 1)
  BY DEF Taken, g
<1> HIDE DEF N, all, in, one
<1> DEFINE U == {j \in Nat : j <= N => all(j) \in Nat}
           V == {j \in Nat : j <= N => all(N - j) <= all(N)}
<1>6. Nat \subseteq U
  <2>1. 0 \in U
    BY <1>2
  <2>2. ASSUME NEW j \in Nat, j \in U PROVE j + 1 \in U
    <3> SUFFICES ASSUME j + 1 <= N PROVE all(j + 1) \in Nat
      OBVIOUS
    <3>1. j + 1 \in 1 .. N /\ (j + 1) - 1 = j /\ j <= N
      BY <1>1
    <3> QED
      BY <1>2, <1>4, <2>2, <3>1
  <2> HIDE DEF U
  <2> QED
    BY <2>1, <2>2, CountUp
<1>7. Nat \subseteq V
  <2>1. 0 \in V
    <3>1. all(N) \in Nat /\ N - 0 = N
      BY <1>1, <1>6
    <3> QED
      BY <3>1
  <2>2. ASSUME NEW j \in Nat, j \in V PROVE j + 1 \in V
    <3> SUFFICES ASSUME j + 1 <= N PROVE all(N - (j + 1)) <= all(N)
      OBVIOUS
    <3>1. N - j \in 1 .. N /\ (N - j) - 1 = N - (j + 1) /\ j <= N /\ N - (j + 1) \in Nat
          /\ N - (j + 1) <= N
      BY <1>1
    <3>2. all(N - j) = all(N - (j + 1)) + one(N - j) /\ one(N - j) \in Nat
      BY <1>2, <1>4, <3>1
    <3>3. all(N - j) <= all(N)
      BY <2>2, <3>1
    <3>4. all(N - (j + 1)) \in Nat /\ all(N) \in Nat
      BY <1>1, <1>6, <3>1
    <3> QED
      BY <3>2, <3>3, <3>4
  <2> HIDE DEF V
  <2> QED
    BY <2>1, <2>2, CountUp
<1>8. ASSUME NEW m \in 0 .. N PROVE all(m) \in Nat /\ all(m) <= all(N)
  <2>1. m \in Nat /\ m <= N /\ N - m \in Nat /\ N - m <= N /\ N - (N - m) = m
    BY <1>1
  <2> QED
    BY <1>6, <1>7, <2>1
<1>9. Taken(st, ms, n, f) \in Nat /\ Taken(st, ms, n, f) <= in
  <2>1. (IF n > N THEN N ELSE n - 1) \in 0 .. N
    BY <1>1
  <2> QED
    BY <1>3, <1>5, <1>8, <2>1
<1>10. Taken(st, ms, 1, f) = 0
  <2>1. 1 \in Nat /\ (IF 1 > N THEN N ELSE 1 - 1) = 0
    BY <1>1
  <2> QED
    BY <1>2, <1>5, <2>1
<1>11. ASSUME n <= N
       PROVE  one(n) \in Nat /\ Taken(st, ms, n + 1, f) = Taken(st, ms, n, f) + one(n)
  <2>1. n \in 1 .. N /\ (IF n > N THEN N ELSE n - 1) = n - 1
        /\ (IF n + 1 > N THEN N ELSE (n + 1) - 1) = n /\ n + 1 \in Nat
    BY <1>1, <1>11
  <2> QED
    BY <1>2, <1>4, <1>5, <2>1
<1>12. ASSUME n > N
       PROVE  Taken(st, ms, n + 1, f) = Taken(st, ms, n, f) /\ Taken(st, ms, n, f) = in
  <2>1. (IF n > N THEN N ELSE n - 1) = N /\ (IF n + 1 > N THEN N ELSE (n + 1) - 1) = N
        /\ n + 1 \in Nat
    BY <1>1, <1>12
  <2> QED
    BY <1>3, <1>5, <2>1
<1> QED
  BY <1>9, <1>10, <1>11, <1>12 DEF N, in, one, g

(* One worker of n changes.                                                *)
Changes(st, ms, f, n, ws, new, w) ==
    /\ n \in Nat /\ w \in 1 .. n /\ DOMAIN ws = 1 .. n /\ DOMAIN new = 1 .. n
    /\ \A v \in 1 .. n : v # w => new[v] = ws[v]
    /\ \A v \in 1 .. n : Load(st, ms, ws[v], f) \in Nat
    /\ Load(st, ms, new[w], f) \in Nat

(* The sum over the pool changes by what the one worker changes.           *)
LEMMA OneLoad ==
    ASSUME NEW st, NEW ms, NEW f, NEW n, NEW ws, NEW new, NEW w,
           Changes(st, ms, f, n, ws, new, w)
    PROVE  /\ SumFunction(Loads(st, ms, ws, f)) \in Nat
           /\ SumFunction(Loads(st, ms, new, f)) \in Nat
           /\ SumFunction(Loads(st, ms, new, f))
                = SumFunction(Loads(st, ms, ws, f)) - Load(st, ms, ws[w], f)
                    + Load(st, ms, new[w], f)
<1> DEFINE a == Loads(st, ms, ws, f)
           b == Loads(st, ms, new, f)
<1>0. /\ n \in Nat /\ w \in 1 .. n /\ DOMAIN ws = 1 .. n /\ DOMAIN new = 1 .. n
      /\ \A v \in 1 .. n : v # w => new[v] = ws[v]
      /\ \A v \in 1 .. n : Load(st, ms, ws[v], f) \in Nat
      /\ Load(st, ms, new[w], f) \in Nat
  BY DEF Changes
<1>1. /\ \A v \in 1 .. n : a[v] = Load(st, ms, ws[v], f) /\ b[v] = Load(st, ms, new[v], f)
      /\ a = [v \in 1 .. n |-> a[v]] /\ b = [v \in 1 .. n |-> b[v]]
  BY <1>0 DEF Loads
<1>2. \A v \in 1 .. n : a[v] \in Nat /\ b[v] \in Nat /\ (v # w => b[v] = a[v])
  BY <1>0, <1>1
<1> HIDE DEF a, b
<1>3. Numbers(a, n) /\ Numbers(b, n)
  BY <1>0, <1>1, <1>2 DEF Numbers
<1>4. SumFunction(a) \in Nat /\ SumFunction(b) \in Nat
  BY <1>0, <1>3, SumNat
<1>5. SumFunction(b) = SumFunction(a) - a[w] + b[w]
  BY <1>0, <1>2, <1>3, SumChange
<1> QED
  BY <1>0, <1>1, <1>4, <1>5 DEF a, b

(* A sink that has been given nothing.                                     *)
LEMMA EmptySink ==
    ASSUME NEW st \in StageType
    PROVE  Shape(st, <<>>) /\ \A f \in [Rows -> Nat] : Weight(Concat(<<>>), f) = 0
<1>1. Concat(<<>>) = <<>> /\ <<>> \in Seq(Seq(Rows)) /\ Len(<<>>) = 0 /\ DOMAIN <<>> = {}
  BY NothingHeld
<1>2. \A f \in [Rows -> Nat] : Weight(Concat(<<>>), f) = 0
  BY <1>1, WeightSteps
<1>3. st.k \in Nat /\ (Limited(st) => Cap(st) \in Nat)
  BY StageFields
<1>4. Shape(st, <<>>)
  BY <1>1, <1>3 DEF Shape, Ascending, Distinct
<1> QED
  BY <1>2, <1>4

(* Workers that have not started.                                          *)
LEMMA FreshPool ==
    ASSUME NEW st \in StageType, NEW ms \in Seq(Seq(Seq(Rows)))
    PROVE  /\ \A w \in DOMAIN Pool(ms) : Pool(ms)[w] = NewWorker
           /\ WorkerFine(st, NewWorker) /\ NewWorker.pc = "claim"
           /\ \A f \in [Rows -> Nat] : SumFunction(Loads(st, ms, Pool(ms), f)) = 0
<1>1. \A w \in DOMAIN Pool(ms) : Pool(ms)[w] = NewWorker
  BY DEF Pool
<1>2. NewWorker.pc = "claim" /\ NewWorker.held = <<>> /\ NewWorker.todo = <<>>
  BY DEF NewWorker
<1>3. WorkerFine(st, NewWorker)
  <2>1. Shape(st, <<>>) /\ <<>> \in Seq(Seq(Rows))
    BY EmptySink
  <2> QED
    BY <1>2, <2>1 DEF WorkerFine
<1>4. ASSUME NEW f \in [Rows -> Nat] PROVE SumFunction(Loads(st, ms, Pool(ms), f)) = 0
  <2>1. Load(st, ms, NewWorker, f) = 0
    <3>1. Pass(st, f) \in [Rows -> Nat] /\ Pending(ms, NewWorker) = <<>>
      BY <1>2, PassTyped DEF Pending
    <3>2. Weight(Concat(<<>>), f) = 0 /\ Weight(Concat(<<>>), Pass(st, f)) = 0
      BY <3>1, EmptySink
    <3> QED
      BY <1>2, <3>1, <3>2 DEF Load
  <2>2. PICK n \in Nat \ {0} : PoolOK(Pool(ms), n, Len(ms))
    <3>1. Len(ms) \in Nat
      OBVIOUS
    <3> QED
      BY <3>1, NewPool
  <2>3. DOMAIN Pool(ms) = 1 .. n
    BY <2>2 DEF PoolOK
  <2> DEFINE a == Loads(st, ms, Pool(ms), f)
  <2>4. DOMAIN a = 1 .. n /\ \A w \in 1 .. n : a[w] = 0
    BY <1>1, <2>1, <2>3 DEF Loads
  <2> HIDE DEF a
  <2>5. SumFunction(a) = 0
    BY <2>4, SumZero
  <2> QED
    BY <2>5 DEF a
<1> QED
  BY <1>1, <1>2, <1>3, <1>4

(* Worker x is what is left of worker me after a step that claims the      *)
(* morsels from n up to m.                                                 *)
Moves(st, ms, me, x, n, m) ==
    /\ x.pc = "done" => m > Len(ms) \/ SinkDone(st, x.held)
    /\ \A f \in Counted(st) :
          /\ Full(st, me.held, f) => Full(st, x.held, f)
          /\ \/ Full(st, x.held, f)
             \/ Load(st, ms, x, f) + Taken(st, ms, n, f) = Load(st, ms, me, f) + Taken(st, ms, m, f)
    /\ st.sink # "aggregate" =>
          \A f \in Inds :
             Load(st, ms, x, f) + Taken(st, ms, n, f) <= Load(st, ms, me, f) + Taken(st, ms, m, f)

(* What is known while the workers run.                                    *)
LEMMA WorkersHere ==
    ASSUME BudgetInv, RowsInv, Running
    PROVE  /\ AnswersInv /\ SinksInv /\ StopInv /\ CountInv /\ EndInv
           /\ Stage \in StageType /\ Morsels \in Seq(Seq(Seq(Rows)))
           /\ Len(Morsels) \in Nat /\ next \in Nat \ {0} /\ Len(sources) \in Nat \ {0}
           /\ \E n \in Nat \ {0} : PoolOK(workers, n, Len(Morsels)) /\ DOMAIN workers = 1 .. n
<1>1. StageInv /\ PoolInv
  BY DEF BudgetInv
<1>2. Stage \in StageType
  BY <1>1, StageTyped
<1>3. AnswersInv /\ SinksInv /\ StopInv /\ CountInv /\ EndInv
  BY DEF RowsInv, Running
<1>4. next \in Nat \ {0} /\ Len(sources) \in Nat \ {0}
  <2>1. next \in Nat \ {0} /\ Len(sources) \in 1 .. Len(plan) /\ plan \in Plans
    BY <1>1 DEF StageInv
  <2>2. Len(plan) \in Nat
    BY <2>1, QueryAssumption
  <2> QED
    BY <2>1, <2>2
<1>5. Morsels \in Seq(Seq(Seq(Rows)))
  BY <1>3, <1>4 DEF AnswersInv, Morsels
<1>6. PICK n \in Nat : PoolOK(workers, n, Len(Morsels)) /\ n # 0
  BY <1>1 DEF PoolInv
<1>7. DOMAIN workers = 1 .. n /\ n \in Nat \ {0} /\ Len(Morsels) \in Nat
  BY <1>5, <1>6 DEF PoolOK
<1> QED
  BY <1>2, <1>3, <1>4, <1>5, <1>6, <1>7

(* One worker steps from me to x.                                          *)
SumsMove(st, ms, f, n, w, me, x) ==
    /\ n \in Nat /\ w \in 1 .. n /\ DOMAIN workers = 1 .. n /\ DOMAIN workers' = 1 .. n
    /\ \A v \in 1 .. n : v # w => workers'[v] = workers[v]
    /\ \A v \in 1 .. n : Load(st, ms, workers[v], f) \in Nat
    /\ Load(st, ms, x, f) \in Nat
    /\ workers[w] = me /\ workers'[w] = x

(* The same for the workers of this state and the next.                    *)
LEMMA SumsMoved ==
    ASSUME NEW st, NEW ms, NEW f, NEW n, NEW w, NEW me, NEW x, SumsMove(st, ms, f, n, w, me, x)
    PROVE  /\ SumFunction(Loads(st, ms, workers, f)) \in Nat
           /\ SumFunction(Loads(st, ms, workers', f)) \in Nat
           /\ SumFunction(Loads(st, ms, workers', f))
                = SumFunction(Loads(st, ms, workers, f)) - Load(st, ms, me, f) + Load(st, ms, x, f)
<1>1. Changes(st, ms, f, n, workers, workers', w)
  BY DEF SumsMove, Changes
<1>2. workers[w] = me /\ workers'[w] = x
  BY DEF SumsMove
<1>3. /\ SumFunction(Loads(st, ms, workers, f)) \in Nat
      /\ SumFunction(Loads(st, ms, workers', f)) \in Nat
      /\ SumFunction(Loads(st, ms, workers', f))
           = SumFunction(Loads(st, ms, workers, f)) - Load(st, ms, workers[w], f)
               + Load(st, ms, workers'[w], f)
  BY <1>1, OneLoad
<1> QED
  BY <1>2, <1>3

(* A step of one worker: what it has taken of the morsels it holds, has to *)
(* push, or does not need.                                                 *)
LEMMA WorkerRows ==
    ASSUME BudgetInv, BudgetInv', RowsInv, Running, NEW w \in DOMAIN workers, NEW x,
           workers' = [workers EXCEPT ![w] = x], UNCHANGED <<query, main>>,
           WorkerFine(Stage, x), Broken => Broken', stop' => Broken',
           error # NoError => error' # NoError,
           x.pc \in {"drop", "failed"} => error' # NoError,
           next' \in Nat, next' >= next,
           ~Broken' => Moves(Stage, Morsels, workers[w], x, next, next')
    PROVE  RowsInv'
<1> DEFINE st == Stage
           ms == Morsels
           me == workers[w]
<1>1. /\ AnswersInv /\ SinksInv /\ StopInv /\ CountInv /\ EndInv
      /\ Stage \in StageType /\ Morsels \in Seq(Seq(Seq(Rows)))
      /\ Len(Morsels) \in Nat /\ next \in Nat \ {0}
  BY WorkersHere
<1>2. PICK n \in Nat \ {0} : PoolOK(workers, n, Len(Morsels)) /\ DOMAIN workers = 1 .. n
  BY WorkersHere
<1>3. /\ plan' = plan /\ sources' = sources /\ merging' = None /\ result' = None
      /\ merging = None /\ result = None /\ Stage' = Stage /\ Morsels' = Morsels
  BY DEF query, main, Running, Stage, Morsels
<1>4. /\ DOMAIN workers' = 1 .. n /\ w \in 1 .. n /\ workers'[w] = x
      /\ \A v \in 1 .. n : v # w => workers'[v] = workers[v]
  BY <1>2
<1>5. PoolOK(workers', n, Len(Morsels))
  <2>1. PICK m \in Nat : PoolOK(workers', m, Len(Morsels))
    BY <1>3 DEF BudgetInv, PoolInv
  <2>2. 1 .. m = 1 .. n
    BY <1>4, <2>1 DEF PoolOK
  <2>3. PoolOK(workers', n, Len(Morsels))
    BY <2>1, <2>2 DEF PoolOK
  <2> QED
    BY <2>3
<1>6. AnswersInv'
  <2>1. StagesRight'
    BY <1>1, <1>3 DEF AnswersInv, StagesRight
  <2> QED
    BY <1>1, <1>3, <2>1 DEF AnswersInv
<1>7. \A v \in 1 .. n : WorkerFine(Stage, workers[v]) /\ WorkerFine(Stage, workers'[v])
  BY <1>1, <1>2, <1>4 DEF SinksInv
<1>8. SinksInv'
  <2>1. \A v \in DOMAIN workers' : WorkerFine(Stage', workers'[v])
    BY <1>3, <1>4, <1>7
  <2> QED
    BY <1>3, <2>1 DEF SinksInv
<1>9. StopInv'
  BY <1>1, <1>2, <1>4 DEF StopInv
<1>10. ASSUME NEW f \in [Rows -> Nat]
       PROVE  /\ Total(f) = SumFunction(Loads(st, ms, workers, f)) /\ Total(f) \in Nat
              /\ Total(f)' = SumFunction(Loads(st, ms, workers', f)) /\ Total(f)' \in Nat
              /\ Total(f)' = Total(f) - Load(st, ms, me, f) + Load(st, ms, x, f)
              /\ Load(st, ms, me, f) \in Nat /\ Load(st, ms, x, f) \in Nat
              /\ Taken(st, ms, next, f) \in Nat
  <2>1. \A v \in 1 .. n : Load(st, ms, workers[v], f) \in Nat
    <3>1. \A v \in 1 .. n :
             workers[v].pc \in {"read", "reading"} => workers[v].morsel \in 1 .. Len(ms)
      BY <1>2 DEF PoolOK, WorkerOK
    <3> QED
      BY <1>1, <1>7, <3>1, LoadNat
  <2>2. Load(st, ms, x, f) \in Nat
    <3>1. x.pc \in {"read", "reading"} => x.morsel \in 1 .. Len(ms)
      BY <1>4, <1>5 DEF PoolOK, WorkerOK
    <3> QED
      BY <1>1, <3>1, LoadNat
  <2>3. Taken(st, ms, next, f) \in Nat
    BY <1>1, TakenSteps
  <2> HIDE DEF st, ms
  <2> DEFINE a == SumFunction(Loads(st, ms, workers, f))
             b == SumFunction(Loads(st, ms, workers', f))
  <2>4. a \in Nat /\ b \in Nat /\ b = a - Load(st, ms, me, f) + Load(st, ms, x, f)
    <3> HIDE DEF me
    <3>1. me = workers[w] /\ n \in Nat
      BY DEF me
    <3>2. SumsMove(st, ms, f, n, w, me, x)
      BY <1>2, <1>4, <2>1, <2>2, <3>1 DEF SumsMove
    <3> QED
      BY <3>2, SumsMoved
  <2>5. Total(f) = 0 + a /\ Total(f)' = 0 + b
    BY <1>3 DEF Total, st, ms
  <2> HIDE DEF a, b
  <2>6. Total(f) = a /\ Total(f)' = b
    BY <2>4, <2>5
  <2> QED
    BY <1>4, <2>1, <2>2, <2>3, <2>4, <2>6 DEF a, b
<1> HIDE DEF st, ms, me
<1>11. CountInv'
  <2> SUFFICES ASSUME ~Broken'
               PROVE  /\ \A f \in Counted(st) : SomeFull(f)' \/ Total(f)' = Taken(st, ms, next', f)
                      /\ st.sink # "aggregate" =>
                            \A f \in Inds : Total(f)' <= Taken(st, ms, next', f)
    BY <1>3 DEF CountInv, st, ms
  <2>1. ~Broken /\ Moves(st, ms, me, x, next, next')
    BY DEF st, ms, me
  <2>2. /\ \A f \in Counted(st) : SomeFull(f) \/ Total(f) = Taken(st, ms, next, f)
        /\ st.sink # "aggregate" => \A f \in Inds : Total(f) <= Taken(st, ms, next, f)
    BY <1>1, <2>1 DEF CountInv, st, ms
  <2>3. next' \in Nat \ {0}
    BY <1>1
  <2>4. Counted(st) \subseteq [Rows -> Nat] /\ Inds \subseteq [Rows -> Nat]
    BY Indicators
  <2>5. ASSUME NEW f \in Counted(st) PROVE SomeFull(f)' \/ Total(f)' = Taken(st, ms, next', f)
    <3>1. f \in [Rows -> Nat]
      BY <2>4
    <3>2. Taken(st, ms, next', f) \in Nat
      BY <1>1, <2>3, <3>1, TakenSteps DEF ms
    <3>3. SomeFull(f)' <=> \E v \in 1 .. n : Full(st, workers'[v].held, f)
      BY <1>3, <1>4 DEF SomeFull, st
    <3>4. SomeFull(f) <=> \E v \in 1 .. n : Full(st, workers[v].held, f)
      BY <1>2, <1>3 DEF SomeFull, st
    <3>5. Full(st, me.held, f) => Full(st, x.held, f)
      BY <2>1 DEF Moves
    <3>6. SomeFull(f) => SomeFull(f)'
      BY <1>4, <3>3, <3>4, <3>5 DEF me
    <3>7. \/ Full(st, x.held, f)
          \/ Load(st, ms, x, f) + Taken(st, ms, next, f)
               = Load(st, ms, me, f) + Taken(st, ms, next', f)
      BY <2>1 DEF Moves
    <3>8. Full(st, x.held, f) => SomeFull(f)'
      BY <1>4, <3>3
    <3>9. SomeFull(f) \/ Total(f) = Taken(st, ms, next, f)
      BY <2>2
    <3> QED
      BY <1>10, <3>1, <3>2, <3>6, <3>7, <3>8, <3>9
  <2>6. ASSUME st.sink # "aggregate", NEW f \in Inds
        PROVE  Total(f)' <= Taken(st, ms, next', f)
    <3>1. f \in [Rows -> Nat]
      BY <2>4
    <3>2. Taken(st, ms, next', f) \in Nat
      BY <1>1, <2>3, <3>1, TakenSteps DEF ms
    <3>3. Load(st, ms, x, f) + Taken(st, ms, next, f)
               <= Load(st, ms, me, f) + Taken(st, ms, next', f)
      BY <2>1, <2>6 DEF Moves
    <3>4. Total(f) <= Taken(st, ms, next, f)
      BY <2>2, <2>6
    <3> QED
      BY <1>10, <3>1, <3>2, <3>3, <3>4
  <2> QED
    BY <2>5, <2>6
<1>12. EndInv'
  <2> SUFFICES ASSUME ~Broken', NEW v \in 1 .. n, workers'[v].pc = "done"
               PROVE  next' > Len(ms) \/ SinkDone(st, workers'[v].held)
    BY <1>3, <1>4 DEF EndInv, st, ms
  <2>1. ~Broken /\ Moves(st, ms, me, x, next, next')
    BY DEF st, ms, me
  <2>2. CASE v = w
    BY <1>4, <2>1, <2>2 DEF Moves
  <2>3. CASE v # w
    <3>1. next > Len(ms) \/ SinkDone(st, workers[v].held)
      BY <1>1, <1>2, <1>3, <1>4, <2>1, <2>3 DEF EndInv, st, ms
    <3> QED
      BY <1>1, <1>4, <2>3, <3>1 DEF ms
  <2> QED
    BY <2>2, <2>3
<1> QED
  BY <1>6, <1>8, <1>9, <1>11, <1>12 DEF RowsInv

(* The step is the one of worker w, to x.                                  *)
Steps(w, x) ==
    /\ Running /\ w \in DOMAIN workers
    /\ workers' = [workers EXCEPT ![w] = x] /\ UNCHANGED <<query, main>>
    /\ WorkerFine(Stage, x)

(* A step that leaves the stage broken.                                    *)
LEMMA BreakRows ==
    ASSUME BudgetInv, BudgetInv', RowsInv, NEW w, NEW x, Steps(w, x), next' = next,
           error # NoError => error' # NoError,
           x.pc \in {"drop", "failed"} => error' # NoError,
           error' # NoError \/ x.pc \in {"fail", "record", "panicked"}
    PROVE  RowsInv'
<1>1. /\ Running /\ w \in DOMAIN workers
      /\ workers' = [workers EXCEPT ![w] = x] /\ UNCHANGED <<query, main>>
      /\ WorkerFine(Stage, x)
  BY DEF Steps
<1>2. Broken'
  <2>1. w \in DOMAIN workers' /\ workers'[w] = x
    BY <1>1
  <2> QED
    BY <2>1 DEF Broken
<1>3. next' \in Nat /\ next' >= next
  BY <1>1, WorkersHere
<1> QED
  BY <1>1, <1>2, <1>3, WorkerRows

(* A step with no news of a failure, or one that fails.                    *)
LEMMA MoveRows ==
    ASSUME BudgetInv, BudgetInv', RowsInv, NEW w, NEW x, Steps(w, x),
           stop' = stop, error' = error, next' \in Nat, next' >= next,
           x.pc # workers[w].pc => /\ workers[w].pc \notin {"fail", "record", "panicked"}
                                   /\ x.pc \notin {"drop", "failed"},
           Broken \/ x.pc = "fail" \/ Moves(Stage, Morsels, workers[w], x, next, next')
    PROVE  RowsInv'
<1>1. /\ Running /\ w \in DOMAIN workers
      /\ workers' = [workers EXCEPT ![w] = x] /\ UNCHANGED <<query, main>>
      /\ WorkerFine(Stage, x)
  BY DEF Steps
<1>2. /\ DOMAIN workers' = DOMAIN workers /\ workers'[w] = x
      /\ \A v \in DOMAIN workers : v # w => workers'[v] = workers[v]
  BY <1>1
<1>3. Broken => Broken'
  BY <1>1, <1>2 DEF Broken
<1>4. StopInv
  BY <1>1, WorkersHere
<1>5. stop' => Broken'
  BY <1>3, <1>4 DEF StopInv
<1>6. x.pc \in {"drop", "failed"} => error' # NoError
  BY <1>1, <1>4 DEF StopInv
<1>7. x.pc = "fail" => Broken'
  BY <1>1, <1>2 DEF Broken
<1>8. ~Broken' => Moves(Stage, Morsels, workers[w], x, next, next')
  BY <1>3, <1>7
<1>9. error # NoError => error' # NoError
  OBVIOUS
<1> QED
  BY <1>1, <1>3, <1>5, <1>6, <1>8, <1>9, WorkerRows

(* A worker of the stage, and what it has.                                 *)
LEMMA MeHere ==
    ASSUME BudgetInv, RowsInv, Running, NEW w \in DOMAIN workers
    PROVE  LET me == workers[w]
           IN  /\ me = [pc |-> me.pc, morsel |-> me.morsel, todo |-> me.todo, held |-> me.held,
                        res |-> me.res, reading |-> me.reading, raised |-> me.raised,
                        err |-> me.err]
               /\ me.pc \in {"read", "reading"} =>
                     me.morsel \in 1 .. Len(Morsels) /\ Morsels[me.morsel] \in Seq(Seq(Rows))
               /\ WorkerFine(Stage, me)
               /\ \A f \in [Rows -> Nat] : Load(Stage, Morsels, me, f) \in Nat
<1> DEFINE me == workers[w]
<1>1. /\ SinksInv /\ Morsels \in Seq(Seq(Seq(Rows))) /\ Len(Morsels) \in Nat
  BY WorkersHere
<1>2. WorkerOK(me, Len(Morsels))
  BY WorkerHere
<1>3. WorkerFine(Stage, me)
  BY <1>1 DEF SinksInv
<1>4. me.pc \in {"read", "reading"} => me.morsel \in 1 .. Len(Morsels)
  BY <1>2 DEF WorkerOK
<1>5. \A i \in 1 .. Len(Morsels) : Morsels[i] \in Seq(Seq(Rows))
  BY <1>1
<1> HIDE DEF me
<1>6. \A f \in [Rows -> Nat] : Load(Stage, Morsels, me, f) \in Nat
  BY <1>1, <1>3, <1>4, LoadNat
<1>7. me = [pc |-> me.pc, morsel |-> me.morsel, todo |-> me.todo, held |-> me.held,
            res |-> me.res, reading |-> me.reading, raised |-> me.raised, err |-> me.err]
  BY <1>2 DEF WorkerOK
<1> QED
  BY <1>3, <1>4, <1>5, <1>6, <1>7 DEF me

(* A worker that holds and has to push what it did.                        *)
LEMMA SameMoves ==
    ASSUME NEW st, NEW ms \in Seq(Seq(Seq(Rows))), NEW me, NEW x, NEW n \in Nat \ {0},
           \A f \in [Rows -> Nat] : Load(st, ms, me, f) \in Nat,
           x.held = me.held, Pending(ms, x) = Pending(ms, me),
           x.pc = "done" => n > Len(ms) \/ SinkDone(st, x.held)
    PROVE  Moves(st, ms, me, x, n, n)
<1>1. Counted(st) \subseteq [Rows -> Nat] /\ Inds \subseteq [Rows -> Nat]
  BY Indicators
<1>2. \A f : Load(st, ms, x, f) = Load(st, ms, me, f)
  BY DEF Load
<1>3. ASSUME NEW f \in [Rows -> Nat]
      PROVE  Load(st, ms, x, f) + Taken(st, ms, n, f) <= Load(st, ms, me, f) + Taken(st, ms, n, f)
  <2>1. Taken(st, ms, n, f) \in Nat
    BY TakenSteps
  <2> QED
    BY <1>2, <2>1
<1> QED
  BY <1>1, <1>2, <1>3 DEF Moves

(* A worker that returns an error.                                         *)
LEMMA FailsFine ==
    ASSUME BudgetInv, RowsInv, Running, NEW w \in DOMAIN workers, NEW e, e # NoError
    PROVE  WorkerFine(Stage, FailsWith(w, e)) /\ FailsWith(w, e).pc = "fail"
<1> DEFINE me == workers[w]
           x == [pc |-> "fail", morsel |-> me.morsel, todo |-> me.todo, held |-> me.held,
                 res |-> me.res, reading |-> 0, raised |-> me.raised, err |-> e]
<1>1. /\ me = [pc |-> me.pc, morsel |-> me.morsel, todo |-> me.todo, held |-> me.held,
               res |-> me.res, reading |-> me.reading, raised |-> me.raised, err |-> me.err]
      /\ WorkerFine(Stage, me)
  BY MeHere
<1>2. FailsWith(w, e) = [me EXCEPT !.pc = "fail", !.err = e, !.reading = 0]
  BY DEF FailsWith
<1>3. WorkerFine(Stage, x)
  BY <1>1 DEF WorkerFine
<1> HIDE DEF me
<1>4. FailsWith(w, e) = x
  BY <1>1, <1>2
<1> QED
  BY <1>3, <1>4

(* A worker claims the next morsel, or finds no reason to.                 *)
LEMMA ClaimRows ==
    ASSUME BudgetInv, BudgetInv', RowsInv, NEW w, Claim(w)
    PROVE  RowsInv'
<1> DEFINE me == workers[w]
<1>1. /\ Running /\ w \in DOMAIN workers /\ me.pc = "claim"
      /\ UNCHANGED <<query, main>> /\ stop' = stop /\ error' = error
  BY DEF Claim, At
<1>2. /\ Morsels \in Seq(Seq(Seq(Rows))) /\ Len(Morsels) \in Nat /\ next \in Nat \ {0}
      /\ StopInv
  BY <1>1, WorkersHere
<1>3. /\ me = [pc |-> me.pc, morsel |-> me.morsel, todo |-> me.todo, held |-> me.held,
               res |-> me.res, reading |-> me.reading, raised |-> me.raised, err |-> me.err]
      /\ WorkerFine(Stage, me)
      /\ \A f \in [Rows -> Nat] : Load(Stage, Morsels, me, f) \in Nat
  BY <1>1, MeHere
<1>4. CASE stop /\ workers' = [workers EXCEPT ![w].pc = "done"] /\ next' = next
  <2> DEFINE x == [me EXCEPT !.pc = "done"]
  <2>1. x.pc = "done" /\ WorkerFine(Stage, x)
    BY <1>3 DEF WorkerFine
  <2>2. workers' = [workers EXCEPT ![w] = x]
    BY <1>4
  <2> HIDE DEF x
  <2>3. Steps(w, x)
    BY <1>1, <2>1, <2>2 DEF Steps
  <2>4. Broken
    BY <1>2, <1>4 DEF StopInv
  <2>5. next' \in Nat /\ next' >= next
    BY <1>2, <1>4
  <2> QED
    BY <1>1, <2>1, <2>3, <2>4, <2>5, MoveRows
<1>5. CASE next' = next + 1 /\ next > Len(Morsels) /\ workers' = [workers EXCEPT ![w].pc = "done"]
  <2> DEFINE x == [me EXCEPT !.pc = "done"]
  <2>1. x.pc = "done" /\ x.held = me.held /\ WorkerFine(Stage, x)
    BY <1>3 DEF WorkerFine
  <2>2. workers' = [workers EXCEPT ![w] = x]
    BY <1>5
  <2> HIDE DEF x
  <2>3. Steps(w, x)
    BY <1>1, <2>1, <2>2 DEF Steps
  <2>4. Moves(Stage, Morsels, me, x, next, next)
    <3>1. Pending(Morsels, x) = Pending(Morsels, me)
      BY <1>1, <2>1 DEF Pending
    <3> QED
      BY <1>2, <1>3, <1>5, <2>1, <3>1, SameMoves
  <2>5. Moves(Stage, Morsels, me, x, next, next + 1)
    <3>1. \A f \in [Rows -> Nat] :
             Taken(Stage, Morsels, next + 1, f) = Taken(Stage, Morsels, next, f)
      BY <1>2, <1>5, TakenSteps
    <3>2. Counted(Stage) \subseteq [Rows -> Nat] /\ Inds \subseteq [Rows -> Nat]
      BY Indicators
    <3>3. next + 1 > Len(Morsels)
      BY <1>2, <1>5
    <3> QED
      BY <2>4, <3>1, <3>2, <3>3 DEF Moves
  <2>6. next' \in Nat /\ next' >= next
    BY <1>2, <1>5
  <2> QED
    BY <1>1, <1>5, <2>1, <2>3, <2>5, <2>6, MoveRows
<1>6. CASE next' = next + 1 /\ workers' = [workers EXCEPT ![w] = FailsWith(w, "cancelled")]
  <2>1. "cancelled" # NoError
    BY DEF NoError
  <2> DEFINE x == FailsWith(w, "cancelled")
  <2>2. WorkerFine(Stage, x) /\ x.pc = "fail"
    BY <1>1, <2>1, FailsFine
  <2>3. workers' = [workers EXCEPT ![w] = x]
    BY <1>6
  <2> HIDE DEF x
  <2>4. Steps(w, x)
    BY <1>1, <2>2, <2>3 DEF Steps
  <2>5. next' \in Nat /\ next' >= next
    BY <1>2, <1>6
  <2> QED
    BY <1>1, <2>2, <2>4, <2>5, MoveRows
<1>7. CASE /\ next' = next + 1 /\ ~(next > Len(Morsels))
           /\ workers' = [workers EXCEPT ![w] = [@ EXCEPT !.pc = "read", !.morsel = next]]
  <2> DEFINE x == [me EXCEPT !.pc = "read", !.morsel = next]
  <2>1. x.pc = "read" /\ x.morsel = next /\ x.held = me.held /\ WorkerFine(Stage, x)
    BY <1>3 DEF WorkerFine
  <2>2. workers' = [workers EXCEPT ![w] = x]
    BY <1>1, <1>7
  <2> HIDE DEF x
  <2>3. Steps(w, x)
    BY <1>1, <2>1, <2>2 DEF Steps
  <2>4. next \in 1 .. Len(Morsels) /\ next' \in Nat /\ next' >= next
    BY <1>2, <1>7
  <2>5. Pending(Morsels, x) = Morsels[next] /\ Pending(Morsels, me) = <<>>
    BY <1>1, <2>1 DEF Pending
  <2>6. ASSUME NEW f \in [Rows -> Nat]
        PROVE  /\ Load(Stage, Morsels, x, f) + Taken(Stage, Morsels, next, f)
                    = Load(Stage, Morsels, me, f) + Taken(Stage, Morsels, next + 1, f)
               /\ Load(Stage, Morsels, x, f) + Taken(Stage, Morsels, next, f)
                    <= Load(Stage, Morsels, me, f) + Taken(Stage, Morsels, next + 1, f)
    <3> DEFINE g == Pass(Stage, f)
    <3>1. g \in [Rows -> Nat]
      BY PassTyped
    <3>2. Weight(Concat(<<>>), g) = 0
      <4>1. Stage \in StageType
        BY <1>1, WorkersHere
      <4> QED
        BY <3>1, <4>1, EmptySink
    <3>3. /\ Taken(Stage, Morsels, next, f) \in Nat
          /\ Weight(Concat(Morsels[next]), g) \in Nat
          /\ Taken(Stage, Morsels, next + 1, f)
              = Taken(Stage, Morsels, next, f) + Weight(Concat(Morsels[next]), g)
      <4>1. next <= Len(Morsels)
        BY <1>2, <1>7
      <4> QED
        BY <1>2, <4>1, TakenSteps
    <3>4. Weight(Concat(me.held), f) \in Nat
      <4>1. me.held \in Seq(Seq(Rows))
        BY <1>3 DEF WorkerFine, Shape
      <4> QED
        BY <4>1, HeldWeighs
    <3>5. /\ Load(Stage, Morsels, x, f)
               = Weight(Concat(me.held), f) + Weight(Concat(Morsels[next]), g)
          /\ Load(Stage, Morsels, me, f) = Weight(Concat(me.held), f) + Weight(Concat(<<>>), g)
      BY <2>1, <2>5 DEF Load
    <3> HIDE DEF g, me
    <3> QED
      BY <3>2, <3>3, <3>4, <3>5
  <2>7. Moves(Stage, Morsels, me, x, next, next + 1)
    <3>1. Counted(Stage) \subseteq [Rows -> Nat] /\ Inds \subseteq [Rows -> Nat]
      BY Indicators
    <3> QED
      BY <2>1, <2>6, <3>1 DEF Moves
  <2> QED
    BY <1>1, <1>7, <2>1, <2>3, <2>4, <2>7, MoveRows
<1> QED
  BY <1>1, <1>4, <1>5, <1>6, <1>7 DEF Claim

(* A step that changes neither the counter nor what a worker has to push,  *)
(* or fails.                                                               *)
LEMMA QuietRows ==
    ASSUME BudgetInv, BudgetInv', RowsInv, NEW w, NEW x, Running, w \in DOMAIN workers,
           workers' = [workers EXCEPT ![w] = x], UNCHANGED <<query, main>>,
           UNCHANGED shared, WorkerFine(Stage, x),
           \/ x.pc = "fail" /\ workers[w].pc \notin {"fail", "record", "panicked"}
           \/ /\ \/ x.pc = workers[w].pc
                 \/ /\ workers[w].pc \in {"read", "reading", "push"}
                    /\ x.pc \in {"reading", "push", "claim"}
              /\ x.held = workers[w].held
              /\ Pending(Morsels, x) = Pending(Morsels, workers[w])
    PROVE  RowsInv'
<1>1. Steps(w, x) /\ stop' = stop /\ error' = error /\ next' = next
  BY DEF Steps, shared
<1>2. /\ Morsels \in Seq(Seq(Seq(Rows))) /\ next \in Nat \ {0} /\ EndInv
  BY WorkersHere
<1>3. next' \in Nat /\ next' >= next
  BY <1>1, <1>2
<1>4. CASE x.pc = "fail" /\ workers[w].pc \notin {"fail", "record", "panicked"}
  BY <1>1, <1>3, <1>4, MoveRows
<1>5. CASE /\ \/ x.pc = workers[w].pc
              \/ /\ workers[w].pc \in {"read", "reading", "push"}
                 /\ x.pc \in {"reading", "push", "claim"}
           /\ x.held = workers[w].held
           /\ Pending(Morsels, x) = Pending(Morsels, workers[w])
  <2>1. CASE Broken
    BY <1>1, <1>3, <1>5, <2>1, MoveRows
  <2>2. CASE ~Broken
    <3>1. x.pc = "done" => next > Len(Morsels) \/ SinkDone(Stage, x.held)
      BY <1>2, <1>5, <2>2 DEF EndInv, Running
    <3>2. \A f \in [Rows -> Nat] : Load(Stage, Morsels, workers[w], f) \in Nat
      BY MeHere
    <3>3. Moves(Stage, Morsels, workers[w], x, next, next')
      BY <1>1, <1>2, <1>5, <3>1, <3>2, SameMoves
    <3> QED
      BY <1>1, <1>3, <1>5, <3>3, MoveRows
  <2> QED
    BY <2>1, <2>2
<1> QED
  BY <1>4, <1>5

(* The read of a morsel, from the file or from memory.                     *)
LEMMA ReadRows ==
    ASSUME BudgetInv, BudgetInv', RowsInv, NEW w,
           Read(w) \/ ReadMemory(w) \/ ReadOver(w) \/ ReadError(w) \/ EmptyMorsel(w) \/ RaisePeak(w)
    PROVE  RowsInv'
<1> DEFINE me == workers[w]
<1>1. /\ Running /\ w \in DOMAIN workers
      /\ UNCHANGED <<query, main>> /\ UNCHANGED shared
  BY DEF Read, ReadMemory, ReadOver, ReadError, EmptyMorsel, RaisePeak, At, main
<1>2. /\ me = [pc |-> me.pc, morsel |-> me.morsel, todo |-> me.todo, held |-> me.held,
               res |-> me.res, reading |-> me.reading, raised |-> me.raised, err |-> me.err]
      /\ me.pc \in {"read", "reading"} =>
            me.morsel \in 1 .. Len(Morsels) /\ Morsels[me.morsel] \in Seq(Seq(Rows))
      /\ WorkerFine(Stage, me)
  BY <1>1, MeHere
<1>3. ASSUME NEW e, e \in {"cancelled", "budget", "source"},
             workers' = [workers EXCEPT ![w] = FailsWith(w, e)],
             me.pc \notin {"fail", "record", "panicked"}
      PROVE  RowsInv'
  <2> DEFINE x == FailsWith(w, e)
  <2>1. e # NoError
    BY <1>3 DEF NoError
  <2>2. WorkerFine(Stage, x) /\ x.pc = "fail" /\ workers' = [workers EXCEPT ![w] = x]
    BY <1>1, <1>3, <2>1, FailsFine
  <2> HIDE DEF x
  <2> QED
    BY <1>1, <1>3, <2>2, QuietRows
<1>4. CASE Read(w)
  <2>1. me.pc = "read"
    BY <1>4 DEF Read, At
  <2>2. \/ \E b, r : workers' = [workers EXCEPT ![w] =
                        [@ EXCEPT !.pc = "reading", !.reading = b, !.raised = r]]
        \/ \E e \in {"cancelled", "budget"} : workers' = [workers EXCEPT ![w] = FailsWith(w, e)]
    BY <1>4 DEF Read
  <2>3. ASSUME NEW b, NEW r,
               workers' = [workers EXCEPT ![w] =
                             [@ EXCEPT !.pc = "reading", !.reading = b, !.raised = r]]
        PROVE  RowsInv'
    <3> DEFINE x == [me EXCEPT !.pc = "reading", !.reading = b, !.raised = r]
    <3>1. /\ x.pc = "reading" /\ x.held = me.held /\ x.morsel = me.morsel
          /\ WorkerFine(Stage, x) /\ workers' = [workers EXCEPT ![w] = x]
      BY <1>1, <1>2, <2>3 DEF WorkerFine
    <3> HIDE DEF x
    <3>2. Pending(Morsels, x) = Pending(Morsels, me)
      BY <2>1, <3>1 DEF Pending
    <3> QED
      BY <1>1, <2>1, <3>1, <3>2, QuietRows
  <2> QED
    BY <1>3, <2>1, <2>2, <2>3
<1>5. CASE ReadMemory(w)
  <2>1. me.pc = "read"
    BY <1>5 DEF ReadMemory, At
  <2>2. \/ workers' = [workers EXCEPT ![w] = FailsWith(w, "cancelled")]
        \/ workers' = [workers EXCEPT ![w] =
                         [@ EXCEPT !.pc = "push", !.todo = Morsels[workers[w].morsel]]]
    BY <1>5 DEF ReadMemory
  <2>3. CASE workers' = [workers EXCEPT ![w] =
                           [@ EXCEPT !.pc = "push", !.todo = Morsels[workers[w].morsel]]]
    <3> DEFINE x == [me EXCEPT !.pc = "push", !.todo = Morsels[me.morsel]]
    <3>1. /\ x.pc = "push" /\ x.held = me.held /\ x.todo = Morsels[me.morsel]
          /\ WorkerFine(Stage, x) /\ workers' = [workers EXCEPT ![w] = x]
      BY <1>1, <1>2, <2>1, <2>3 DEF WorkerFine
    <3> HIDE DEF x
    <3>2. Pending(Morsels, x) = Pending(Morsels, me)
      BY <2>1, <3>1 DEF Pending
    <3> QED
      BY <1>1, <2>1, <3>1, <3>2, QuietRows
  <2> QED
    BY <1>3, <2>1, <2>2, <2>3
<1>6. CASE ReadOver(w)
  <2>1. me.pc = "reading"
    BY <1>6 DEF ReadOver, At
  <2> DEFINE x == [me EXCEPT !.pc = "push", !.reading = 0, !.todo = Morsels[me.morsel]]
  <2>2. workers' = [workers EXCEPT ![w] =
                      [@ EXCEPT !.pc = "push", !.reading = 0, !.todo = Morsels[workers[w].morsel]]]
    BY <1>6 DEF ReadOver
  <2>3. /\ x.pc = "push" /\ x.held = me.held /\ x.todo = Morsels[me.morsel]
        /\ WorkerFine(Stage, x) /\ workers' = [workers EXCEPT ![w] = x]
    BY <1>1, <1>2, <2>1, <2>2 DEF WorkerFine
  <2> HIDE DEF x
  <2>4. Pending(Morsels, x) = Pending(Morsels, me)
    BY <2>1, <2>3 DEF Pending
  <2> QED
    BY <1>1, <2>1, <2>3, <2>4, QuietRows
<1>7. CASE ReadError(w)
  <2>1. me.pc = "reading" /\ workers' = [workers EXCEPT ![w] = FailsWith(w, "source")]
    BY <1>7 DEF ReadError, At
  <2> QED
    BY <1>3, <2>1
<1>8. CASE EmptyMorsel(w)
  <2> DEFINE x == [me EXCEPT !.pc = "claim"]
  <2>1. me.pc = "push" /\ me.todo = <<>> /\ workers' = [workers EXCEPT ![w] = x]
    BY <1>8 DEF EmptyMorsel, At
  <2>2. x.pc = "claim" /\ x.held = me.held /\ WorkerFine(Stage, x)
    BY <1>2 DEF WorkerFine
  <2> HIDE DEF x
  <2>3. Pending(Morsels, x) = Pending(Morsels, me)
    BY <2>1, <2>2 DEF Pending
  <2> QED
    BY <1>1, <2>1, <2>2, <2>3, QuietRows
<1>9. CASE RaisePeak(w)
  <2> DEFINE x == [me EXCEPT !.raised = 0]
  <2>1. workers' = [workers EXCEPT ![w] = x]
    BY <1>9 DEF RaisePeak
  <2>2. /\ x.pc = me.pc /\ x.held = me.held /\ x.todo = me.todo /\ x.morsel = me.morsel
        /\ WorkerFine(Stage, x)
    BY <1>2 DEF WorkerFine
  <2> HIDE DEF x
  <2>3. Pending(Morsels, x) = Pending(Morsels, me)
    BY <2>2 DEF Pending
  <2>4. /\ x.pc = workers[w].pc /\ x.held = workers[w].held
        /\ Pending(Morsels, x) = Pending(Morsels, workers[w]) /\ WorkerFine(Stage, x)
    BY <2>2, <2>3
  <2>5. w \in DOMAIN workers /\ Running /\ UNCHANGED <<query, main>> /\ UNCHANGED shared
    BY <1>1
  <2>6. workers' = [workers EXCEPT ![w] = x]
    BY <2>1
  <2> HIDE DEF me
  <2> QED
    BY <2>4, <2>5, <2>6, QuietRows
<1> QED
  BY <1>4, <1>5, <1>6, <1>7, <1>8, <1>9

(* The way of an error, and a panic.                                       *)
LEMMA ErrorRows ==
    ASSUME BudgetInv, BudgetInv', RowsInv, NEW w,
           SetStop(w) \/ RecordError(w) \/ DropSink(w) \/ Panic(w)
    PROVE  RowsInv'
<1> DEFINE me == workers[w]
<1>1. /\ Running /\ w \in DOMAIN workers
      /\ UNCHANGED <<query, main>> /\ next' = next
  BY DEF SetStop, RecordError, DropSink, Panic, At, shared
<1>2. /\ me = [pc |-> me.pc, morsel |-> me.morsel, todo |-> me.todo, held |-> me.held,
               res |-> me.res, reading |-> me.reading, raised |-> me.raised, err |-> me.err]
      /\ WorkerFine(Stage, me)
  BY <1>1, MeHere
<1>3. Stage \in StageType /\ StopInv
  BY <1>1, WorkersHere
<1>4. CASE SetStop(w)
  <2> DEFINE x == [me EXCEPT !.pc = "record"]
  <2>1. me.pc = "fail" /\ workers' = [workers EXCEPT ![w] = x] /\ error' = error
    BY <1>4 DEF SetStop, At
  <2>2. x.pc = "record" /\ WorkerFine(Stage, x)
    BY <1>2, <2>1 DEF WorkerFine
  <2> HIDE DEF x
  <2>3. Steps(w, x)
    BY <1>1, <2>1, <2>2 DEF Steps
  <2> QED
    BY <1>1, <2>1, <2>2, <2>3, BreakRows
<1>5. CASE RecordError(w)
  <2> DEFINE x == [me EXCEPT !.pc = "drop"]
  <2>1. /\ me.pc = "record" /\ workers' = [workers EXCEPT ![w] = x]
        /\ error' = IF error = NoError THEN me.err ELSE error
    BY <1>5 DEF RecordError, At
  <2>2. x.pc = "drop" /\ WorkerFine(Stage, x) /\ me.err # NoError
    BY <1>2, <2>1 DEF WorkerFine
  <2> HIDE DEF x
  <2>3. Steps(w, x)
    BY <1>1, <2>1, <2>2 DEF Steps
  <2>4. error' # NoError
    BY <2>1, <2>2
  <2> QED
    BY <1>1, <2>3, <2>4, BreakRows
<1>6. CASE DropSink(w)
  <2> DEFINE x == [me EXCEPT !.pc = "failed", !.held = <<>>, !.res = 0]
  <2>1. me.pc = "drop" /\ workers' = [workers EXCEPT ![w] = x] /\ error' = error
    BY <1>6 DEF DropSink, At, shared
  <2>2. x.pc = "failed" /\ x.held = <<>> /\ x.todo = me.todo
    BY <1>2
  <2> HIDE DEF x
  <2>3. WorkerFine(Stage, x)
    <3>1. Shape(Stage, <<>>)
      BY <1>3, EmptySink
    <3> QED
      BY <1>2, <2>2, <3>1 DEF WorkerFine
  <2>4. Steps(w, x)
    BY <1>1, <2>1, <2>3 DEF Steps
  <2>5. error' # NoError
    BY <1>1, <1>3, <2>1 DEF StopInv
  <2> QED
    BY <1>1, <2>4, <2>5, BreakRows
<1>7. CASE Panic(w)
  <2> DEFINE x == [NewWorker EXCEPT !.pc = "panicked"]
  <2>1. workers' = [workers EXCEPT ![w] = x] /\ error' = error
    BY <1>7 DEF Panic, shared
  <2>2. x.pc = "panicked" /\ x.held = <<>> /\ x.todo = <<>>
    BY DEF NewWorker
  <2> HIDE DEF x
  <2>3. WorkerFine(Stage, x)
    <3>1. Shape(Stage, <<>>) /\ <<>> \in Seq(Seq(Rows))
      BY <1>3, EmptySink
    <3> QED
      BY <2>2, <3>1 DEF WorkerFine
  <2>4. Steps(w, x)
    BY <1>1, <2>1, <2>3 DEF Steps
  <2> QED
    BY <1>1, <2>1, <2>2, <2>4, BreakRows
<1> QED
  BY <1>4, <1>5, <1>6, <1>7

(* A batch goes through the filter into the sink.                          *)
LEMMA BatchTakes ==
    ASSUME NEW st \in StageType, NEW h, Shape(st, h), NEW b \in Seq(Rows), NEW g,
           g = IF Filtered(st, b) = <<>> THEN h ELSE SinkPush(st, h, Filtered(st, b))
    PROVE  /\ Shape(st, g) /\ g \in Seq(Seq(Rows))
           /\ \A f \in [Rows -> Nat] :
                 /\ Weight(Concat(h), f) \in Nat /\ Weight(Concat(g), f) \in Nat
                 /\ Weight(b, Pass(st, f)) \in Nat
           /\ \A f \in Counted(st) :
                 /\ Full(st, h, f) => Full(st, g, f)
                 /\ \/ Full(st, g, f)
                    \/ Weight(Concat(g), f) = Weight(Concat(h), f) + Weight(b, Pass(st, f))
           /\ st.sink # "aggregate" =>
                 \A f \in Inds : Weight(Concat(g), f)
                                   <= Weight(Concat(h), f) + Weight(b, Pass(st, f))
<1> DEFINE c == Filtered(st, b)
           w == Weights(c)
<1>1. c \in Seq(Rows) /\ h \in Seq(Seq(Rows))
  BY FilterWeighs DEF Shape
<1>2. Counted(st) \subseteq [Rows -> Nat] /\ Inds \subseteq [Rows -> Nat]
  BY Indicators
<1>3. \A f \in [Rows -> Nat] : w[f] = Weight(b, Pass(st, f)) /\ w[f] \in Nat
  <2> TAKE f \in [Rows -> Nat]
  <2>1. w[f] = Weight(c, f)
    BY DEF Weights
  <2>2. Weight(c, f) = Weight(b, Pass(st, f)) /\ Pass(st, f) \in [Rows -> Nat]
    BY FilterWeighs
  <2>3. Weight(b, Pass(st, f)) \in Nat
    BY <2>2, WeightSteps
  <2> QED
    BY <2>1, <2>2, <2>3
<1>4. \A f \in [Rows -> Nat] : Weight(Concat(h), f) \in Nat
  BY <1>1, HeldWeighs
<1>5. Takes(st, g, h, w)
  <2>1. CASE c = <<>>
    <3>1. g = h
      BY <2>1
    <3>2. \A f \in [Rows -> Nat] : w[f] = 0
      BY <2>1, WeightSteps DEF Weights
    <3> HIDE DEF w, c
    <3>3. \A f \in [Rows -> Nat] : Weight(Concat(h), f) = Weight(Concat(h), f) + w[f]
      BY <1>4, <3>2
    <3>4. \A f \in [Rows -> Nat] : Weight(Concat(h), f) <= Weight(Concat(h), f) + w[f]
      BY <1>3, <1>4
    <3> QED
      BY <1>2, <3>1, <3>3, <3>4 DEF Takes
  <2>2. CASE c # <<>>
    BY <1>1, <2>2, PushTakes
  <2> QED
    BY <2>1, <2>2
<1> HIDE DEF w, c
<1>6. Shape(st, g) /\ g \in Seq(Seq(Rows))
  BY <1>5 DEF Takes, Shape
<1>7. \A f \in [Rows -> Nat] : Weight(Concat(g), f) \in Nat
  BY <1>6, HeldWeighs
<1>8. ASSUME NEW f \in Counted(st)
      PROVE  /\ Full(st, h, f) => Full(st, g, f)
             /\ \/ Full(st, g, f)
                \/ Weight(Concat(g), f) = Weight(Concat(h), f) + Weight(b, Pass(st, f))
  <2>1. f \in [Rows -> Nat]
    BY <1>2
  <2>2. Full(st, g, f) \/ Weight(Concat(g), f) = Weight(Concat(h), f) + w[f]
    BY <1>5 DEF Takes
  <2>3. /\ Weight(Concat(h), f) \in Nat /\ Weight(Concat(g), f) \in Nat
        /\ w[f] = Weight(b, Pass(st, f)) /\ w[f] \in Nat
    BY <1>3, <1>4, <1>7, <2>1
  <2>4. Full(st, h, f) => Full(st, g, f)
    <3> SUFFICES ASSUME Full(st, h, f), ~Full(st, g, f) PROVE FALSE
      OBVIOUS
    <3>1. Weight(Concat(g), f) >= Weight(Concat(h), f)
      BY <2>2, <2>3
    <3> QED
      BY <2>3, <3>1, FullGrows
  <2> QED
    BY <2>2, <2>3, <2>4
<1>9. ASSUME st.sink # "aggregate", NEW f \in Inds
      PROVE  Weight(Concat(g), f) <= Weight(Concat(h), f) + Weight(b, Pass(st, f))
  <2>1. w[f] = Weight(b, Pass(st, f))
    BY <1>2, <1>3
  <2>2. Weight(Concat(g), f) <= Weight(Concat(h), f) + w[f]
    BY <1>5, <1>9 DEF Takes
  <2> QED
    BY <2>1, <2>2
<1> QED
  BY <1>3, <1>4, <1>6, <1>7, <1>8, <1>9

(* A worker pushes one batch of its morsel.                                *)
LEMMA PushRows ==
    ASSUME BudgetInv, BudgetInv', RowsInv, NEW w, Push(w)
    PROVE  RowsInv'
<1> DEFINE me == workers[w]
           batch == Filtered(Stage, Head(me.todo))
           held == IF batch = <<>> THEN me.held ELSE SinkPush(Stage, me.held, batch)
           rest == Tail(me.todo)
<1>1. /\ Running /\ w \in DOMAIN workers /\ me.pc = "push" /\ me.todo # <<>>
      /\ UNCHANGED <<query, main>> /\ UNCHANGED shared
  BY DEF Push, At
<1>2. /\ me = [pc |-> me.pc, morsel |-> me.morsel, todo |-> me.todo, held |-> me.held,
               res |-> me.res, reading |-> me.reading, raised |-> me.raised, err |-> me.err]
      /\ WorkerFine(Stage, me)
  BY <1>1, MeHere
<1>3. /\ Stage \in StageType /\ Morsels \in Seq(Seq(Seq(Rows))) /\ next \in Nat \ {0}
  BY <1>1, WorkersHere
<1>4. \/ \E b, r : workers' = [workers EXCEPT ![w] =
                      [@ EXCEPT !.held = held, !.res = b, !.todo = rest, !.raised = r,
                                !.pc = AfterPush(held, rest)]]
      \/ \E e \in {"cancelled", "budget"} : workers' = [workers EXCEPT ![w] = FailsWith(w, e)]
  BY DEF Push
<1>5. ASSUME NEW e \in {"cancelled", "budget"}, workers' = [workers EXCEPT ![w] = FailsWith(w, e)]
      PROVE  RowsInv'
  <2> DEFINE x == FailsWith(w, e)
  <2>1. e # NoError
    BY <1>5 DEF NoError
  <2>2. WorkerFine(Stage, x) /\ x.pc = "fail" /\ workers' = [workers EXCEPT ![w] = x]
    BY <1>1, <1>5, <2>1, FailsFine
  <2> HIDE DEF x
  <2> QED
    BY <1>1, <2>2, QuietRows
<1>6. ASSUME NEW b, NEW r,
             workers' = [workers EXCEPT ![w] =
                      [@ EXCEPT !.held = held, !.res = b, !.todo = rest, !.raised = r,
                                !.pc = AfterPush(held, rest)]]
      PROVE  RowsInv'
  <2> DEFINE x == [me EXCEPT !.held = held, !.res = b, !.todo = rest, !.raised = r,
                             !.pc = AfterPush(held, rest)]
             first == Head(me.todo)
  <2>1. me.todo \in Seq(Seq(Rows)) /\ Shape(Stage, me.held)
    BY <1>2 DEF WorkerFine
  <2>2. /\ first \in Seq(Rows) /\ rest \in Seq(Seq(Rows))
        /\ \A g \in [Rows -> Nat] :
              Weight(Concat(me.todo), g) = Weight(first, g) + Weight(Concat(rest), g)
    <3>0. <<>> \in Seq(Seq(Rows)) /\ me.todo # <<>>
      BY <1>1
    <3>1. ASSUME NEW g \in [Rows -> Nat]
          PROVE  /\ first \in Seq(Rows) /\ rest \in Seq(Seq(Rows))
                 /\ Weight(Concat(me.todo), g) = Weight(first, g) + Weight(Concat(rest), g)
      BY <2>1, <3>0, FirstBatchWeighs
    <3>2. All \in [Rows -> Nat]
      BY Indicators
    <3> QED
      BY <3>1, <3>2
  <2>3. /\ x.held = held /\ x.todo = rest /\ x.pc = AfterPush(held, rest)
        /\ workers' = [workers EXCEPT ![w] = x]
    BY <1>1, <1>2, <1>6
  <2> HIDE DEF x
  <2>4. /\ held = IF Filtered(Stage, first) = <<>> THEN me.held
                  ELSE SinkPush(Stage, me.held, Filtered(Stage, first))
    OBVIOUS
  <2> HIDE DEF rest, held, batch, first
  <2>5. /\ Shape(Stage, held) /\ held \in Seq(Seq(Rows))
        /\ \A f \in [Rows -> Nat] :
              /\ Weight(Concat(me.held), f) \in Nat /\ Weight(Concat(held), f) \in Nat
              /\ Weight(first, Pass(Stage, f)) \in Nat
        /\ \A f \in Counted(Stage) :
              /\ Full(Stage, me.held, f) => Full(Stage, held, f)
              /\ \/ Full(Stage, held, f)
                 \/ Weight(Concat(held), f)
                      = Weight(Concat(me.held), f) + Weight(first, Pass(Stage, f))
        /\ Stage.sink # "aggregate" =>
              \A f \in Inds : Weight(Concat(held), f)
                                <= Weight(Concat(me.held), f) + Weight(first, Pass(Stage, f))
    <3> DEFINE h == me.held
    <3>1. Shape(Stage, h) /\ held = IF Filtered(Stage, first) = <<>> THEN h
                                    ELSE SinkPush(Stage, h, Filtered(Stage, first))
      BY <2>1, <2>4
    <3> HIDE DEF h, me
    <3>2. /\ Shape(Stage, held) /\ held \in Seq(Seq(Rows))
          /\ \A f \in [Rows -> Nat] :
                /\ Weight(Concat(h), f) \in Nat /\ Weight(Concat(held), f) \in Nat
                /\ Weight(first, Pass(Stage, f)) \in Nat
          /\ \A f \in Counted(Stage) :
                /\ Full(Stage, h, f) => Full(Stage, held, f)
                /\ \/ Full(Stage, held, f)
                   \/ Weight(Concat(held), f)
                        = Weight(Concat(h), f) + Weight(first, Pass(Stage, f))
          /\ Stage.sink # "aggregate" =>
                \A f \in Inds : Weight(Concat(held), f)
                                  <= Weight(Concat(h), f) + Weight(first, Pass(Stage, f))
      BY <1>3, <2>2, <3>1, BatchTakes
    <3> QED
      BY <3>2 DEF h
  <2>6. /\ x.pc \in {"done", "claim", "push"} /\ (x.pc = "done" => SinkDone(Stage, held))
        /\ x.pc = "claim" => rest = <<>>
    BY <2>3 DEF AfterPush
  <2>7. WorkerFine(Stage, x)
    BY <2>2, <2>3, <2>5, <2>6 DEF WorkerFine
  <2>8. /\ Pending(Morsels, me) = me.todo
        /\ Pending(Morsels, x) = IF x.pc = "done" THEN <<>> ELSE rest
    BY <1>1, <2>3, <2>6 DEF Pending
  <2>9. ASSUME NEW f \in [Rows -> Nat]
        PROVE  /\ Load(Stage, Morsels, me, f)
                    = Weight(Concat(me.held), f)
                        + (Weight(first, Pass(Stage, f)) + Weight(Concat(rest), Pass(Stage, f)))
               /\ Weight(Concat(rest), Pass(Stage, f)) \in Nat
               /\ Weight(Concat(me.held), f) \in Nat /\ Weight(Concat(held), f) \in Nat
               /\ Weight(first, Pass(Stage, f)) \in Nat /\ Taken(Stage, Morsels, next, f) \in Nat
               /\ Load(Stage, Morsels, x, f)
                    = Weight(Concat(held), f)
                        + (IF x.pc = "done" THEN 0 ELSE Weight(Concat(rest), Pass(Stage, f)))
    <3>1. Pass(Stage, f) \in [Rows -> Nat]
      BY PassTyped
    <3>2. Weight(Concat(me.todo), Pass(Stage, f))
            = Weight(first, Pass(Stage, f)) + Weight(Concat(rest), Pass(Stage, f))
      BY <2>2, <3>1
    <3>3. Weight(Concat(<<>>), Pass(Stage, f)) = 0
      BY <1>3, <3>1, EmptySink
    <3>4. Weight(Concat(rest), Pass(Stage, f)) \in Nat
      BY <2>2, <3>1, HeldWeighs
    <3>5. Taken(Stage, Morsels, next, f) \in Nat
      BY <1>3, TakenSteps
    <3>6. /\ Weight(Concat(me.held), f) \in Nat /\ Weight(Concat(held), f) \in Nat
          /\ Weight(first, Pass(Stage, f)) \in Nat
      BY <2>5
    <3>7. Load(Stage, Morsels, me, f)
                    = Weight(Concat(me.held), f)
                        + (Weight(first, Pass(Stage, f)) + Weight(Concat(rest), Pass(Stage, f)))
      BY <2>8, <3>2 DEF Load
    <3>8. Load(Stage, Morsels, x, f)
                    = Weight(Concat(held), f)
                        + (IF x.pc = "done" THEN 0 ELSE Weight(Concat(rest), Pass(Stage, f)))
      <4>1. CASE x.pc = "done"
        BY <2>3, <2>8, <3>3, <4>1 DEF Load
      <4>2. CASE x.pc # "done"
        BY <2>3, <2>8, <4>2 DEF Load
      <4> QED
        BY <4>1, <4>2
    <3> QED
      BY <3>4, <3>5, <3>6, <3>7, <3>8
  <2>10. Counted(Stage) \subseteq [Rows -> Nat] /\ Inds \subseteq [Rows -> Nat]
    BY Indicators
  <2>11. ASSUME NEW f \in Counted(Stage)
         PROVE  /\ Full(Stage, me.held, f) => Full(Stage, held, f)
                /\ \/ Full(Stage, held, f)
                   \/ Load(Stage, Morsels, x, f) + Taken(Stage, Morsels, next, f)
                        = Load(Stage, Morsels, me, f) + Taken(Stage, Morsels, next, f)
    <3>1. x.pc = "done" => Full(Stage, held, f)
      BY <1>3, <2>5, <2>6, DoneFull
    <3>2. /\ Full(Stage, me.held, f) => Full(Stage, held, f)
          /\ \/ Full(Stage, held, f)
             \/ Weight(Concat(held), f)
                  = Weight(Concat(me.held), f) + Weight(first, Pass(Stage, f))
      BY <2>5
    <3>3. f \in [Rows -> Nat]
      BY <2>10
    <3> HIDE DEF me
    <3> QED
      BY <2>9, <3>1, <3>2, <3>3
  <2>12. ASSUME Stage.sink # "aggregate", NEW f \in Inds
         PROVE  Load(Stage, Morsels, x, f) + Taken(Stage, Morsels, next, f)
                   <= Load(Stage, Morsels, me, f) + Taken(Stage, Morsels, next, f)
    <3>1. Weight(Concat(held), f) <= Weight(Concat(me.held), f) + Weight(first, Pass(Stage, f))
      BY <2>5, <2>12
    <3>2. f \in [Rows -> Nat]
      BY <2>10
    <3> HIDE DEF me
    <3> QED
      BY <2>9, <3>1, <3>2
  <2>13. Moves(Stage, Morsels, me, x, next, next)
    BY <2>3, <2>6, <2>11, <2>12 DEF Moves
  <2>14. Steps(w, x) /\ stop' = stop /\ error' = error /\ next' = next /\ next' \in Nat
         /\ next' >= next
    BY <1>1, <1>3, <2>3, <2>7 DEF Steps, shared
  <2>15. me.pc \notin {"fail", "record", "panicked"} /\ x.pc \notin {"drop", "failed"}
    BY <1>1, <2>6
  <2> QED
    BY <2>13, <2>14, <2>15, MoveRows
<1> QED
  BY <1>4, <1>5, <1>6

(* The query ends without an answer.                                       *)
LEMMA ReturnRows ==
    ASSUME RowsInv, NEW r, r # None, "ok" \notin DOMAIN r, Return(r)
    PROVE  RowsInv'
<1>1. plan' = plan /\ sources' = sources /\ result' = r
  BY DEF Return, query
<1>2. StagesRight
  BY DEF RowsInv, AnswersInv
<1>3. StagesRight'
  BY <1>1, <1>2 DEF StagesRight
<1>4. AnswersInv'
  BY <1>1, <1>3 DEF RowsInv, AnswersInv
<1> QED
  BY <1>1, <1>4 DEF RowsInv

(* A partial that has been taken over leaves a worker with nothing.        *)
Spent == [NewWorker EXCEPT !.pc = "done"]

(* Such a worker is in order and weighs nothing.                           *)
LEMMA SpentWorker ==
    ASSUME NEW st \in StageType, NEW ms
    PROVE  /\ Spent.pc = "done" /\ Spent.held = <<>> /\ WorkerFine(st, Spent)
           /\ \A f \in [Rows -> Nat] : Load(st, ms, Spent, f) = 0
<1>1. Spent.pc = "done" /\ Spent.held = <<>> /\ Spent.todo = <<>>
  BY DEF Spent, NewWorker
<1>2. Shape(st, <<>>) /\ <<>> \in Seq(Seq(Rows))
  BY EmptySink
<1>3. WorkerFine(st, Spent)
  BY <1>1, <1>2 DEF WorkerFine
<1>4. ASSUME NEW f \in [Rows -> Nat] PROVE Load(st, ms, Spent, f) = 0
  <2>1. Pass(st, f) \in [Rows -> Nat] /\ Pending(ms, Spent) = <<>>
    BY <1>1, PassTyped DEF Pending
  <2>2. Weight(Concat(<<>>), f) = 0 /\ Weight(Concat(<<>>), Pass(st, f)) = 0
    BY <2>1, EmptySink
  <2> QED
    BY <1>1, <2>1, <2>2 DEF Load
<1> QED
  BY <1>1, <1>3, <1>4

(* A worker that is done has nothing to push.                              *)
LEMMA DoneLoad ==
    ASSUME NEW st \in StageType, NEW ms, NEW x, x.pc = "done", x.held \in Seq(Seq(Rows)),
           NEW f \in [Rows -> Nat]
    PROVE  /\ Load(st, ms, x, f) = Weight(Concat(x.held), f)
           /\ Load(st, ms, x, f) \in Nat
<1>1. Pass(st, f) \in [Rows -> Nat] /\ Pending(ms, x) = <<>>
  BY PassTyped DEF Pending
<1>2. Weight(Concat(<<>>), Pass(st, f)) = 0
  BY <1>1, EmptySink
<1>3. Weight(Concat(x.held), f) \in Nat
  BY HeldWeighs
<1> QED
  BY <1>1, <1>2, <1>3 DEF Load

(* h holds what the main thread held, of weights m, and the partial o.     *)
BothIn(h, m, o) ==
    /\ \A f \in [Rows -> Nat] :
          /\ m[f] \in Nat
          /\ m[f] = IF merging = None THEN 0 ELSE Weight(Concat(merging.held), f)
    /\ \A f \in Counted(Stage) :
          /\ merging # None /\ Full(Stage, merging.held, f) => Full(Stage, h, f)
          /\ Full(Stage, o, f) => Full(Stage, h, f)
          /\ Full(Stage, h, f) \/ Weight(Concat(h), f) = m[f] + Weight(Concat(o), f)
    /\ Stage.sink # "aggregate" =>
          \A f \in Inds : Weight(Concat(h), f) <= m[f] + Weight(Concat(o), f)

(* Worker w's partial goes into the merge, and h is what the main thread   *)
(* holds then.                                                             *)
LEMMA TakeOverRows ==
    ASSUME Stage \in StageType, Morsels \in Seq(Seq(Seq(Rows))), next \in Nat \ {0},
           ~Broken, AnswersInv, SinksInv, StopInv, CountInv,
           NEW n \in Nat, NEW w \in 1 .. n, NEW h, NEW left \in Nat,
           DOMAIN workers = 1 .. n, \A v \in 1 .. n : workers[v].pc = "done",
           workers' = [workers EXCEPT ![w] = Spent],
           merging' # None, merging'.held = h, merging'.left = left,
           UNCHANGED <<query, shared, result>>, Shape(Stage, h),
           \A v \in 1 .. n : v < left /\ v # w => workers[v].held = <<>>,
           next > Len(Morsels) \/ \A f \in Counted(Stage) : Full(Stage, h, f) \/ SomeFull(f),
           NEW m, BothIn(h, m, workers[w].held)
    PROVE  RowsInv'
<1> DEFINE st == Stage
           ms == Morsels
           me == workers[w]
<1>17. /\ \A f \in [Rows -> Nat] :
             /\ m[f] \in Nat
             /\ m[f] = IF merging = None THEN 0 ELSE Weight(Concat(merging.held), f)
       /\ \A f \in Counted(Stage) :
             /\ merging # None /\ Full(Stage, merging.held, f) => Full(Stage, h, f)
             /\ Full(Stage, me.held, f) => Full(Stage, h, f)
             /\ Full(Stage, h, f) \/ Weight(Concat(h), f) = m[f] + Weight(Concat(me.held), f)
       /\ Stage.sink # "aggregate" =>
             \A f \in Inds : Weight(Concat(h), f) <= m[f] + Weight(Concat(me.held), f)
  BY DEF BothIn
<1>1. /\ plan' = plan /\ sources' = sources /\ result' = result /\ error' = error /\ stop' = stop
      /\ next' = next /\ Stage' = Stage /\ Morsels' = Morsels
  BY DEF query, shared, Stage, Morsels
<1>2. /\ DOMAIN workers' = 1 .. n /\ workers'[w] = Spent
      /\ \A v \in 1 .. n : v # w => workers'[v] = workers[v]
  OBVIOUS
<1>3. /\ Spent.pc = "done" /\ Spent.held = <<>> /\ WorkerFine(Stage, Spent)
      /\ \A f \in [Rows -> Nat] : Load(st, ms, Spent, f) = 0
  BY SpentWorker
<1>4. \A v \in 1 .. n : workers'[v].pc = "done"
  BY <1>2, <1>3
<1>5. ~Broken' /\ error = NoError /\ ~stop
  <2>1. error = NoError /\ ~stop
    BY DEF Broken, StopInv
  <2> QED
    BY <1>1, <1>2, <1>4, <2>1 DEF Broken
<1>6. AnswersInv'
  <2>1. StagesRight'
    BY <1>1 DEF AnswersInv, StagesRight
  <2> QED
    BY <1>1, <2>1 DEF AnswersInv
<1>7. \A v \in 1 .. n : WorkerFine(Stage, workers[v]) /\ WorkerFine(Stage, workers'[v])
  BY <1>2, <1>3 DEF SinksInv
<1>8. SinksInv'
  <2>1. \A v \in DOMAIN workers' : WorkerFine(Stage', workers'[v])
    BY <1>1, <1>2, <1>7
  <2>2. Shape(Stage', merging'.held)
    BY <1>1
  <2> QED
    BY <2>1, <2>2 DEF SinksInv
<1>9. StopInv'
  BY <1>1, <1>2, <1>4, <1>5 DEF StopInv
<1>16. ASSUME NEW f \in [Rows -> Nat] PROVE Taken(st, ms, next, f) \in Nat
  <2> HIDE DEF st, ms
  <2>1. ms \in Seq(Seq(Seq(Rows))) /\ next \in Nat \ {0}
    BY DEF ms
  <2> QED
    BY <2>1, TakenSteps
<1> HIDE DEF st, ms, me
<1>10. ASSUME NEW f \in [Rows -> Nat]
       PROVE  /\ Total(f)' = Weight(Concat(h), f)
                               + (Total(f) - m[f] - Weight(Concat(me.held), f))
              /\ Total(f) \in Nat /\ Weight(Concat(me.held), f) \in Nat
              /\ Weight(Concat(h), f) \in Nat
  <2>1. ASSUME NEW v \in 1 .. n
        PROVE  /\ Load(st, ms, workers[v], f) = Weight(Concat(workers[v].held), f)
               /\ Load(st, ms, workers[v], f) \in Nat
    <3>1. workers[v].pc = "done" /\ workers[v].held \in Seq(Seq(Rows))
      BY <1>7 DEF WorkerFine, Shape
    <3> QED
      BY <3>1, DoneLoad DEF st
  <2>2. Load(st, ms, Spent, f) = 0
    BY <1>3
  <2>3. SumsMove(st, ms, f, n, w, me, Spent)
    BY <1>2, <2>1, <2>2 DEF SumsMove, me
  <2> DEFINE a == SumFunction(Loads(st, ms, workers, f))
             b == SumFunction(Loads(st, ms, workers', f))
  <2>4. a \in Nat /\ b \in Nat /\ b = a - Load(st, ms, me, f) + Load(st, ms, Spent, f)
    BY <2>3, SumsMoved
  <2>5. Total(f) = m[f] + a
    BY <1>17 DEF Total, st, ms
  <2>6. Total(f)' = Weight(Concat(h), f) + b
    BY <1>1 DEF Total, st, ms
  <2>7. Weight(Concat(h), f) \in Nat
    BY HeldWeighs DEF Shape
  <2>8. Load(st, ms, me, f) = Weight(Concat(me.held), f) /\ Load(st, ms, me, f) \in Nat
    BY <2>1 DEF me
  <2>9. m[f] \in Nat
    BY <1>17
  <2> HIDE DEF a, b
  <2> DEFINE x == Load(st, ms, me, f)
             y == Weight(Concat(h), f)
             z == m[f]
             p == Total(f)
             q == Total(f)'
  <2>10. /\ a \in Nat /\ b \in Nat /\ b = a - x /\ p = z + a /\ q = y + b
         /\ x \in Nat /\ y \in Nat /\ z \in Nat
    <3>1. b = a - Load(st, ms, me, f) + 0 /\ a \in Nat /\ b \in Nat
      BY <2>2, <2>4
    <3>2. x \in Nat
      BY <2>8
    <3> HIDE DEF Load
    <3>3. b = a - x
      BY <3>1, <3>2
    <3> QED
      BY <2>5, <2>6, <2>7, <2>9, <3>1, <3>2, <3>3
  <2> HIDE DEF x, y, z, p, q
  <2>11. q = y + (p - z - x) /\ p \in Nat
    BY <2>10
  <2>12. x = Weight(Concat(me.held), f)
    BY <2>8 DEF x
  <2> QED
    BY <2>7, <2>8, <2>11, <2>12 DEF x, y, z, p, q
<1>11. Counted(st) \subseteq [Rows -> Nat] /\ Inds \subseteq [Rows -> Nat]
  BY Indicators
<1>12. ASSUME NEW f \in Counted(st), SomeFull(f) PROVE Full(st, h, f) \/ SomeFull(f)'
  <2>1. CASE merging # None /\ Full(st, merging.held, f)
    BY <1>17, <2>1 DEF st
  <2>2. ASSUME NEW v \in 1 .. n, Full(st, workers[v].held, f) PROVE Full(st, h, f) \/ SomeFull(f)'
    <3>1. CASE v = w
      BY <1>17, <2>2, <3>1 DEF st, me
    <3>2. CASE v # w
      BY <1>1, <1>2, <2>2, <3>2 DEF SomeFull, st
    <3> QED
      BY <3>1, <3>2
  <2> QED
    BY <1>12, <2>1, <2>2 DEF SomeFull, st
<1>13. \A f : Full(st, h, f) => SomeFull(f)'
  BY <1>1 DEF SomeFull, st
<1>14. CountInv'
  <2>1. ASSUME NEW f \in Counted(st) PROVE SomeFull(f)' \/ Total(f)' = Taken(st, ms, next, f)
    <3>1. f \in [Rows -> Nat]
      BY <1>11
    <3>2. SomeFull(f) \/ Total(f) = Taken(st, ms, next, f)
      BY DEF CountInv, st, ms
    <3>3. Full(st, h, f) \/ Weight(Concat(h), f) = m[f] + Weight(Concat(me.held), f)
      BY <1>17 DEF st
    <3>4. m[f] \in Nat
      BY <1>17, <3>1
    <3>5. /\ Total(f)' = Weight(Concat(h), f) + (Total(f) - m[f] - Weight(Concat(me.held), f))
          /\ Total(f) \in Nat /\ Weight(Concat(me.held), f) \in Nat
      BY <1>10, <3>1
    <3>6. Full(st, h, f) \/ Total(f)' = Total(f)
      BY <3>3, <3>4, <3>5
    <3>7. SomeFull(f) => Full(st, h, f) \/ SomeFull(f)'
      BY <1>12
    <3> QED
      BY <1>13, <3>2, <3>6, <3>7
  <2>2. ASSUME st.sink # "aggregate", NEW f \in Inds PROVE Total(f)' <= Taken(st, ms, next, f)
    <3>1. f \in [Rows -> Nat]
      BY <1>11
    <3>2. Total(f) <= Taken(st, ms, next, f)
      BY <2>2 DEF CountInv, st, ms
    <3>3. Weight(Concat(h), f) <= m[f] + Weight(Concat(me.held), f)
      BY <1>17, <2>2 DEF st
    <3>4. m[f] \in Nat
      BY <1>17, <3>1
    <3>5. /\ Total(f)' = Weight(Concat(h), f) + (Total(f) - m[f] - Weight(Concat(me.held), f))
          /\ Total(f) \in Nat /\ Weight(Concat(me.held), f) \in Nat
          /\ Weight(Concat(h), f) \in Nat
      BY <1>10, <3>1
    <3>6. Taken(st, ms, next, f) \in Nat
      BY <1>16, <3>1
    <3> HIDE DEF Total, Taken
    <3> QED
      BY <3>2, <3>3, <3>4, <3>5, <3>6
  <2> QED
    BY <1>1, <2>1, <2>2 DEF CountInv, st, ms
<1>15. EndInv'
  <2>1. ASSUME NEW v \in 1 .. n, v < left PROVE workers'[v].held = <<>>
    BY <1>2, <1>3, <2>1
  <2>2. next > Len(ms) \/ \A f \in Counted(st) : SomeFull(f)'
    BY <1>12, <1>13 DEF st, ms
  <2> QED
    BY <1>1, <1>2, <1>4, <1>5, <2>1, <2>2 DEF EndInv, st, ms
<1> QED
  BY <1>6, <1>8, <1>9, <1>14, <1>15 DEF RowsInv

(* The merge starts from the first worker's partial.                       *)
LEMMA JoinRows ==
    ASSUME BudgetInv, BudgetInv', RowsInv, Join
    PROVE  RowsInv'
<1>1. Running /\ AllOver /\ merging = None /\ result = None
  BY DEF Join, Running
<1>2. /\ AnswersInv /\ SinksInv /\ StopInv /\ CountInv /\ EndInv
      /\ Stage \in StageType /\ Morsels \in Seq(Seq(Seq(Rows)))
      /\ next \in Nat \ {0}
  BY <1>1, WorkersHere
<1>3. PICK n \in Nat \ {0} : DOMAIN workers = 1 .. n
  BY <1>1, WorkersHere
<1>4. CASE \E w \in DOMAIN workers : workers[w].pc = "panicked"
  <2>1. Return([panic |-> TRUE])
    BY <1>4 DEF Join
  <2>2. [panic |-> TRUE] # None /\ "ok" \notin DOMAIN [panic |-> TRUE]
    BY DEF None
  <2> QED
    BY <2>1, <2>2, ReturnRows
<1>5. CASE /\ ~\E w \in DOMAIN workers : workers[w].pc = "panicked"
           /\ error # NoError
  <2>1. Return([err |-> error])
    BY <1>5 DEF Join
  <2>2. [err |-> error] # None /\ "ok" \notin DOMAIN [err |-> error]
    BY DEF None
  <2> QED
    BY <2>1, <2>2, ReturnRows
<1>6. CASE /\ ~\E w \in DOMAIN workers : workers[w].pc = "panicked"
           /\ error = NoError
  <2> DEFINE h == workers[1].held
             m == [f \in [Rows -> Nat] |-> 0]
  <2>1. /\ merging' = [held |-> h, res |-> workers[1].res, left |-> 2]
        /\ workers' = [workers EXCEPT ![1] = Spent]
        /\ UNCHANGED <<query, shared, result>>
    BY <1>6 DEF Join, Spent
  <2>2. merging' # None /\ merging'.held = h /\ merging'.left = 2
    BY <2>1 DEF None
  <2>3. \A v \in 1 .. n : workers[v].pc = "done"
    BY <1>1, <1>2, <1>3, <1>6 DEF AllOver, StopInv
  <2>4. ~Broken
    BY <1>3, <1>6, <2>3 DEF Broken
  <2>5. 1 \in 1 .. n /\ 2 \in Nat
    OBVIOUS
  <2>6. Shape(Stage, h)
    BY <1>2, <1>3, <2>5 DEF SinksInv, WorkerFine
  <2>7. next > Len(Morsels) \/ SinkDone(Stage, h)
    BY <1>1, <1>2, <1>3, <2>3, <2>4, <2>5 DEF EndInv
  <2>8. next > Len(Morsels) \/ \A f \in Counted(Stage) : Full(Stage, h, f) \/ SomeFull(f)
    BY <1>2, <2>6, <2>7, DoneFull
  <2>9. \A v \in 1 .. n : v < 2 /\ v # 1 => workers[v].held = <<>>
    OBVIOUS
  <2>10. \A f \in [Rows -> Nat] : m[f] = 0
    OBVIOUS
  <2> HIDE DEF m
  <2>11. /\ \A f \in [Rows -> Nat] :
                m[f] = IF merging = None THEN 0 ELSE Weight(Concat(merging.held), f)
         /\ \A f \in [Rows -> Nat] : m[f] \in Nat
    BY <1>1, <2>10
  <2>12. \A f \in [Rows -> Nat] : Weight(Concat(h), f) = m[f] + Weight(Concat(workers[1].held), f)
    <3>1. \A f \in [Rows -> Nat] : Weight(Concat(h), f) \in Nat
      BY <2>6, HeldWeighs DEF Shape
    <3> HIDE DEF Weight
    <3> QED
      BY <2>10, <3>1
  <2>13. \A f \in [Rows -> Nat] : Weight(Concat(h), f) \in Nat
    BY <2>6, HeldWeighs DEF Shape
  <2>14. Counted(Stage) \subseteq [Rows -> Nat] /\ Inds \subseteq [Rows -> Nat]
    BY Indicators
  <2>15. \A f \in Counted(Stage) :
            /\ merging # None /\ Full(Stage, merging.held, f) => Full(Stage, h, f)
            /\ Full(Stage, workers[1].held, f) => Full(Stage, h, f)
            /\ \/ Full(Stage, h, f)
               \/ Weight(Concat(h), f) = m[f] + Weight(Concat(workers[1].held), f)
    BY <1>1, <2>12, <2>14
  <2>16. Stage.sink # "aggregate" =>
            \A f \in Inds :
               Weight(Concat(h), f) <= m[f] + Weight(Concat(workers[1].held), f)
    <3>1. ASSUME NEW f \in Inds
          PROVE  Weight(Concat(h), f) <= m[f] + Weight(Concat(workers[1].held), f)
      <4>1. f \in [Rows -> Nat]
        BY <2>14
      <4>2. Weight(Concat(h), f) \in Nat /\ m[f] = 0
        BY <2>10, <2>13, <4>1
      <4> QED
        BY <4>2
    <3> QED
      BY <3>1
  <2>17. BothIn(h, m, workers[1].held)
    BY <2>11, <2>15, <2>16 DEF BothIn
  <2> HIDE DEF h
  <2> QED
    BY <1>2, <1>3, <2>1, <2>2, <2>3, <2>4, <2>5, <2>6, <2>8, <2>9, <2>17, TakeOverRows
<1> QED
  BY <1>4, <1>5, <1>6

(* Both partials are in the merged sink.                                   *)
LEMMA MergedHolds ==
    ASSUME NEW st \in StageType, NEW h, Shape(st, h), NEW o, Shape(st, o)
    PROVE  LET g == SinkMerge(st, h, o)
           IN  /\ Shape(st, g)
               /\ \A f \in Counted(st) :
                     /\ Full(st, h, f) => Full(st, g, f)
                     /\ Full(st, o, f) => Full(st, g, f)
                     /\ \/ Full(st, g, f)
                        \/ Weight(Concat(g), f) = Weight(Concat(h), f) + Weight(Concat(o), f)
               /\ st.sink # "aggregate" =>
                     \A f \in Inds :
                        Weight(Concat(g), f) <= Weight(Concat(h), f) + Weight(Concat(o), f)
<1> DEFINE g == SinkMerge(st, h, o)
           w == Weights(Concat(o))
<1>1. h \in Seq(Seq(Rows)) /\ o \in Seq(Seq(Rows))
  BY DEF Shape
<1>2. Takes(st, g, h, w)
  BY <1>1, MergeTakes
<1>3. \A f \in [Rows -> Nat] : w[f] = Weight(Concat(o), f)
  BY DEF Weights
<1>4. Counted(st) \subseteq [Rows -> Nat] /\ Inds \subseteq [Rows -> Nat]
  BY Indicators
<1> HIDE DEF g, w
<1>5. Shape(st, g) /\ g \in Seq(Seq(Rows))
  BY <1>2 DEF Takes, Shape
<1>6. ASSUME NEW f \in Counted(st)
      PROVE  /\ Full(st, h, f) => Full(st, g, f)
             /\ Full(st, o, f) => Full(st, g, f)
             /\ \/ Full(st, g, f)
                \/ Weight(Concat(g), f) = Weight(Concat(h), f) + Weight(Concat(o), f)
  <2>1. f \in [Rows -> Nat]
    BY <1>4
  <2>2. Full(st, g, f) \/ Weight(Concat(g), f) = Weight(Concat(h), f) + Weight(Concat(o), f)
    BY <1>2, <1>3, <2>1 DEF Takes
  <2>3. /\ Weight(Concat(g), f) \in Nat /\ Weight(Concat(h), f) \in Nat
        /\ Weight(Concat(o), f) \in Nat
    BY <1>1, <1>5, <2>1, HeldWeighs
  <2>4. CASE ~Full(st, g, f)
    <3>1. Weight(Concat(g), f) >= Weight(Concat(h), f)
          /\ Weight(Concat(g), f) >= Weight(Concat(o), f)
      BY <2>2, <2>3, <2>4
    <3> QED
      BY <2>2, <2>3, <3>1, FullGrows
  <2> QED
    BY <2>2, <2>4
<1>7. ASSUME st.sink # "aggregate", NEW f \in Inds
      PROVE  Weight(Concat(g), f) <= Weight(Concat(h), f) + Weight(Concat(o), f)
  BY <1>2, <1>3, <1>4, <1>7 DEF Takes
<1> QED
  BY <1>5, <1>6, <1>7 DEF g

(* What is known while the main thread merges.                             *)
LEMMA MergingHere ==
    ASSUME BudgetInv, RowsInv, merging # None
    PROVE  /\ AnswersInv /\ SinksInv /\ StopInv /\ CountInv /\ EndInv /\ result = None
           /\ Stage \in StageType /\ Morsels \in Seq(Seq(Seq(Rows)))
           /\ next \in Nat \ {0} /\ Len(sources) \in Nat \ {0} /\ ~Broken
           /\ Shape(Stage, merging.held) /\ merging.left \in Nat
           /\ \A v \in DOMAIN workers :
                 /\ workers[v].pc = "done" /\ Shape(Stage, workers[v].held)
                 /\ v < merging.left => workers[v].held = <<>>
           /\ \E n \in Nat : DOMAIN workers = 1 .. n
<1>1. StageInv /\ PoolInv /\ MergeInv
  BY DEF BudgetInv
<1>2. Stage \in StageType
  BY <1>1, StageTyped
<1>3. result = None /\ merging.left \in Nat
  BY <1>1 DEF MergeInv
<1>4. AnswersInv /\ SinksInv /\ StopInv /\ CountInv /\ EndInv
  BY <1>3 DEF RowsInv
<1>5. next \in Nat \ {0} /\ Len(sources) \in Nat \ {0}
  <2>1. next \in Nat \ {0} /\ Len(sources) \in 1 .. Len(plan) /\ plan \in Plans
    BY <1>1 DEF StageInv
  <2>2. Len(plan) \in Nat
    BY <2>1, QueryAssumption
  <2> QED
    BY <2>1, <2>2
<1>6. Morsels \in Seq(Seq(Seq(Rows)))
  BY <1>4, <1>5 DEF AnswersInv, Morsels
<1>7. ~Broken /\ Shape(Stage, merging.held)
  BY <1>4 DEF EndInv, SinksInv
<1>8. \A v \in DOMAIN workers :
         /\ workers[v].pc = "done" /\ Shape(Stage, workers[v].held)
         /\ v < merging.left => workers[v].held = <<>>
  BY <1>4 DEF EndInv, SinksInv, WorkerFine
<1>9. \E n \in Nat : DOMAIN workers = 1 .. n
  BY <1>1 DEF PoolInv, PoolOK
<1> QED
  BY <1>2, <1>3, <1>4, <1>5, <1>6, <1>7, <1>8, <1>9

(* The next partial is merged.                                             *)
LEMMA MergeRows ==
    ASSUME BudgetInv, BudgetInv', RowsInv, Merge
    PROVE  RowsInv'
<1> DEFINE w == merging.left
           h == SinkMerge(Stage, merging.held, workers[w].held)
<1>1. merging # None /\ w \in DOMAIN workers
  BY DEF Merge
<1>2. /\ AnswersInv /\ SinksInv /\ StopInv /\ CountInv /\ EndInv /\ result = None
      /\ Stage \in StageType /\ Morsels \in Seq(Seq(Seq(Rows)))
      /\ next \in Nat \ {0} /\ ~Broken
      /\ Shape(Stage, merging.held) /\ w \in Nat
      /\ \A v \in DOMAIN workers :
            /\ workers[v].pc = "done" /\ Shape(Stage, workers[v].held)
            /\ v < w => workers[v].held = <<>>
      /\ \E n \in Nat : DOMAIN workers = 1 .. n
  BY <1>1, MergingHere
<1>3. PICK n \in Nat : DOMAIN workers = 1 .. n
  BY <1>2
<1>4. \/ \E e : Return([err |-> e])
      \/ /\ merging' = [held |-> h, res |-> Bytes(h), left |-> w + 1]
         /\ workers' = [workers EXCEPT ![w] = Spent]
         /\ UNCHANGED <<query, shared, result>>
  <2> HIDE DEF w, h
  <2>1. \/ Return([err |-> "cancelled"])
        \/ Return([err |-> "budget"])
        \/ /\ merging' = [held |-> h, res |-> Bytes(h), left |-> w + 1]
           /\ workers' = [workers EXCEPT ![w] = Spent]
           /\ UNCHANGED <<query, shared, result>>
    BY DEF Merge, Spent, w, h
  <2> QED
    BY <2>1
<1>5. ASSUME NEW e, Return([err |-> e]) PROVE RowsInv'
  <2>1. [err |-> e] # None /\ "ok" \notin DOMAIN [err |-> e]
    BY DEF None
  <2> QED
    BY <1>5, <2>1, ReturnRows
<1>6. CASE /\ merging' = [held |-> h, res |-> Bytes(h), left |-> w + 1]
           /\ workers' = [workers EXCEPT ![w] = Spent]
           /\ UNCHANGED <<query, shared, result>>
  <2> DEFINE m == [f \in [Rows -> Nat] |-> Weight(Concat(merging.held), f)]
  <2>1. merging' # None /\ merging'.held = h /\ merging'.left = w + 1
    BY <1>6 DEF None
  <2>2. /\ Shape(Stage, h)
        /\ \A f \in Counted(Stage) :
              /\ Full(Stage, merging.held, f) => Full(Stage, h, f)
              /\ Full(Stage, workers[w].held, f) => Full(Stage, h, f)
              /\ \/ Full(Stage, h, f)
                 \/ Weight(Concat(h), f)
                      = Weight(Concat(merging.held), f) + Weight(Concat(workers[w].held), f)
        /\ Stage.sink # "aggregate" =>
              \A f \in Inds :
                 Weight(Concat(h), f)
                   <= Weight(Concat(merging.held), f) + Weight(Concat(workers[w].held), f)
    BY <1>1, <1>2, MergedHolds
  <2> HIDE DEF h
  <2>3. \A f \in [Rows -> Nat] : m[f] = Weight(Concat(merging.held), f) /\ m[f] \in Nat
    BY <1>2, HeldWeighs DEF Shape
  <2> HIDE DEF m
  <2>4. Counted(Stage) \subseteq [Rows -> Nat] /\ Inds \subseteq [Rows -> Nat]
    BY Indicators
  <2>5. /\ \A f \in [Rows -> Nat] :
              m[f] = IF merging = None THEN 0 ELSE Weight(Concat(merging.held), f)
        /\ \A f \in [Rows -> Nat] : m[f] \in Nat
    BY <1>1, <2>3
  <2>6. \A f \in Counted(Stage) :
           /\ merging # None /\ Full(Stage, merging.held, f) => Full(Stage, h, f)
           /\ Full(Stage, workers[w].held, f) => Full(Stage, h, f)
           /\ \/ Full(Stage, h, f)
              \/ Weight(Concat(h), f) = m[f] + Weight(Concat(workers[w].held), f)
    BY <2>2, <2>3, <2>4
  <2>7. Stage.sink # "aggregate" =>
           \A f \in Inds : Weight(Concat(h), f) <= m[f] + Weight(Concat(workers[w].held), f)
    BY <2>2, <2>3, <2>4
  <2>8. next > Len(Morsels) \/ \A f \in Counted(Stage) : Full(Stage, h, f) \/ SomeFull(f)
    <3>1. EndInv /\ merging # None
      BY <1>1, <1>2
    <3>2. next > Len(Morsels) \/ \A f \in Counted(Stage) : SomeFull(f)
      BY <3>1 DEF EndInv
    <3> QED
      BY <3>2
  <2>9. w \in 1 .. n /\ w + 1 \in Nat
    <3>1. w \in 1 .. n
      BY <1>1, <1>3
    <3> HIDE DEF w
    <3> QED
      BY <3>1
  <2>11. \A v \in 1 .. n : workers[v].pc = "done"
    BY <1>2, <1>3
  <2>10. \A v \in 1 .. n : v < w + 1 /\ v # w => workers[v].held = <<>>
    <3>1. \A v \in 1 .. n : v < w + 1 /\ v # w => v < w
      BY <1>2
    <3> QED
      BY <1>2, <1>3, <3>1
  <2> DEFINE o == workers[w].held
  <2>12. BothIn(h, m, o)
    <3>1. /\ \A f \in Counted(Stage) :
                /\ merging # None /\ Full(Stage, merging.held, f) => Full(Stage, h, f)
                /\ Full(Stage, o, f) => Full(Stage, h, f)
                /\ Full(Stage, h, f) \/ Weight(Concat(h), f) = m[f] + Weight(Concat(o), f)
          /\ Stage.sink # "aggregate" =>
                \A f \in Inds : Weight(Concat(h), f) <= m[f] + Weight(Concat(o), f)
      BY <2>6, <2>7
    <3> HIDE DEF o
    <3> QED
      BY <2>5, <3>1 DEF BothIn
  <2>13. Shape(Stage, h)
    BY <2>2
  <2>14. /\ Stage \in StageType /\ Morsels \in Seq(Seq(Seq(Rows))) /\ next \in Nat \ {0}
         /\ ~Broken /\ AnswersInv /\ SinksInv /\ StopInv /\ CountInv
    BY <1>2
  <2> HIDE DEF w
  <2> QED
    BY <1>3, <1>6, <2>1, <2>8, <2>9, <2>10, <2>11, <2>12, <2>13, <2>14, TakeOverRows
<1> QED
  BY <1>4, <1>5, <1>6

(* When all partials are merged, the sink has enough of the stage's rows.  *)
LEMMA EnoughHere ==
    ASSUME BudgetInv, RowsInv, merging # None, merging.left \notin DOMAIN workers
    PROVE  /\ Concat(Concat(Morsels)) \in Seq(Rows)
           /\ Enough(Stage, merging.held, Weights(Matching(Stage, Concat(Concat(Morsels)))))
<1> DEFINE st == Stage
           ms == Morsels
           h == merging.held
           w == Weights(Matching(st, Concat(Concat(ms))))
<1>1. /\ CountInv /\ EndInv /\ st \in StageType /\ ms \in Seq(Seq(Seq(Rows)))
      /\ next \in Nat \ {0} /\ ~Broken /\ Shape(st, h)
      /\ \A v \in DOMAIN workers :
            /\ workers[v].pc = "done"
            /\ v < merging.left => workers[v].held = <<>>
      /\ \E n \in Nat : DOMAIN workers = 1 .. n
  BY MergingHere
<1>2. PICK n \in Nat : DOMAIN workers = 1 .. n
  BY <1>1
<1>3. \A v \in 1 .. n : workers[v].pc = "done" /\ workers[v].held = <<>>
  <2>1. merging.left \in Nat \ {0} /\ merging.left \notin 1 .. n
    BY <1>2 DEF BudgetInv, MergeInv
  <2>2. \A v \in 1 .. n : v < merging.left
    BY <2>1
  <2> QED
    BY <1>1, <1>2, <2>2
<1> HIDE DEF st, ms, h
<1>4. /\ <<>> \in Seq(Seq(Rows)) /\ Shape(st, <<>>)
      /\ \A f \in [Rows -> Nat] : Weight(Concat(<<>>), f) = 0
  BY <1>1, EmptySink
<1>5. Counted(st) \subseteq [Rows -> Nat] /\ Inds \subseteq [Rows -> Nat]
  BY Indicators
<1>6. h \in Seq(Seq(Rows)) /\ \A f \in [Rows -> Nat] : Weight(Concat(h), f) \in Nat
  <2>1. h \in Seq(Seq(Rows))
    BY <1>1 DEF Shape
  <2> QED
    BY <2>1, HeldWeighs
<1>7. ASSUME NEW f \in [Rows -> Nat] PROVE Total(f) = Weight(Concat(h), f)
  <2> DEFINE a == Loads(st, ms, workers, f)
  <2>1. ASSUME NEW v \in 1 .. n PROVE Load(st, ms, workers[v], f) = 0
    <3> DEFINE x == workers[v]
    <3>1. x.pc = "done" /\ x.held = <<>> /\ x.held \in Seq(Seq(Rows))
      BY <1>3, <1>4
    <3> HIDE DEF x
    <3>2. st \in StageType
      BY <1>1
    <3>3. Load(st, ms, x, f) = Weight(Concat(x.held), f)
      BY <3>1, <3>2, DoneLoad
    <3> QED
      BY <1>4, <3>1, <3>3 DEF x
  <2>2. DOMAIN a = 1 .. n /\ \A v \in 1 .. n : a[v] = 0
    BY <1>2, <2>1 DEF Loads
  <2> HIDE DEF a
  <2>3. SumFunction(a) = 0
    BY <2>2, SumZero
  <2>4. Total(f) = Weight(Concat(h), f) + SumFunction(a)
    BY DEF Total, a, st, ms, h
  <2>5. Weight(Concat(h), f) \in Nat
    BY <1>6
  <2> QED
    BY <2>3, <2>4, <2>5
<1>8. ASSUME NEW f \in Counted(st), SomeFull(f) PROVE Full(st, h, f)
  <2>1. ASSUME NEW v \in 1 .. n, Full(st, workers[v].held, f) PROVE Full(st, h, f)
    <3>1. Full(st, <<>>, f)
      BY <1>3, <2>1
    <3>2. Weight(Concat(<<>>), f) = 0 /\ Weight(Concat(h), f) \in Nat
      BY <1>4, <1>5, <1>6
    <3>3. Weight(Concat(<<>>), f) \in Nat /\ Weight(Concat(h), f) >= Weight(Concat(<<>>), f)
      BY <3>2
    <3> QED
      BY <1>1, <3>1, <3>2, <3>3, FullGrows
  <2> QED
    BY <1>2, <1>8, <2>1 DEF SomeFull, st, h
<1>9. Concat(Concat(ms)) \in Seq(Rows)
  <2>1. Concat(ms) \in Seq(Seq(Rows))
    BY <1>1, ConcatSeq
  <2> QED
    BY <2>1, ConcatSeq
<1>10. \A f \in [Rows -> Nat] : w[f] = Weight(Matching(st, Concat(Concat(ms))), f)
  BY DEF Weights
<1> HIDE DEF w
<1>11. ASSUME NEW f \in [Rows -> Nat]
       PROVE  /\ Taken(st, ms, next, f) \in Nat
              /\ next > Len(ms) => Taken(st, ms, next, f) = w[f]
              /\ Taken(st, ms, next, f) <= w[f]
  BY <1>1, <1>10, TakenSteps
<1>12. ASSUME NEW f \in Counted(st)
       PROVE  Full(st, h, f) \/ Weight(Concat(h), f) = w[f]
  <2>1. SomeFull(f) \/ Total(f) = Taken(st, ms, next, f)
    BY <1>1 DEF CountInv, st, ms
  <2>2. next > Len(ms) \/ SomeFull(f)
    BY <1>1 DEF EndInv, st, ms
  <2>3. f \in [Rows -> Nat]
    BY <1>5
  <2> QED
    BY <1>7, <1>8, <1>11, <2>1, <2>2, <2>3
<1>13. ASSUME st.sink # "aggregate", NEW f \in Inds PROVE Weight(Concat(h), f) <= w[f]
  <2>1. Total(f) <= Taken(st, ms, next, f)
    BY <1>1, <1>13 DEF CountInv, st, ms
  <2>2. f \in [Rows -> Nat]
    BY <1>5
  <2> DEFINE a == Weight(Concat(h), f)
             b == Taken(st, ms, next, f)
  <2>3. a \in Nat /\ b \in Nat /\ b <= w[f] /\ a <= b
    BY <1>6, <1>7, <1>11, <2>1, <2>2
  <2>4. w[f] \in Nat
    <3>1. Matching(st, Concat(Concat(ms))) \in Seq(Rows)
      BY <1>9, FilterWeighs
    <3>2. Weight(Matching(st, Concat(Concat(ms))), f) \in Nat
      BY <2>2, <3>1, WeightSteps
    <3> QED
      BY <1>10, <2>2, <3>2
  <2> HIDE DEF a, b
  <2>5. a <= w[f]
    BY <2>3, <2>4
  <2> QED
    BY <2>5 DEF a
<1>14. Enough(st, h, w)
  BY <1>1, <1>12, <1>13 DEF Enough
<1> QED
  BY <1>9, <1>14 DEF st, ms, h, w

(* A stage starts right.                                                   *)
FreshStage ==
    /\ merging = None /\ error = NoError /\ stop = FALSE /\ next = 1
    /\ Stage \in StageType /\ Morsels \in Seq(Seq(Seq(Rows)))
    /\ \A w \in DOMAIN workers : workers[w] = NewWorker
    /\ WorkerFine(Stage, NewWorker) /\ NewWorker.pc = "claim"
    /\ \A f \in [Rows -> Nat] : SumFunction(Loads(Stage, Morsels, workers, f)) = 0

(* The invariant holds at the start of a stage.                            *)
LEMMA FreshRows == AnswersInv /\ FreshStage => RowsInv
<1> SUFFICES ASSUME AnswersInv, FreshStage PROVE RowsInv
  OBVIOUS
<1>1. /\ merging = None /\ error = NoError /\ stop = FALSE /\ next = 1
      /\ Morsels \in Seq(Seq(Seq(Rows)))
      /\ \A w \in DOMAIN workers : workers[w] = NewWorker
      /\ WorkerFine(Stage, NewWorker) /\ NewWorker.pc = "claim"
      /\ \A f \in [Rows -> Nat] : SumFunction(Loads(Stage, Morsels, workers, f)) = 0
  BY DEF FreshStage
<1>2. SinksInv
  BY <1>1 DEF SinksInv
<1>3. StopInv
  BY <1>1 DEF StopInv
<1>4. EndInv
  BY <1>1 DEF EndInv
<1>5. ASSUME NEW f \in [Rows -> Nat]
      PROVE  Total(f) = 0 /\ Taken(Stage, Morsels, next, f) = 0
  <2>1. Taken(Stage, Morsels, 1, f) = 0
    <3>1. Morsels \in Seq(Seq(Seq(Rows))) /\ 1 \in Nat \ {0}
      BY <1>1
    <3> QED
      BY <3>1, TakenSteps
  <2>2. Total(f) = 0
    BY <1>1 DEF Total
  <2> QED
    BY <1>1, <2>1, <2>2
<1>6. Counted(Stage) \subseteq [Rows -> Nat] /\ Inds \subseteq [Rows -> Nat]
  BY Indicators
<1>7. CountInv
  <2>1. \A f \in Counted(Stage) : Total(f) = Taken(Stage, Morsels, next, f)
    BY <1>5, <1>6
  <2>2. ASSUME NEW f \in Inds PROVE Total(f) <= Taken(Stage, Morsels, next, f)
    <3>1. f \in [Rows -> Nat]
      BY <1>6
    <3>2. Total(f) = 0 /\ Taken(Stage, Morsels, next, f) = 0
      BY <1>5, <3>1
    <3> QED
      BY <3>2
  <2> QED
    BY <2>1, <2>2 DEF CountInv
<1> QED
  BY <1>2, <1>3, <1>4, <1>7 DEF RowsInv

(* The result is the answer, or the morsels of the next stage.             *)
LEMMA FinishRows ==
    ASSUME BudgetInv, BudgetInv', RowsInv, Finish
    PROVE  RowsInv'
<1> DEFINE out == SinkFinish(Stage, merging.held)
           morsels == [b \in DOMAIN out |-> <<out[b]>>]
           input == Concat(Concat(Morsels))
<1>1. merging # None /\ merging.left \notin DOMAIN workers
  BY DEF Finish
<1>2. /\ AnswersInv /\ result = None /\ Stage \in StageType /\ Len(sources) \in Nat \ {0}
  BY <1>1, MergingHere
<1>3. input \in Seq(Rows) /\ Enough(Stage, merging.held, Weights(Matching(Stage, input)))
  BY <1>1, EnoughHere
<1> HIDE DEF input
<1>4. out \in Seq(Seq(Rows)) /\ StageAnswer(Stage, input, Concat(out))
  BY <1>2, <1>3, FinishAnswers
<1> HIDE DEF out
<1>5. morsels \in Seq(Seq(Seq(Rows))) /\ Concat(morsels) = out
  BY <1>4, MorselsOfBatches
<1> HIDE DEF morsels
<1>6. \/ Return([err |-> "cancelled"])
      \/ Return([err |-> "budget"])
      \/ /\ merging' = None /\ plan' = plan
         /\ \/ /\ result' = [ok |-> Concat(out)]
               /\ sources' = sources
            \/ /\ Len(sources) # Len(plan)
               /\ sources' = Append(sources, morsels)
               /\ workers' = Pool(morsels)
               /\ next' = 1 /\ stop' = FALSE /\ error' = NoError
               /\ result' = result
  BY DEF Finish, out, morsels
<1>7. CASE Return([err |-> "cancelled"]) \/ Return([err |-> "budget"])
  <2>1. \A e : [err |-> e] # None /\ "ok" \notin DOMAIN [err |-> e]
    BY DEF None
  <2> QED
    BY <1>7, <2>1, ReturnRows
<1>8. sources \in Seq(Seq(Seq(Seq(Rows)))) /\ StagesRight
  BY <1>2 DEF AnswersInv
<1>9. CASE plan' = plan /\ result' = [ok |-> Concat(out)] /\ sources' = sources
  <2>1. Stage' = Stage /\ Morsels' = Morsels
    BY <1>9 DEF Stage, Morsels
  <2>2. result' # None /\ result'.ok = Concat(out)
    BY <1>9, Answers
  <2>3. StageAnswer(Stage', Concat(Concat(Morsels')), result'.ok)
    BY <1>4, <2>1, <2>2 DEF input
  <2>4. \A s \in 1 .. Len(sources) - 1 :
           StageAnswer(plan[s], Concat(Concat(sources[s])), Concat(Concat(sources[s + 1])))
    BY <1>8 DEF StagesRight
  <2>5. StagesRight'
    BY <1>9, <2>3, <2>4 DEF StagesRight
  <2> QED
    BY <1>8, <1>9, <2>2, <2>5 DEF RowsInv, AnswersInv
<1>10. CASE /\ merging' = None /\ plan' = plan
            /\ Len(sources) # Len(plan)
            /\ sources' = Append(sources, morsels)
            /\ workers' = Pool(morsels)
            /\ next' = 1 /\ stop' = FALSE /\ error' = NoError
            /\ result' = result
  <2> DEFINE N == Len(sources)
             Q == Seq(Seq(Seq(Rows)))
  <2>1. /\ sources \in Seq(Q) /\ morsels \in Q /\ N \in Nat \ {0}
    BY <1>2, <1>5, <1>8
  <2> HIDE DEF Q
  <2>2. /\ sources' \in Seq(Q) /\ Len(sources') = N + 1 /\ sources'[N + 1] = morsels
        /\ \A s \in 1 .. N : sources'[s] = sources[s]
    BY <1>10, <2>1
  <2>3. Morsels' = morsels /\ Stage' = plan[N + 1]
    BY <1>10, <2>2 DEF Morsels, Stage
  <2>4. Stage' \in StageType
    <3>1. plan \in Plans /\ N \in 1 .. Len(plan)
      BY DEF BudgetInv, StageInv
    <3>2. plan \in Seq(StageType)
      BY <3>1, QueryAssumption
    <3> HIDE DEF N
    <3>3. N + 1 \in 1 .. Len(plan)
      <4>1. N # Len(plan) /\ Len(plan) \in Nat
        BY <1>10, <3>2 DEF N
      <4> QED
        BY <3>1, <4>1
    <3> QED
      BY <2>3, <3>2, <3>3
  <2>5. StagesRight'
    <3>1. "ok" \notin DOMAIN result'
      BY <1>2, <1>10 DEF None
    <3>2. ASSUME NEW s \in 1 .. Len(sources') - 1
          PROVE  StageAnswer(plan'[s], Concat(Concat(sources'[s])),
                             Concat(Concat(sources'[s + 1])))
      <4>1. s \in 1 .. N /\ sources'[s] = sources[s]
        BY <2>1, <2>2
      <4>2. CASE s = N
        <5>1. plan'[s] = Stage /\ Concat(Concat(sources'[s])) = input
          BY <1>10, <4>1, <4>2 DEF Stage, Morsels, input
        <5>2. Concat(Concat(sources'[s + 1])) = Concat(out)
          BY <1>5, <2>2, <4>2
        <5> QED
          BY <1>4, <5>1, <5>2
      <4>3. CASE s # N
        <5>1. s \in 1 .. N - 1 /\ s + 1 \in 1 .. N
          BY <2>1, <4>1, <4>3
        <5>2. sources'[s + 1] = sources[s + 1]
          BY <2>2, <5>1
        <5>3. StageAnswer(plan[s], Concat(Concat(sources[s])), Concat(Concat(sources[s + 1])))
          BY <1>8, <5>1 DEF StagesRight
        <5> QED
          BY <1>10, <4>1, <5>2, <5>3
      <4> QED
        BY <4>2, <4>3
    <3> QED
      BY <3>1, <3>2 DEF StagesRight
  <2>6. AnswersInv'
    BY <2>2, <2>5 DEF AnswersInv, Q
  <2>7. /\ \A w \in DOMAIN workers' : workers'[w] = NewWorker
        /\ WorkerFine(Stage', NewWorker) /\ NewWorker.pc = "claim"
        /\ \A f \in [Rows -> Nat] : SumFunction(Loads(Stage', morsels, workers', f)) = 0
    BY <1>5, <1>10, <2>4, FreshPool
  <2>8. merging' = None /\ error' = NoError /\ stop' = FALSE /\ next' = 1
    BY <1>10
  <2>9. FreshStage'
    BY <1>5, <2>3, <2>4, <2>7, <2>8 DEF FreshStage
  <2>10. AnswersInv' /\ FreshStage' => RowsInv'
    BY FreshRows, PTL
  <2> QED
    BY <2>6, <2>9, <2>10
<1> QED
  BY <1>6, <1>7, <1>9, <1>10

-----------------------------------------------------------------------------
(* Every stage is right.                                                   *)

(* The scan starts with all of its morsels to read.                        *)
LEMMA RowsStarts == Init => RowsInv
<1> SUFFICES ASSUME Init PROVE RowsInv
  OBVIOUS
<1> DEFINE Q == Seq(Seq(Seq(Rows)))
<1>1. PICK t \in Tables :
         /\ sources = <<t.segments \o t.buffered>>
         /\ workers = Pool(t.segments \o t.buffered)
  BY DEF Init
<1> DEFINE ms == t.segments \o t.buffered
<1>2. ms \in Q
  <2> DEFINE T == Seq(Seq(Rows))
             a == t.segments
             b == t.buffered
  <2>1. a \in Seq(T) /\ b \in Seq(T)
    BY QueryAssumption
  <2> HIDE DEF T, a, b
  <2>2. a \o b \in Seq(T)
    BY <2>1
  <2> QED
    BY <2>2 DEF T, a, b
<1> HIDE DEF ms, Q
<1>3. sources = <<ms>> /\ workers = Pool(ms)
  BY <1>1 DEF ms
<1>4. Len(sources) = 1 /\ sources \in Seq(Q) /\ Morsels = ms
  <2>1. Len(sources) = 1 /\ sources[1] = ms /\ sources \in Seq(Q)
    BY <1>2, <1>3
  <2> QED
    BY <2>1 DEF Morsels
<1>5. next = 1 /\ stop = FALSE /\ error = NoError /\ merging = None /\ result = None
  BY DEF Init
<1>6. Stage \in StageType
  BY BudgetStarts, StageTyped DEF BudgetInv
<1>7. AnswersInv
  <2>1. "ok" \notin DOMAIN result
    BY <1>5 DEF None
  <2>2. 1 .. Len(sources) - 1 = {}
    BY <1>4
  <2>3. StagesRight
    BY <2>1, <2>2 DEF StagesRight
  <2> QED
    BY <1>4, <2>3 DEF AnswersInv, Q
<1>8. /\ \A w \in DOMAIN workers : workers[w] = NewWorker
      /\ WorkerFine(Stage, NewWorker) /\ NewWorker.pc = "claim"
      /\ \A f \in [Rows -> Nat] : SumFunction(Loads(Stage, ms, workers, f)) = 0
  <2>1. ms \in Seq(Seq(Seq(Rows)))
    BY <1>2 DEF Q
  <2> QED
    BY <1>3, <1>6, <2>1, FreshPool
<1>9. FreshStage
  BY <1>2, <1>4, <1>5, <1>6, <1>8 DEF FreshStage, Q
<1> QED
  BY <1>7, <1>9, FreshRows

(* No step of a worker, of the main thread or of the canceller breaks it.  *)
LEMMA RowsStep == BudgetInv /\ BudgetInv' /\ RowsInv /\ [Next]_vars => RowsInv'
<1> SUFFICES ASSUME BudgetInv, BudgetInv', RowsInv, [Next]_vars PROVE RowsInv'
  OBVIOUS
<1>1. ASSUME NEW w, WorkerStep(w) \/ ReadError(w) \/ Panic(w)
      PROVE  RowsInv'
  <2>1. CASE Claim(w)
    BY <2>1, ClaimRows
  <2>2. CASE Read(w) \/ ReadMemory(w) \/ ReadOver(w) \/ ReadError(w) \/ EmptyMorsel(w)
             \/ RaisePeak(w)
    BY <2>2, ReadRows
  <2>3. CASE Push(w)
    BY <2>3, PushRows
  <2>4. CASE SetStop(w) \/ RecordError(w) \/ DropSink(w) \/ Panic(w)
    BY <2>4, ErrorRows
  <2> QED
    BY <1>1, <2>1, <2>2, <2>3, <2>4 DEF WorkerStep
<1>2. CASE MainStep
  BY <1>2, JoinRows, MergeRows, FinishRows DEF MainStep
<1>3. CASE Cancel \/ UNCHANGED vars
  <2>1. /\ plan' = plan /\ sources' = sources /\ next' = next /\ stop' = stop
        /\ error' = error /\ workers' = workers /\ merging' = merging /\ result' = result
    BY <1>3 DEF Cancel, vars, query, shared, main
  <2>2. Stage' = Stage /\ Morsels' = Morsels /\ (Broken' <=> Broken)
    BY <2>1 DEF Stage, Morsels, Broken
  <2>3. \A f : Total(f)' = Total(f) /\ (SomeFull(f)' <=> SomeFull(f))
    BY <2>1, <2>2 DEF Total, SomeFull
  <2>4. AnswersInv => AnswersInv'
    BY <2>1, <2>2 DEF AnswersInv, StagesRight
  <2>5. (SinksInv => SinksInv') /\ (StopInv => StopInv')
    BY <2>1, <2>2 DEF SinksInv, StopInv
  <2>6. CountInv => CountInv'
    BY <2>1, <2>2, <2>3 DEF CountInv
  <2>7. EndInv => EndInv'
    BY <2>1, <2>2, <2>3 DEF EndInv
  <2> QED
    BY <2>1, <2>4, <2>5, <2>6, <2>7 DEF RowsInv
<1> QED
  BY <1>1, <1>2, <1>3 DEF Next

(* Every stage that finishes has the right answer over all of its input,   *)
(* and so has the query: whichever worker claims which morsel in whatever  *)
(* order, no row is lost or counted twice, and an error, a panic, the stop *)
(* flag or a cancellation never turns into a partial answer.               *)
THEOREM StagesAlways == Spec => []StagesRight
<1>1. RowsInv => StagesRight
  BY DEF RowsInv, AnswersInv
<1> QED
  BY <1>1, BudgetStarts, BudgetStep, RowsStarts, RowsStep, PTL DEF Spec

-----------------------------------------------------------------------------
(* ORDER BY with LIMIT.  Top-K returns at most one batch, so the stages     *)
(* after it are done by one worker alone, which reads one batch: the rows   *)
(* stay in the order in which top-K has put them.                           *)

(* A stage for one worker: at most one morsel, of one batch.               *)
Alone(ms) == Len(ms) <= 1 /\ \A i \in 1 .. Len(ms) : Len(ms[i]) = 1

(* What a sink that holds h does when the first of the batches is pushed.  *)
With(st, h, batches) ==
    IF batches = <<>> THEN h
    ELSE IF Filtered(st, Head(batches)) = <<>> THEN h
    ELSE SinkPush(st, h, Filtered(st, Head(batches)))
HandedOver(st, ms) == IF ms = <<>> THEN <<>> ELSE With(st, <<>>, ms[1])
AsMorsels(out) == [b \in DOMAIN out |-> <<out[b]>>]

(* What worker x still has to push when it is the only one.                *)
Rest(ms, x, n) == IF x.pc = "claim" /\ n = 1 /\ ms # <<>> THEN ms[1] ELSE Pending(ms, x)

Lost == {"fail", "record", "drop", "failed", "panicked"}

LoneOK(st, ms, x, n) ==
    /\ x.pc # "claim" => n # 1
    /\ Len(Rest(ms, x, n)) <= 1
    /\ With(st, x.held, Rest(ms, x, n)) = HandedOver(st, ms)

(* The worker, or the main thread after it, holds the one batch.           *)
LoneInv ==
    Alone(Morsels) =>
        /\ DOMAIN workers = {1}
        /\ (merging = None /\ workers[1].pc \notin Lost) =>
              error = NoError /\ LoneOK(Stage, Morsels, workers[1], next)
        /\ merging # None => merging.left = 2 /\ merging.held = HandedOver(Stage, Morsels)

(* Top-K holds one batch.                                                  *)
TopInv ==
    Stage.sink = "topk" =>
        /\ \A w \in DOMAIN workers : Len(workers[w].held) <= 1
        /\ merging # None => Len(merging.held) <= 1

(* What the stages that are over have returned.                            *)
PastInv ==
    /\ \A s \in 1 .. Len(sources) - 1 :
          /\ plan[s].sink = "topk" => Alone(sources[s + 1])
          /\ Alone(sources[s]) =>
                sources[s + 1] = AsMorsels(SinkFinish(plan[s], HandedOver(plan[s], sources[s])))
    /\ "ok" \in DOMAIN result =>
          /\ Len(sources) = Len(plan)
          /\ Alone(Morsels) => result.ok = Concat(SinkFinish(Stage, HandedOver(Stage, Morsels)))

SliceInv == PastInv /\ (result = None => TopInv /\ LoneInv)

(* Rows that are all in the set stay.                                      *)
LEMMA RowsInAll ==
    ASSUME NEW S, NEW s \in Seq(S)
    PROVE  RowsIn(s, S) = s
<1> DEFINE T == {t \in Seq(S) : RowsIn(t, S) = t}
<1>1. <<>> \in T
  <2>1. PICK k : KeptSteps(k, <<>>, S) /\ RowsIn(<<>>, S) = k[Len(<<>>)]
    BY RowsInSteps
  <2>2. RowsIn(<<>>, S) = <<>>
    BY <2>1 DEF KeptSteps
  <2> QED
    BY <2>2
<1>2. ASSUME NEW t \in Seq(S), NEW x \in S, t \in T PROVE Append(t, x) \in T
  <2>1. RowsIn(Append(t, x), S) = Append(RowsIn(t, S), x)
    BY <1>2, RowsInAppend
  <2>2. RowsIn(t, S) = t /\ Append(t, x) \in Seq(S)
    BY <1>2
  <2> QED
    BY <2>1, <2>2
<1>3. Seq(S) \subseteq T
  <2> HIDE DEF T
  <2> QED
    BY <1>1, <1>2, Rowwise
<1> QED
  BY <1>3

(* A filter that keeps every key of the batch lets it through.             *)
LEMMA FilterAll ==
    ASSUME NEW st, NEW b \in Seq(Rows), \A i \in 1 .. Len(b) : b[i].key \in st.keep
    PROVE  Filtered(st, b) = b
<1> DEFINE S == {r \in Range(b) : r.key \in st.keep}
<1>1. Len(b) \in Nat /\ DOMAIN b = 1 .. Len(b) /\ b = [i \in 1 .. Len(b) |-> b[i]]
  OBVIOUS
<1>2. \A i \in 1 .. Len(b) : b[i] \in S
  BY <1>1 DEF Range
<1> HIDE DEF S
<1>3. b \in Seq(S)
  BY <1>1, <1>2
<1>4. RowsIn(b, S) = b
  BY <1>3, RowsInAll
<1> QED
  BY <1>4 DEF Filtered, S

(* What the one worker pushes of a stage whose filter keeps every key.     *)
LEMMA AloneRows ==
    ASSUME NEW ms \in Seq(Seq(Seq(Rows))), Alone(ms)
    PROVE  LET b == Concat(Concat(ms))
           IN  /\ b \in Seq(Rows)
               /\ \A st : (\A i \in 1 .. Len(b) : b[i].key \in st.keep) =>
                     HandedOver(st, ms) = IF b = <<>> THEN <<>> ELSE SinkPush(st, <<>>, b)
<1> DEFINE b == Concat(Concat(ms))
<1>1. Len(ms) \in Nat /\ Len(ms) <= 1 /\ (ms = <<>> <=> Len(ms) = 0)
  BY DEF Alone
<1>2. CASE Len(ms) = 0
  <2>1. ms = <<>>
    BY <1>1, <1>2
  <2>2. b = <<>> /\ <<>> \in Seq(Rows)
    BY <2>1, NothingHeld
  <2>3. \A st : HandedOver(st, ms) = <<>>
    BY <2>1 DEF HandedOver
  <2> HIDE DEF b
  <2> QED
    BY <2>2, <2>3 DEF b
<1>3. CASE Len(ms) = 1
  <2> DEFINE m == ms[1]
             a == m[1]
  <2>1. m \in Seq(Seq(Rows)) /\ Len(m) = 1 /\ ms # <<>>
    <3> DEFINE Q == Seq(Seq(Rows))
    <3>1. ms \in Seq(Q) /\ \A i \in 1 .. Len(ms) : Len(ms[i]) = 1
      BY DEF Alone
    <3> HIDE DEF Q
    <3>2. ms # <<>>
      BY <1>1, <1>3
    <3>3. 1 \in 1 .. Len(ms)
      BY <1>3
    <3>4. ms[1] \in Q /\ Len(ms[1]) = 1
      BY <3>1, <3>3
    <3> QED
      BY <3>2, <3>4 DEF Q
  <2>2. ms = <<m>>
    <3> DEFINE Q == Seq(Seq(Rows))
    <3>1. ms \in Seq(Q)
      OBVIOUS
    <3> HIDE DEF Q
    <3> QED
      BY <1>3, <3>1
  <2> HIDE DEF m
  <2>3. a \in Seq(Rows) /\ m # <<>> /\ Head(m) = a
    <3> DEFINE Q == Seq(Rows)
    <3>1. m \in Seq(Q)
      BY <2>1
    <3> HIDE DEF Q
    <3>2. 1 \in 1 .. Len(m)
      BY <2>1
    <3>3. m[1] \in Q
      BY <3>1, <3>2
    <3>4. m # <<>>
      <4>1. Len(<<>>) = 0 /\ Len(m) = 1
        BY <2>1
      <4> QED
        BY <4>1
    <3>5. Head(m) = m[1]
      BY <3>1, <3>4
    <3> QED
      BY <3>3, <3>4, <3>5 DEF Q
  <2>4. m = <<a>>
    <3> DEFINE Q == Seq(Rows)
    <3>1. m \in Seq(Q)
      BY <2>1
    <3> HIDE DEF Q
    <3> QED
      BY <2>1, <3>1
  <2> HIDE DEF a
  <2>5. b = a
    <3>1. Concat(<<m>>) = m
      BY <2>1, ConcatOne
    <3>2. Concat(<<a>>) = a
      BY <2>3, ConcatOne
    <3> QED
      BY <2>2, <2>4, <3>1, <3>2
  <2> HIDE DEF b
  <2>6. ASSUME NEW st, \A i \in 1 .. Len(b) : b[i].key \in st.keep
        PROVE  HandedOver(st, ms) = IF b = <<>> THEN <<>> ELSE SinkPush(st, <<>>, b)
    <3>1. Filtered(st, a) = a
      BY <2>3, <2>5, <2>6, FilterAll
    <3>2. HandedOver(st, ms) = With(st, <<>>, m)
      BY <2>1 DEF HandedOver, m
    <3>3. With(st, <<>>, m) = IF a = <<>> THEN <<>> ELSE SinkPush(st, <<>>, a)
      BY <2>3, <3>1 DEF With
    <3> QED
      BY <2>5, <3>2, <3>3
  <2> QED
    BY <2>3, <2>5, <2>6 DEF b
<1>4. Len(ms) = 0 \/ Len(ms) = 1
  <2> DEFINE N == Len(ms)
  <2>1. N \in Nat /\ N <= 1
    BY <1>1
  <2> HIDE DEF N
  <2>2. N = 0 \/ N = 1
    BY <2>1
  <2> QED
    BY <2>2 DEF N
<1> QED
  BY <1>2, <1>3, <1>4

(* What fits in one batch is at most one.                                  *)
LEMMA OneChunk ==
    ASSUME NEW rows \in Seq(Rows), Len(rows) <= BatchRows
    PROVE  Len(Rechunk(rows)) <= 1
<1> DEFINE n == (Len(rows) + BatchRows - 1) \div BatchRows
<1>1. BatchRows \in Nat \ {0} /\ Len(rows) \in Nat
  BY SinksAssumption
<1>2. n \in 0 .. 1
  <2> DEFINE L == Len(rows)
  <2>1. L \in Nat /\ L <= BatchRows
    BY <1>1
  <2> HIDE DEF L
  <2>2. (L + BatchRows - 1) \div BatchRows \in 0 .. 1
    <3>1. /\ (L + BatchRows - 1) \div BatchRows \in Nat
          /\ \A b \in 1 .. (L + BatchRows - 1) \div BatchRows : (b - 1) * BatchRows < L
      BY <1>1, <2>1, Multiples
    <3> DEFINE q == (L + BatchRows - 1) \div BatchRows
    <3>2. q \in Nat /\ \A b \in 1 .. q : (b - 1) * BatchRows < L
      BY <3>1
    <3> HIDE DEF q
    <3>3. q >= 2 => FALSE
      <4>1. q >= 2 => 2 \in 1 .. q
        BY <3>2
      <4>2. (2 - 1) * BatchRows = BatchRows
        BY <1>1
      <4>3. q >= 2 => BatchRows < L
        BY <3>2, <4>1, <4>2
      <4> QED
        BY <1>1, <2>1, <4>3
    <3> QED
      BY <3>2, <3>3 DEF q
  <2> QED
    BY <2>2 DEF L
<1>3. DOMAIN Rechunk(rows) = 1 .. n /\ Rechunk(rows) \in Seq(Seq(Rows))
  BY RechunkConcat DEF Rechunk
<1> HIDE DEF n
<1>4. Len(Rechunk(rows)) = n
  BY <1>2, <1>3
<1> QED
  BY <1>2, <1>4

(* At most one batch is at most one morsel, of one batch.                  *)
LEMMA OneMorsel ==
    ASSUME NEW out \in Seq(Seq(Rows)), Len(out) <= 1
    PROVE  Alone(AsMorsels(out))
<1> DEFINE ms == AsMorsels(out)
<1>1. ms = [b \in DOMAIN out |-> <<out[b]>>] /\ DOMAIN out = 1 .. Len(out) /\ Len(out) \in Nat
  BY DEF AsMorsels
<1> HIDE DEF ms
<1>2. Len(ms) = Len(out) /\ \A i \in 1 .. Len(out) : ms[i] = <<out[i]>>
  <2>1. ms \in Seq(Seq(Seq(Rows)))
    BY <1>1, MorselsOfBatches
  <2>2. DOMAIN ms = 1 .. Len(out)
    BY <1>1
  <2> QED
    BY <1>1, <2>1, <2>2
<1>3. \A x : Len(<<x>>) = 1
  OBVIOUS
<1>4. \A i \in 1 .. Len(ms) : Len(ms[i]) = 1
  BY <1>2, <1>3
<1> QED
  BY <1>2, <1>4 DEF Alone, ms

(* LIMIT alone returns the slice of the one batch.                         *)
LEMMA LimitAlone ==
    ASSUME NEW l \in StageType, l.sink = "limit", l.limit \in Nat, l.limit <= BatchRows,
           NEW ms \in Seq(Seq(Seq(Rows))), Alone(ms), NEW b, b = Concat(Concat(ms)),
           \A i \in 1 .. Len(b) : b[i].key \in l.keep, Len(b) <= l.limit + l.offset
    PROVE  LET out == SinkFinish(l, HandedOver(l, ms))
           IN  /\ out \in Seq(Seq(Rows)) /\ Len(out) <= 1
               /\ Concat(out) = SubSeq(b, l.offset + 1, Len(b))
<1> DEFINE o == l.offset
           n == l.limit
           h == HandedOver(l, ms)
           rows == Concat(h)
           c == SubSeq(b, o + 1, Len(b))
<1>1. /\ b \in Seq(Rows)
      /\ h = IF b = <<>> THEN <<>> ELSE SinkPush(l, <<>>, b)
  BY AloneRows
<1>2. o \in Nat /\ n \in Nat /\ Len(b) \in Nat /\ Len(b) <= n + o /\ n <= BatchRows
  BY <1>1, StageFields
<1>3. NoLimit \notin Nat
  BY DEF NoLimit
<1>4. SinkPush(l, <<>>, b) = LimitPush(l, <<>>, b)
  BY DEF SinkPush
<1>5. Concat(<<>>) = <<>> /\ Len(<<>>) = 0
  BY NothingHeld
<1>6. FirstRows(b, IF Len(Concat(<<>>)) > Bound(l) THEN 0 ELSE Bound(l) - Len(Concat(<<>>))) = b
  <2>1. Bound(l) = o + n
    BY DEF Bound
  <2> DEFINE m == Bound(l)
  <2>2. m \in Nat /\ Len(b) <= m
    BY <1>2, <2>1
  <2> HIDE DEF m
  <2>3. (IF Len(Concat(<<>>)) > m THEN 0 ELSE m - Len(Concat(<<>>))) = m
    BY <1>5, <2>2
  <2>4. FirstRows(b, m) = b
    BY <1>1, <2>2, FirstRowsAre
  <2> QED
    BY <2>3, <2>4 DEF m
<1>7. LimitPush(l, <<>>, b) = IF n = 0 \/ b = <<>> THEN <<>> ELSE Append(<<>>, b)
  BY <1>3, <1>6 DEF LimitPush
<1>8. rows = IF n = 0 THEN <<>> ELSE b
  <2>1. CASE n = 0 \/ b = <<>>
    <3>1. h = <<>>
      BY <1>1, <1>4, <1>7, <2>1
    <3> QED
      BY <1>5, <2>1, <3>1
  <2>2. CASE ~(n = 0 \/ b = <<>>)
    <3>1. h = Append(<<>>, b) /\ Append(<<>>, b) = <<b>>
      BY <1>1, <1>4, <1>7, <2>2
    <3>2. Concat(<<b>>) = b
      BY <1>1, ConcatOne
    <3> QED
      BY <2>2, <3>1, <3>2
  <2> QED
    BY <2>1, <2>2
<1> HIDE DEF h, rows, o, n
<1>9. c \in Seq(Rows) /\ Len(c) = IF o <= Len(b) THEN Len(b) - o ELSE 0
  BY <1>1, <1>2, RestWeighs
<1>10. SubSeq(rows, o + 1, Len(rows)) = c
  <2>1. CASE n = 0
    <3> DEFINE d == SubSeq(rows, o + 1, Len(rows))
    <3>0. rows \in Seq(Rows)
      BY <1>8, <2>1
    <3>1. Len(rows) = 0
      BY <1>5, <1>8, <2>1
    <3>2. d \in Seq(Rows) /\ Len(d) = IF o <= Len(rows) THEN Len(rows) - o ELSE 0
      BY <1>2, <3>0, RestWeighs
    <3> HIDE DEF c, d
    <3>3. Len(d) = 0
      <4>1. o <= 0 => o = 0
        BY <1>2
      <4> QED
        BY <1>2, <3>1, <3>2, <4>1
    <3>4. Len(c) = 0
      <4> DEFINE N == Len(b)
      <4>1. N \in Nat /\ N <= o /\ o \in Nat
        BY <1>2, <2>1
      <4>2. Len(c) = IF o <= N THEN N - o ELSE 0
        BY <1>9
      <4> HIDE DEF N
      <4> QED
        BY <4>1, <4>2
    <3>5. c = <<>> /\ d = <<>>
      BY <1>9, <3>2, <3>3, <3>4
    <3> QED
      BY <3>5 DEF d
  <2>2. CASE n # 0
    BY <1>8, <2>2
  <2> QED
    BY <2>1, <2>2
<1> HIDE DEF c
<1>11. SinkFinish(l, h) = Rechunk(c)
  BY <1>10 DEF SinkFinish, rows, o
<1>12. Len(c) <= BatchRows
  <2> DEFINE N == Len(b)
             K == Len(c)
  <2>1. N \in Nat /\ N <= n + o /\ K = IF o <= N THEN N - o ELSE 0
    BY <1>2, <1>9
  <2>2. BatchRows \in Nat
    BY SinksAssumption
  <2> HIDE DEF N, K
  <2>3. K <= BatchRows
    BY <1>2, <2>1, <2>2
  <2> QED
    BY <2>3 DEF K
<1>13. Rechunk(c) \in Seq(Seq(Rows)) /\ Concat(Rechunk(c)) = c
  BY <1>9, RechunkConcat
<1>14. Len(Rechunk(c)) <= 1
  BY <1>9, <1>12, OneChunk
<1> QED
  BY <1>11, <1>13, <1>14 DEF h, c, o

(* The result's sink alone returns the rows as they are.                   *)
LEMMA CollectAlone ==
    ASSUME NEW st, st.sink = "collect",
           NEW ms \in Seq(Seq(Seq(Rows))), Alone(ms), NEW b, b = Concat(Concat(ms)),
           \A i \in 1 .. Len(b) : b[i].key \in st.keep
    PROVE  Concat(SinkFinish(st, HandedOver(st, ms))) = b
<1> DEFINE h == HandedOver(st, ms)
<1>1. b \in Seq(Rows) /\ h = IF b = <<>> THEN <<>> ELSE SinkPush(st, <<>>, b)
  BY AloneRows
<1>2. SinkPush(st, <<>>, b) = <<b>>
  BY DEF SinkPush
<1>3. Concat(<<>>) = <<>> /\ Concat(<<b>>) = b
  BY <1>1, ConcatOne, NothingHeld
<1>4. Concat(h) = b
  BY <1>1, <1>2, <1>3
<1> HIDE DEF h
<1>5. SinkFinish(st, h) = Rechunk(b)
  BY <1>4 DEF SinkFinish
<1>6. Concat(Rechunk(b)) = b
  BY <1>1, RechunkConcat
<1> QED
  BY <1>5, <1>6 DEF h

(* What top-K returns are matching rows, with the first of the keys.       *)
LEMMA TopRows ==
    ASSUME NEW st \in StageType, st.sink = "topk", NEW input \in Seq(Rows), NEW b \in Seq(Rows),
           StageAnswer(st, input, b)
    PROVE  LET sorted == Keys(StableSort(Matching(st, input)))
           IN  /\ sorted \in Seq(Int) /\ Keys(b) = FirstRows(sorted, st.k)
               /\ \A i \in 1 .. Len(b) : b[i].key \in st.keep
<1> DEFINE in == Matching(st, input)
           S == {r \in Range(input) : r.key \in st.keep}
           s == StableSort(in)
<1>1. SomeRows(b, in) /\ Keys(b) = FirstRows(Keys(s), st.k)
  BY DEF StageAnswer
<1>2. in \in Seq(Rows) /\ in \in Seq(Rows \cap S)
  <2>1. RowsIn(input, S) \in Seq(Rows \cap S)
    BY RowsInOnly
  <2>2. in = RowsIn(input, S)
    BY DEF Matching
  <2> HIDE DEF S, in
  <2>3. in \in Seq(Rows)
    BY FilterWeighs DEF in
  <2> QED
    BY <2>1, <2>2, <2>3
<1>3. \A r \in Rows : r.key \in Int
  BY Indicators
<1>4. Keys(s) \in Seq(Int)
  <2> HIDE DEF in
  <2>1. Keyed(in)
    BY <1>2, <1>3 DEF Keyed
  <2>2. s \in Seq(Rows)
    BY <1>2, <2>1, SortKeeps
  <2> HIDE DEF s
  <2>3. Len(s) \in Nat /\ DOMAIN s = 1 .. Len(s) /\ \A i \in 1 .. Len(s) : s[i].key \in Int
    BY <1>3, <2>2
  <2>4. Keys(s) = [i \in 1 .. Len(s) |-> s[i].key]
    BY <2>3 DEF Keys
  <2> QED
    BY <2>3, <2>4
<1>5. ASSUME NEW i \in 1 .. Len(b) PROVE b[i].key \in st.keep
  <2> DEFINE r == b[i]
  <2> HIDE DEF in, S
  <2>1. r \in Rows /\ r \in Range(b)
    <3>1. DOMAIN b = 1 .. Len(b) /\ b[i] \in Rows
      OBVIOUS
    <3> QED
      BY <3>1 DEF Range
  <2> HIDE DEF r
  <2> DEFINE A(q) == Cardinality({j \in DOMAIN q : q[j] = r})
  <2>2. /\ A(b) = Weight(b, Ind(Rows, {r})) /\ A(in) = Weight(in, Ind(Rows, {r}))
        /\ Ind(Rows, {r}) \in [Rows -> Nat]
        /\ r \in Range(b) <=> A(b) # 0
        /\ r \in Range(in) <=> A(in) # 0
    <3>1. Inds \subseteq [Rows -> Nat]
      BY Indicators
    <3> QED
      BY <1>2, <2>1, <3>1, RowCount
  <2>3. A(b) <= A(in)
    BY <1>1, <2>1 DEF SomeRows
  <2>4. A(b) \in Nat /\ A(in) \in Nat
    BY <1>2, <2>2, WeightSteps
  <2> HIDE DEF A
  <2>5. r \in Range(in)
    BY <2>1, <2>2, <2>3, <2>4
  <2>6. r \in Rows \cap S
    <3> DEFINE Q == Rows \cap S
    <3>1. in \in Seq(Q)
      BY <1>2
    <3> HIDE DEF Q
    <3>2. \A j \in DOMAIN in : in[j] \in Q
      BY <3>1
    <3>3. r \in Q
      BY <2>5, <3>2 DEF Range
    <3> QED
      BY <3>3 DEF Q
  <2> QED
    BY <2>6 DEF S, r
<1> QED
  BY <1>1, <1>4, <1>5

(* The slice of the first rows is the slice of all rows.                   *)
LEMMA SliceKeys ==
    ASSUME NEW b \in Seq(Rows), NEW sorted \in Seq(Int), NEW n \in Nat, NEW o \in Nat,
           Keys(b) = FirstRows(sorted, n + o)
    PROVE  /\ Len(b) <= n + o
           /\ Keys(SubSeq(b, o + 1, Len(b))) = SubSeq(sorted, o + 1, Min({o + n, Len(sorted)}))
<1> DEFINE K == Keys(b)
           N == Len(b)
           L == Len(sorted)
           m == Min({o + n, L})
           c == SubSeq(b, o + 1, N)
           d == SubSeq(sorted, o + 1, m)
<1>1. N \in Nat /\ L \in Nat /\ DOMAIN b = 1 .. N /\ \A i \in 1 .. N : b[i].key \in Int
  <2>1. \A r \in Rows : r.key \in Int
    BY Indicators
  <2> QED
    BY <2>1
<1>2. K = [i \in 1 .. N |-> b[i].key]
  BY <1>1 DEF Keys
<1>3. /\ K \in Seq(Int) /\ Len(K) = IF n + o <= L THEN n + o ELSE L
      /\ \A i \in 1 .. Len(K) : i \in 1 .. L /\ K[i] = sorted[i]
  BY FirstRowsAre
<1>4. Len(K) = N /\ \A i \in 1 .. N : K[i] = b[i].key
  BY <1>1, <1>2
<1> HIDE DEF K
<1>5. N = IF n + o <= L THEN n + o ELSE L
  BY <1>3, <1>4
<1>6. m = N
  <2>1. o + n \in Int /\ L \in Int
    BY <1>1
  <2> HIDE DEF L, N
  <2>2. m \in {o + n, L} /\ m <= o + n /\ m <= L
    BY <2>1, MinIs
  <2> HIDE DEF m
  <2> QED
    BY <1>1, <1>5, <2>2
<1>7. \A i \in 1 .. N : i \in 1 .. L /\ b[i].key = sorted[i]
  BY <1>3, <1>4
<1>8. /\ c \in Seq(Rows) /\ Len(c) = IF o + 1 <= N THEN N - (o + 1) + 1 ELSE 0
      /\ \A i \in 1 .. N - (o + 1) + 1 : c[i] = b[o + 1 + i - 1]
  <2>1. o + 1 \in Int /\ N \in Int /\ \A i \in (o + 1) .. N : b[i] \in Rows
    BY <1>1
  <2> QED
    BY <2>1, SubSeqProperties
<1>9. /\ d \in Seq(Int) /\ Len(d) = IF o + 1 <= m THEN m - (o + 1) + 1 ELSE 0
      /\ \A i \in 1 .. m - (o + 1) + 1 : d[i] = sorted[o + 1 + i - 1]
  <2>1. o + 1 \in Int /\ m \in Int
    BY <1>1, <1>6
  <2>2. \A i \in (o + 1) .. m : sorted[i] \in Int
    <3>1. \A i \in (o + 1) .. N : i \in 1 .. N
      BY <1>1
    <3> QED
      BY <1>6, <1>7, <3>1
  <2> HIDE DEF m
  <2> QED
    BY <2>1, <2>2, SubSeqProperties
<1> HIDE DEF c, d, m, N
<1>10. DOMAIN c = 1 .. Len(c) /\ Len(d) = Len(c) /\ d = [i \in 1 .. Len(d) |-> d[i]]
  BY <1>6, <1>8, <1>9
<1>11. ASSUME NEW i \in 1 .. Len(c) PROVE c[i].key = d[i]
  <2>1. i \in 1 .. N - (o + 1) + 1 /\ o + 1 + i - 1 \in 1 .. N
    BY <1>1, <1>8
  <2>2. c[i] = b[o + 1 + i - 1] /\ d[i] = sorted[o + 1 + i - 1]
    BY <1>6, <1>8, <1>9, <2>1
  <2> QED
    BY <1>7, <2>1, <2>2
<1>12. Keys(c) = d
  BY <1>10, <1>11 DEF Keys
<1>13. N <= n + o
  <2> HIDE DEF N, L
  <2> QED
    BY <1>1, <1>5
<1> QED
  BY <1>12, <1>13 DEF c, d, m, N, L

(* A step of worker w, to x, keeps the invariant when x does its part.     *)
LEMMA WorkerSlice ==
    ASSUME SliceInv, Running, NEW w \in DOMAIN workers, NEW x,
           workers' = [workers EXCEPT ![w] = x], UNCHANGED <<query, main>>,
           Stage.sink = "topk" => Len(x.held) <= 1,
           (Alone(Morsels) /\ x.pc \notin Lost) =>
              error' = NoError /\ LoneOK(Stage, Morsels, x, next')
    PROVE  SliceInv'
<1>1. /\ plan' = plan /\ sources' = sources /\ merging' = merging /\ result' = result
      /\ merging = None /\ result = None
  BY DEF query, main, Running
<1>2. Stage' = Stage /\ Morsels' = Morsels
  BY <1>1 DEF Stage, Morsels
<1>3. /\ DOMAIN workers' = DOMAIN workers /\ workers'[w] = x
      /\ \A v \in DOMAIN workers : v # w => workers'[v] = workers[v]
  OBVIOUS
<1>4. PastInv /\ TopInv /\ LoneInv
  BY <1>1 DEF SliceInv
<1>5. PastInv'
  BY <1>1, <1>2, <1>4 DEF PastInv
<1>6. TopInv'
  BY <1>1, <1>2, <1>3, <1>4 DEF TopInv
<1>7. LoneInv'
  <2> SUFFICES ASSUME Alone(Morsels) PROVE LoneInv'
    BY <1>2 DEF LoneInv
  <2>1. DOMAIN workers = {1} /\ w = 1
    BY <1>4 DEF LoneInv
  <2>2. DOMAIN workers' = {1} /\ workers'[1] = x
    BY <1>3, <2>1
  <2>3. x.pc \notin Lost => error' = NoError /\ LoneOK(Stage', Morsels', x, next')
    BY <1>2
  <2> QED
    BY <1>1, <2>2, <2>3 DEF LoneInv
<1> QED
  BY <1>5, <1>6, <1>7 DEF SliceInv

(* What is known of the one worker while it runs.                          *)
LEMMA LoneHere ==
    ASSUME BudgetInv, RowsInv, SliceInv, Running, NEW w \in DOMAIN workers,
           Alone(Morsels), workers[w].pc \notin Lost
    PROVE  /\ error = NoError /\ ~stop
           /\ LoneOK(Stage, Morsels, workers[w], next)
<1>1. merging = None /\ LoneInv
  BY DEF Running, SliceInv
<1>2. DOMAIN workers = {1} /\ w = 1
  BY <1>1 DEF LoneInv
<1>3. error = NoError /\ LoneOK(Stage, Morsels, workers[1], next)
  BY <1>1, <1>2 DEF LoneInv
<1>4. StopInv
  BY WorkersHere
<1>5. ~stop
  BY <1>2, <1>3, <1>4 DEF StopInv, Broken, Lost
<1> QED
  BY <1>2, <1>3, <1>5

(* A step that leaves to the worker what it holds and has to push, or one  *)
(* on the way of an error.                                                 *)
LEMMA QuietSlice ==
    ASSUME BudgetInv, RowsInv, SliceInv, Running, NEW w \in DOMAIN workers, NEW x,
           workers' = [workers EXCEPT ![w] = x], UNCHANGED <<query, main>>, next' = next,
           x.held = workers[w].held \/ x.held = <<>>,
           \/ x.pc \in Lost
           \/ /\ error' = error /\ workers[w].pc \notin Lost
              /\ workers[w].pc = "claim" => x.pc = "claim"
              /\ x.held = workers[w].held
              /\ Pending(Morsels, x) = Pending(Morsels, workers[w])
    PROVE  SliceInv'
<1> DEFINE me == workers[w]
<1>1. Stage.sink = "topk" => Len(x.held) <= 1
  <2>1. Stage.sink = "topk" => Len(me.held) <= 1
    BY DEF SliceInv, TopInv, Running
  <2>2. Len(<<>>) = 0 /\ 0 <= 1
    OBVIOUS
  <2> HIDE DEF me
  <2>3. x.held = me.held \/ x.held = <<>>
    BY DEF me
  <2> QED
    BY <2>1, <2>2, <2>3
<1>2. ASSUME Alone(Morsels), x.pc \notin Lost
      PROVE  error' = NoError /\ LoneOK(Stage, Morsels, x, next')
  <2>1. error = NoError /\ LoneOK(Stage, Morsels, me, next)
    BY <1>2, LoneHere
  <2>2. me.pc # "claim" => next # 1
    BY <2>1 DEF LoneOK
  <2>3. Rest(Morsels, x, next) = Rest(Morsels, me, next)
    BY <1>2, <2>2 DEF Rest
  <2>4. x.pc # "claim" => next # 1
    BY <1>2, <2>2
  <2> QED
    BY <1>2, <2>1, <2>3, <2>4 DEF LoneOK
<1> QED
  BY <1>1, <1>2, WorkerSlice

(* A worker that returns an error is lost, with what it holds.             *)
LEMMA FailsSlice ==
    ASSUME BudgetInv, RowsInv, SliceInv, Running, NEW w \in DOMAIN workers, NEW e,
           workers' = [workers EXCEPT ![w] = FailsWith(w, e)], UNCHANGED <<query, main>>
    PROVE  SliceInv'
<1> DEFINE me == workers[w]
           x == FailsWith(w, e)
<1>1. me = [pc |-> me.pc, morsel |-> me.morsel, todo |-> me.todo, held |-> me.held,
            res |-> me.res, reading |-> me.reading, raised |-> me.raised, err |-> me.err]
  BY MeHere
<1>2. x = [me EXCEPT !.pc = "fail", !.err = e, !.reading = 0]
  BY DEF FailsWith
<1>3. x.pc = "fail" /\ x.held = me.held
  BY <1>1, <1>2
<1>4. Stage.sink = "topk" => Len(me.held) <= 1
  BY DEF SliceInv, TopInv, Running
<1>5. workers' = [workers EXCEPT ![w] = x]
  OBVIOUS
<1> HIDE DEF x, me
<1>6. x.pc \in Lost
  BY <1>3 DEF Lost
<1>7. Stage.sink = "topk" => Len(x.held) <= 1
  BY <1>3, <1>4
<1> QED
  BY <1>5, <1>6, <1>7, WorkerSlice

(* The reads, and the way of an error.                                     *)
LEMMA QuietSteps ==
    ASSUME BudgetInv, RowsInv, SliceInv, NEW w,
           \/ Read(w) \/ ReadMemory(w) \/ ReadOver(w) \/ ReadError(w) \/ EmptyMorsel(w)
           \/ RaisePeak(w) \/ SetStop(w) \/ RecordError(w) \/ DropSink(w) \/ Panic(w)
    PROVE  SliceInv'
<1> DEFINE me == workers[w]
<1>1. /\ Running /\ w \in DOMAIN workers /\ UNCHANGED <<query, main>> /\ next' = next
  BY DEF Read, ReadMemory, ReadOver, ReadError, EmptyMorsel, RaisePeak,
         SetStop, RecordError, DropSink, Panic, At, shared, main
<1>2. me = [pc |-> me.pc, morsel |-> me.morsel, todo |-> me.todo, held |-> me.held,
            res |-> me.res, reading |-> me.reading, raised |-> me.raised, err |-> me.err]
  BY <1>1, MeHere
<1>3. ASSUME NEW e, workers' = [workers EXCEPT ![w] = FailsWith(w, e)] PROVE SliceInv'
  BY <1>1, <1>3, FailsSlice
<1>4. CASE Read(w)
  <2>1. me.pc = "read" /\ error' = error
    BY <1>4 DEF Read, At, shared
  <2>2. \/ \E b, r : workers' = [workers EXCEPT ![w] =
                        [@ EXCEPT !.pc = "reading", !.reading = b, !.raised = r]]
        \/ \E e : workers' = [workers EXCEPT ![w] = FailsWith(w, e)]
    BY <1>4 DEF Read
  <2>3. ASSUME NEW b, NEW r,
               workers' = [workers EXCEPT ![w] =
                             [@ EXCEPT !.pc = "reading", !.reading = b, !.raised = r]]
        PROVE  SliceInv'
    <3> DEFINE x == [me EXCEPT !.pc = "reading", !.reading = b, !.raised = r]
    <3>1. /\ x.pc = "reading" /\ x.held = me.held /\ x.morsel = me.morsel
          /\ workers' = [workers EXCEPT ![w] = x]
      BY <1>1, <1>2, <2>3
    <3> HIDE DEF x
    <3>2. Pending(Morsels, x) = Pending(Morsels, me) /\ me.pc \notin Lost
      BY <2>1, <3>1 DEF Pending, Lost
    <3> QED
      BY <1>1, <2>1, <3>1, <3>2, QuietSlice
  <2> QED
    BY <1>3, <2>2, <2>3
<1>5. CASE ReadMemory(w)
  <2>1. me.pc = "read" /\ error' = error
    BY <1>5 DEF ReadMemory, At, shared
  <2>2. \/ workers' = [workers EXCEPT ![w] = FailsWith(w, "cancelled")]
        \/ workers' = [workers EXCEPT ![w] =
                         [@ EXCEPT !.pc = "push", !.todo = Morsels[workers[w].morsel]]]
    BY <1>5 DEF ReadMemory
  <2>3. CASE workers' = [workers EXCEPT ![w] =
                           [@ EXCEPT !.pc = "push", !.todo = Morsels[workers[w].morsel]]]
    <3> DEFINE x == [me EXCEPT !.pc = "push", !.todo = Morsels[me.morsel]]
    <3>1. /\ x.pc = "push" /\ x.held = me.held /\ x.todo = Morsels[me.morsel]
          /\ workers' = [workers EXCEPT ![w] = x]
      BY <1>1, <1>2, <2>3
    <3> HIDE DEF x
    <3>2. Pending(Morsels, x) = Pending(Morsels, me) /\ me.pc \notin Lost
      BY <2>1, <3>1 DEF Pending, Lost
    <3> QED
      BY <1>1, <2>1, <3>1, <3>2, QuietSlice
  <2> QED
    BY <1>3, <2>2, <2>3
<1>6. CASE ReadOver(w)
  <2> DEFINE x == [me EXCEPT !.pc = "push", !.reading = 0, !.todo = Morsels[me.morsel]]
  <2>1. me.pc = "reading" /\ error' = error
    BY <1>6 DEF ReadOver, At, shared
  <2>2. workers' = [workers EXCEPT ![w] =
                      [@ EXCEPT !.pc = "push", !.reading = 0, !.todo = Morsels[workers[w].morsel]]]
    BY <1>6 DEF ReadOver
  <2>3. /\ x.pc = "push" /\ x.held = me.held /\ x.todo = Morsels[me.morsel]
        /\ workers' = [workers EXCEPT ![w] = x]
    BY <1>1, <1>2, <2>2
  <2> HIDE DEF x
  <2>4. Pending(Morsels, x) = Pending(Morsels, me) /\ me.pc \notin Lost
    BY <2>1, <2>3 DEF Pending, Lost
  <2> QED
    BY <1>1, <2>1, <2>3, <2>4, QuietSlice
<1>7. CASE ReadError(w)
  <2>1. workers' = [workers EXCEPT ![w] = FailsWith(w, "source")]
    BY <1>7 DEF ReadError
  <2> QED
    BY <1>3, <2>1
<1>8. CASE EmptyMorsel(w)
  <2> DEFINE x == [me EXCEPT !.pc = "claim"]
  <2>1. /\ me.pc = "push" /\ me.todo = <<>> /\ workers' = [workers EXCEPT ![w] = x]
        /\ error' = error
    BY <1>8 DEF EmptyMorsel, At, shared
  <2>2. x.pc = "claim" /\ x.held = me.held
    BY <1>2
  <2> HIDE DEF x
  <2>3. Pending(Morsels, x) = Pending(Morsels, me) /\ me.pc \notin Lost
    BY <2>1, <2>2 DEF Pending, Lost
  <2> QED
    BY <1>1, <2>1, <2>2, <2>3, QuietSlice
<1>9. CASE RaisePeak(w)
  <2> DEFINE x == [me EXCEPT !.raised = 0]
  <2>1. workers' = [workers EXCEPT ![w] = x] /\ error' = error
    BY <1>9 DEF RaisePeak, shared
  <2>2. /\ x.pc = me.pc /\ x.held = me.held /\ x.todo = me.todo /\ x.morsel = me.morsel
    BY <1>2
  <2> HIDE DEF x
  <2>3. Pending(Morsels, x) = Pending(Morsels, me)
    BY <2>2 DEF Pending
  <2>4. x.pc = workers[w].pc /\ x.held = workers[w].held
        /\ Pending(Morsels, x) = Pending(Morsels, workers[w])
    BY <2>2, <2>3
  <2> HIDE DEF me
  <2> QED
    BY <1>1, <2>1, <2>4, QuietSlice
<1>10. CASE SetStop(w) \/ RecordError(w) \/ DropSink(w) \/ Panic(w)
  <2>1. ASSUME NEW x, workers' = [workers EXCEPT ![w] = x], x.pc \in Lost,
               x.held = me.held \/ x.held = <<>>
        PROVE  SliceInv'
    BY <1>1, <2>1, QuietSlice
  <2>2. CASE SetStop(w)
    <3> DEFINE x == [me EXCEPT !.pc = "record"]
    <3>1. workers' = [workers EXCEPT ![w] = x]
      BY <2>2 DEF SetStop
    <3>2. x.pc \in Lost /\ x.held = me.held
      BY <1>2 DEF Lost
    <3> HIDE DEF x
    <3> QED
      BY <2>1, <3>1, <3>2
  <2>3. CASE RecordError(w)
    <3> DEFINE x == [me EXCEPT !.pc = "drop"]
    <3>1. workers' = [workers EXCEPT ![w] = x]
      BY <2>3 DEF RecordError
    <3>2. x.pc \in Lost /\ x.held = me.held
      BY <1>2 DEF Lost
    <3> HIDE DEF x
    <3> QED
      BY <2>1, <3>1, <3>2
  <2>4. CASE DropSink(w)
    <3> DEFINE x == [me EXCEPT !.pc = "failed", !.held = <<>>, !.res = 0]
    <3>1. workers' = [workers EXCEPT ![w] = x]
      BY <2>4 DEF DropSink
    <3>2. x.pc \in Lost /\ x.held = <<>>
      BY <1>2 DEF Lost
    <3> HIDE DEF x
    <3> QED
      BY <2>1, <3>1, <3>2
  <2>5. CASE Panic(w)
    <3> DEFINE x == [NewWorker EXCEPT !.pc = "panicked"]
    <3>1. workers' = [workers EXCEPT ![w] = x]
      BY <2>5 DEF Panic
    <3>2. x.pc \in Lost /\ x.held = <<>>
      BY DEF Lost, NewWorker
    <3> HIDE DEF x
    <3> QED
      BY <2>1, <3>1, <3>2
  <2> QED
    BY <1>10, <2>2, <2>3, <2>4, <2>5
<1> QED
  BY <1>4, <1>5, <1>6, <1>7, <1>8, <1>9, <1>10

(* Top-K keeps one batch, whatever is pushed or merged.                    *)
LEMMA TopHolds ==
    ASSUME NEW st, st.sink = "topk", NEW h, Len(h) <= 1
    PROVE  /\ \A b : Len(SinkPush(st, h, b)) <= 1
           /\ \A o \in Seq(Seq(Rows)) : Len(SinkMerge(st, h, o)) <= 1
<1>1. ASSUME NEW g, Len(g) <= 1, NEW b PROVE Len(SinkPush(st, g, b)) <= 1
  <2>1. SinkPush(st, g, b) = TopKPush(st, g, b)
    BY DEF SinkPush
  <2>2. \A y : Len(<<y>>) <= 1
    OBVIOUS
  <2> QED
    BY <1>1, <2>1, <2>2 DEF TopKPush
<1>2. ASSUME NEW o \in Seq(Seq(Rows)) PROVE Len(SinkMerge(st, h, o)) <= 1
  <2> DEFINE n == Len(o)
  <2>1. n \in Nat /\ DOMAIN o = 1 .. n
    OBVIOUS
  <2>2. PICK a : Merged(a, st, h, o) /\ SinkMerge(st, h, o) = a[n]
    BY <2>1, MergeSteps
  <2> DEFINE U == {i \in Nat : i <= n => Len(a[i]) <= 1}
  <2>3. 0 \in U
    BY <2>2 DEF Merged
  <2>4. ASSUME NEW i \in Nat, i \in U PROVE i + 1 \in U
    <3> SUFFICES ASSUME i + 1 <= n PROVE Len(a[i + 1]) <= 1
      OBVIOUS
    <3>1. i + 1 \in 1 .. n /\ (i + 1) - 1 = i /\ i <= n
      BY <2>1
    <3>2. a[i + 1] = SinkPush(st, a[i], o[i + 1])
      BY <2>2, <3>1 DEF Merged
    <3>3. Len(a[i]) <= 1
      BY <2>4, <3>1
    <3> QED
      BY <1>1, <3>2, <3>3
  <2>5. Nat \subseteq U
    <3> HIDE DEF U
    <3> QED
      BY <2>3, <2>4, CountUp
  <2> QED
    BY <2>1, <2>2, <2>5
<1> QED
  BY <1>1, <1>2

(* The one worker claims the one morsel, or finds that it is over.         *)
LEMMA ClaimSlice ==
    ASSUME BudgetInv, RowsInv, SliceInv, NEW w, Claim(w)
    PROVE  SliceInv'
<1> DEFINE me == workers[w]
           ms == Morsels
<1>1. /\ Running /\ w \in DOMAIN workers /\ me.pc = "claim"
      /\ UNCHANGED <<query, main>> /\ stop' = stop /\ error' = error
  BY DEF Claim, At
<1>2. me = [pc |-> me.pc, morsel |-> me.morsel, todo |-> me.todo, held |-> me.held,
            res |-> me.res, reading |-> me.reading, raised |-> me.raised, err |-> me.err]
  BY <1>1, MeHere
<1>3. Stage.sink = "topk" => Len(me.held) <= 1
  BY <1>1 DEF SliceInv, TopInv, Running
<1>4. ms \in Seq(Seq(Seq(Rows))) /\ Len(ms) \in Nat /\ next \in Nat \ {0}
  BY <1>1, WorkersHere
<1>5. Alone(ms) => /\ ~stop /\ error = NoError /\ LoneOK(Stage, ms, me, next) /\ Len(ms) <= 1
  <2>1. me.pc \notin Lost
    BY <1>1 DEF Lost
  <2> QED
    BY <1>1, <2>1, LoneHere DEF Alone
<1>6. ASSUME NEW x, workers' = [workers EXCEPT ![w] = x], x.held = me.held,
             Alone(ms) => LoneOK(Stage, ms, x, next')
      PROVE  SliceInv'
  <2> HIDE DEF me
  <2>1. Stage.sink = "topk" => Len(x.held) <= 1
    BY <1>3, <1>6
  <2>2. Alone(ms) => error' = NoError /\ LoneOK(Stage, ms, x, next')
    BY <1>1, <1>5, <1>6
  <2> QED
    BY <1>1, <1>6, <2>1, <2>2, WorkerSlice
<1>7. CASE stop /\ workers' = [workers EXCEPT ![w].pc = "done"] /\ next' = next
  <2> DEFINE x == [me EXCEPT !.pc = "done"]
  <2>1. x.held = me.held /\ workers' = [workers EXCEPT ![w] = x]
    BY <1>2, <1>7
  <2> HIDE DEF x
  <2>2. Alone(ms) => LoneOK(Stage, ms, x, next')
    BY <1>5, <1>7
  <2> QED
    BY <1>6, <2>1, <2>2
<1>8. CASE next' = next + 1 /\ next > Len(ms) /\ workers' = [workers EXCEPT ![w].pc = "done"]
  <2> DEFINE x == [me EXCEPT !.pc = "done"]
  <2>1. x.held = me.held /\ x.pc = "done" /\ workers' = [workers EXCEPT ![w] = x]
    BY <1>2, <1>8
  <2> HIDE DEF x
  <2>2. ASSUME Alone(ms) PROVE LoneOK(Stage, ms, x, next')
    <3>1. next = 1 => ms = <<>>
      <4>1. next = 1 => Len(ms) = 0
        <5> DEFINE N == Len(ms)
        <5>1. N \in Nat /\ next > N
          BY <1>4, <1>8
        <5> HIDE DEF N
        <5>2. next = 1 => N = 0
          BY <1>4, <5>1
        <5> QED
          BY <5>2 DEF N
      <4> QED
        BY <1>4, <4>1
    <3>2. Rest(ms, me, next) = <<>> /\ Rest(ms, x, next') = <<>>
      BY <1>1, <2>1, <3>1 DEF Rest, Pending
    <3>3. next' # 1
      BY <1>4, <1>8
    <3> QED
      BY <1>5, <2>1, <2>2, <3>2, <3>3 DEF LoneOK
  <2> QED
    BY <1>6, <2>1, <2>2
<1>9. CASE next' = next + 1 /\ workers' = [workers EXCEPT ![w] = FailsWith(w, "cancelled")]
  BY <1>1, <1>9, FailsSlice
<1>10. CASE /\ next' = next + 1 /\ ~(next > Len(ms))
            /\ workers' = [workers EXCEPT ![w] = [@ EXCEPT !.pc = "read", !.morsel = next]]
  <2> DEFINE x == [me EXCEPT !.pc = "read", !.morsel = next]
  <2>1. /\ x.held = me.held /\ x.pc = "read" /\ x.morsel = next
        /\ workers' = [workers EXCEPT ![w] = x]
    BY <1>1, <1>2, <1>10
  <2> HIDE DEF x
  <2>2. ASSUME Alone(ms) PROVE LoneOK(Stage, ms, x, next')
    <3>1. next = 1 /\ Len(ms) = 1
      <4> DEFINE N == Len(ms)
      <4>1. N \in Nat /\ ~(next > N) /\ N <= 1
        BY <1>4, <1>5, <1>10, <2>2
      <4> HIDE DEF N
      <4>2. next = 1 /\ N = 1
        BY <1>4, <4>1
      <4> QED
        BY <4>2 DEF N
    <3>2. ms # <<>>
      <4>1. Len(<<>>) = 0
        OBVIOUS
      <4> QED
        BY <3>1, <4>1
    <3>3. Rest(ms, me, next) = ms[1] /\ Rest(ms, x, next') = ms[1]
      BY <1>1, <2>1, <3>1, <3>2 DEF Rest, Pending
    <3>4. next' # 1
      BY <1>10, <3>1
    <3> QED
      BY <1>5, <2>1, <2>2, <3>3, <3>4 DEF LoneOK
  <2> QED
    BY <1>6, <2>1, <2>2
<1> QED
  BY <1>1, <1>7, <1>8, <1>9, <1>10 DEF Claim

(* The one worker pushes the one batch.                                    *)
LEMMA PushSlice ==
    ASSUME BudgetInv, RowsInv, SliceInv, NEW w, Push(w)
    PROVE  SliceInv'
<1> DEFINE me == workers[w]
           ms == Morsels
           batch == Filtered(Stage, Head(me.todo))
           held == IF batch = <<>> THEN me.held ELSE SinkPush(Stage, me.held, batch)
           rest == Tail(me.todo)
<1>1. /\ Running /\ w \in DOMAIN workers /\ me.pc = "push" /\ me.todo # <<>>
      /\ UNCHANGED <<query, main>> /\ error' = error /\ next' = next
  BY DEF Push, At, shared
<1>2. /\ me = [pc |-> me.pc, morsel |-> me.morsel, todo |-> me.todo, held |-> me.held,
               res |-> me.res, reading |-> me.reading, raised |-> me.raised, err |-> me.err]
      /\ WorkerFine(Stage, me)
  BY <1>1, MeHere
<1>3. Stage.sink = "topk" => Len(me.held) <= 1
  BY <1>1 DEF SliceInv, TopInv, Running
<1>4. \/ \E b, r : workers' = [workers EXCEPT ![w] =
                      [@ EXCEPT !.held = held, !.res = b, !.todo = rest, !.raised = r,
                                !.pc = AfterPush(held, rest)]]
      \/ \E e : workers' = [workers EXCEPT ![w] = FailsWith(w, e)]
  BY DEF Push
<1>5. ASSUME NEW e, workers' = [workers EXCEPT ![w] = FailsWith(w, e)] PROVE SliceInv'
  BY <1>1, <1>5, FailsSlice
<1>6. ASSUME NEW b, NEW r,
             workers' = [workers EXCEPT ![w] =
                      [@ EXCEPT !.held = held, !.res = b, !.todo = rest, !.raised = r,
                                !.pc = AfterPush(held, rest)]]
      PROVE  SliceInv'
  <2> DEFINE x == [me EXCEPT !.held = held, !.res = b, !.todo = rest, !.raised = r,
                             !.pc = AfterPush(held, rest)]
  <2>1. /\ x.held = held /\ x.todo = rest /\ x.pc = AfterPush(held, rest)
        /\ workers' = [workers EXCEPT ![w] = x]
    BY <1>1, <1>2, <1>6
  <2> HIDE DEF x
  <2>2. Stage.sink = "topk" => Len(x.held) <= 1
    BY <1>3, <2>1, TopHolds
  <2>3. ASSUME Alone(ms) PROVE error' = NoError /\ LoneOK(Stage, ms, x, next')
    <3>1. error = NoError /\ LoneOK(Stage, ms, me, next)
      <4>1. me.pc \notin Lost
        BY <1>1 DEF Lost
      <4> QED
        BY <1>1, <2>3, <4>1, LoneHere
    <3>2. Rest(ms, me, next) = me.todo /\ next # 1
      BY <1>1, <3>1 DEF Rest, Pending, LoneOK
    <3>3. Len(me.todo) <= 1 /\ With(Stage, me.held, me.todo) = HandedOver(Stage, ms)
      BY <3>1, <3>2 DEF LoneOK
    <3>4. With(Stage, me.held, me.todo) = held
      BY <1>1 DEF With
    <3>5. rest = <<>>
      <4> DEFINE t == me.todo
                 Q == Seq(Rows)
      <4>1. t \in Seq(Q) /\ t # <<>> /\ Len(t) <= 1
        BY <1>1, <1>2, <3>3 DEF WorkerFine
      <4> HIDE DEF t, Q
      <4>2. Tail(t) = <<>>
        <5>1. Len(t) \in Nat /\ Len(t) # 0
          BY <4>1
        <5>2. Len(t) = 1
          <6> DEFINE N == Len(t)
          <6>1. N \in Nat /\ N # 0 /\ N <= 1
            BY <4>1, <5>1
          <6> HIDE DEF N
          <6>2. N = 1
            BY <6>1
          <6> QED
            BY <6>2 DEF N
        <5>3. Tail(t) \in Seq(Q) /\ Len(Tail(t)) = Len(t) - 1
          BY <4>1
        <5>4. Len(Tail(t)) = 0
          BY <5>2, <5>3
        <5> DEFINE u == Tail(t)
        <5>5. u \in Seq(Q) /\ Len(u) = 0
          BY <5>3, <5>4
        <5> HIDE DEF u
        <5>6. u = <<>>
          BY <5>5
        <5> QED
          BY <5>6 DEF u
      <4> QED
        BY <4>2 DEF t
    <3> HIDE DEF held, rest, me
    <3>6. Rest(ms, x, next') = <<>>
      BY <1>1, <2>1, <3>2, <3>5 DEF Rest, Pending, AfterPush
    <3>7. With(Stage, x.held, <<>>) = HandedOver(Stage, ms)
      BY <2>1, <3>3, <3>4 DEF With
    <3>8. Len(<<>>) <= 1
      OBVIOUS
    <3> QED
      BY <1>1, <3>1, <3>2, <3>6, <3>7, <3>8 DEF LoneOK
  <2> QED
    BY <1>1, <2>1, <2>2, <2>3, WorkerSlice
<1> QED
  BY <1>4, <1>5, <1>6

(* The query ends without an answer.                                       *)
LEMMA ReturnSlice ==
    ASSUME SliceInv, NEW r, r # None, "ok" \notin DOMAIN r, Return(r)
    PROVE  SliceInv'
<1>1. plan' = plan /\ sources' = sources /\ result' = r
  BY DEF Return, query
<1>2. PastInv
  BY DEF SliceInv
<1>3. PastInv'
  BY <1>1, <1>2 DEF PastInv
<1> QED
  BY <1>1, <1>3 DEF SliceInv

(* A sink that has been handed over is empty.                              *)
LEMMA SpentEmpty == Spent.held = <<>> /\ Len(Spent.held) <= 1
<1>1. Spent.held = <<>>
  BY DEF Spent, NewWorker
<1>2. Len(<<>>) <= 1
  OBVIOUS
<1> QED
  BY <1>1, <1>2

(* The main thread takes the first sink over.                              *)
LEMMA JoinSlice ==
    ASSUME BudgetInv, RowsInv, SliceInv, Join
    PROVE  SliceInv'
<1>1. Running /\ AllOver /\ merging = None /\ result = None
  BY DEF Join, Running
<1>2. StopInv
  BY <1>1, WorkersHere
<1>3. 1 \in DOMAIN workers
  BY <1>1, WorkersHere
<1>4. PastInv /\ TopInv /\ LoneInv
  BY <1>1 DEF SliceInv
<1>5. ASSUME NEW r, Return(r), r = [panic |-> TRUE] \/ r = [err |-> error] PROVE SliceInv'
  <2>1. r # None /\ "ok" \notin DOMAIN r
    BY <1>5, Answers
  <2> QED
    BY <1>5, <2>1, ReturnSlice
<1>6. CASE /\ ~\E w \in DOMAIN workers : workers[w].pc = "panicked"
           /\ error = NoError
  <2> DEFINE h == workers[1].held
  <2>1. /\ merging' = [held |-> h, res |-> workers[1].res, left |-> 2]
        /\ workers' = [workers EXCEPT ![1] = Spent]
        /\ plan' = plan /\ sources' = sources /\ result' = result
    BY <1>6 DEF Join, Spent, query
  <2>2. merging' # None /\ merging'.held = h /\ merging'.left = 2
    BY <2>1 DEF None
  <2>3. Stage' = Stage /\ Morsels' = Morsels
    BY <2>1 DEF Stage, Morsels
  <2>4. PastInv'
    BY <1>4, <2>1, <2>3 DEF PastInv
  <2>5. /\ DOMAIN workers' = DOMAIN workers
        /\ \A w \in DOMAIN workers : workers'[w] = IF w = 1 THEN Spent ELSE workers[w]
    BY <2>1
  <2>6. TopInv'
    BY <1>3, <1>4, <2>2, <2>3, <2>5, SpentEmpty DEF TopInv
  <2>7. ASSUME Alone(Morsels) PROVE h = HandedOver(Stage, Morsels)
    <3>1. workers[1].pc = "done"
      BY <1>1, <1>2, <1>3, <1>6 DEF AllOver, StopInv
    <3>2. workers[1].pc \notin Lost
      BY <3>1 DEF Lost
    <3>3. LoneOK(Stage, Morsels, workers[1], next)
      BY <1>1, <1>3, <2>7, <3>2, LoneHere
    <3>4. Rest(Morsels, workers[1], next) = <<>>
      BY <3>1 DEF Rest, Pending
    <3> QED
      BY <3>3, <3>4 DEF LoneOK, With
  <2> HIDE DEF h
  <2>8. LoneInv'
    BY <1>4, <2>2, <2>3, <2>5, <2>7 DEF LoneInv
  <2> QED
    BY <2>4, <2>6, <2>8 DEF SliceInv
<1> QED
  BY <1>5, <1>6 DEF Join

(* With one worker there is nothing to merge.                              *)
LEMMA MergeSlice ==
    ASSUME BudgetInv, RowsInv, SliceInv, Merge
    PROVE  SliceInv'
<1> DEFINE w == merging.left
           h == SinkMerge(Stage, merging.held, workers[w].held)
<1>1. merging # None /\ w \in DOMAIN workers
  BY DEF Merge
<1>2. result = None /\ \A v \in DOMAIN workers : workers[v].held \in Seq(Seq(Rows))
  BY <1>1, MergingHere DEF Shape
<1>3. PastInv /\ TopInv /\ LoneInv
  BY <1>2 DEF SliceInv
<1>4. \/ \E e : Return([err |-> e])
      \/ /\ merging' = [held |-> h, res |-> Bytes(h), left |-> w + 1]
         /\ workers' = [workers EXCEPT ![w] = Spent]
         /\ plan' = plan /\ sources' = sources /\ result' = result
  <2> HIDE DEF w, h
  <2>1. \/ Return([err |-> "cancelled"])
        \/ Return([err |-> "budget"])
        \/ /\ merging' = [held |-> h, res |-> Bytes(h), left |-> w + 1]
           /\ workers' = [workers EXCEPT ![w] = Spent]
           /\ plan' = plan /\ sources' = sources /\ result' = result
    BY DEF Merge, Spent, w, h, query
  <2> QED
    BY <2>1
<1>5. ASSUME NEW e, Return([err |-> e]) PROVE SliceInv'
  <2>1. [err |-> e] # None /\ "ok" \notin DOMAIN [err |-> e]
    BY Answers
  <2> QED
    BY <1>5, <2>1, ReturnSlice
<1>6. CASE /\ merging' = [held |-> h, res |-> Bytes(h), left |-> w + 1]
           /\ workers' = [workers EXCEPT ![w] = Spent]
           /\ plan' = plan /\ sources' = sources /\ result' = result
  <2>1. merging' # None /\ merging'.held = h
    BY <1>6 DEF None
  <2>2. Stage' = Stage /\ Morsels' = Morsels
    BY <1>6 DEF Stage, Morsels
  <2>3. PastInv'
    BY <1>3, <1>6, <2>2 DEF PastInv
  <2>4. Stage.sink = "topk" => Len(h) <= 1
    <3>1. Stage.sink = "topk" => Len(merging.held) <= 1
      BY <1>1, <1>3 DEF TopInv
    <3> QED
      BY <1>1, <1>2, <3>1, TopHolds
  <2> HIDE DEF h
  <2>5. /\ DOMAIN workers' = DOMAIN workers
        /\ \A v \in DOMAIN workers : workers'[v] = IF v = w THEN Spent ELSE workers[v]
    BY <1>6
  <2>6. TopInv'
    BY <1>3, <2>1, <2>2, <2>4, <2>5, SpentEmpty DEF TopInv
  <2>7. ~Alone(Morsels)
    BY <1>1, <1>3 DEF LoneInv
  <2>8. LoneInv'
    BY <2>2, <2>7 DEF LoneInv
  <2> QED
    BY <2>3, <2>6, <2>8 DEF SliceInv
<1> QED
  BY <1>4, <1>5, <1>6

(* The invariant holds at the start of a stage.                            *)
FreshPoolHere ==
    /\ merging = None /\ error = NoError /\ next = 1
    /\ Morsels \in Seq(Seq(Seq(Rows))) /\ workers = Pool(Morsels)

LEMMA FreshSlice == PastInv /\ FreshPoolHere => SliceInv
<1> SUFFICES ASSUME PastInv, merging = None, error = NoError, next = 1,
                    Morsels \in Seq(Seq(Seq(Rows))), workers = Pool(Morsels)
             PROVE  SliceInv
  BY DEF FreshPoolHere
<1> DEFINE ms == Morsels
<1>1. \A w \in DOMAIN workers : workers[w] = NewWorker
  BY DEF Pool
<1>2. NewWorker.pc = "claim" /\ NewWorker.held = <<>> /\ Len(<<>>) <= 1
  BY DEF NewWorker
<1>3. TopInv
  BY <1>1, <1>2 DEF TopInv
<1>4. ASSUME Alone(ms) PROVE DOMAIN workers = {1} /\ LoneOK(Stage, ms, NewWorker, 1)
  <2>1. Len(ms) \in Nat /\ Len(ms) <= 1 /\ Threads \in Nat \ {0}
    BY <1>4, QueryAssumption DEF Alone
  <2>2. DOMAIN workers = 1 .. Min({Threads, Max({Len(ms), 1})})
    BY DEF Pool
  <2> DEFINE N == Len(ms)
             k == Max({N, 1})
             m == Min({Threads, k})
  <2>3. k = 1
    <3>1. N \in Int /\ 1 \in Int
      BY <2>1
    <3>2. k \in {N, 1} /\ k >= N /\ k >= 1
      BY <3>1, MaxIs
    <3>3. N <= 1
      BY <2>1
    <3> HIDE DEF k, N
    <3> QED
      BY <3>1, <3>2, <3>3
  <2> HIDE DEF k
  <2>4. m = 1
    <3>1. Threads \in Int /\ k \in Int
      BY <2>1, <2>3
    <3>2. m \in {Threads, k} /\ m <= Threads /\ m <= k
      BY <3>1, MinIs
    <3> HIDE DEF m
    <3> QED
      BY <2>1, <2>3, <3>2
  <2>5. DOMAIN workers = 1 .. m
    BY <2>2 DEF k
  <2> HIDE DEF m, N
  <2>6. DOMAIN workers = {1}
    BY <2>4, <2>5
  <2>7. Rest(ms, NewWorker, 1) = IF ms # <<>> THEN ms[1] ELSE <<>>
    BY <1>2 DEF Rest, Pending
  <2>8. Len(Rest(ms, NewWorker, 1)) <= 1
    <3>1. CASE ms = <<>>
      BY <1>2, <2>7, <3>1
    <3>2. CASE ms # <<>>
      <4>1. 1 \in 1 .. Len(ms)
        <5>1. Len(ms) \in Nat /\ Len(ms) # 0
          BY <3>2
        <5> QED
          BY <5>1
      <4>2. Len(ms[1]) = 1
        BY <1>4, <4>1 DEF Alone
      <4>3. Rest(ms, NewWorker, 1) = ms[1]
        BY <2>7, <3>2
      <4> HIDE DEF ms
      <4>4. Len(Rest(ms, NewWorker, 1)) = 1
        BY <4>2, <4>3
      <4>5. 1 <= 1
        OBVIOUS
      <4> QED
        BY <4>4, <4>5
    <3> QED
      BY <3>1, <3>2
  <2>9. With(Stage, <<>>, Rest(ms, NewWorker, 1)) = HandedOver(Stage, ms)
    BY <2>7 DEF With, HandedOver
  <2> HIDE DEF ms
  <2> QED
    BY <1>2, <2>6, <2>8, <2>9 DEF LoneOK
<1>5. LoneInv
  BY <1>1, <1>4 DEF LoneInv
<1> QED
  BY <1>3, <1>5 DEF SliceInv

(* The result is the answer, or the morsels of the next stage.             *)
LEMMA FinishSlice ==
    ASSUME BudgetInv, RowsInv, RowsInv', SliceInv, Finish
    PROVE  SliceInv'
<1> DEFINE out == SinkFinish(Stage, merging.held)
           morsels == AsMorsels(out)
           N == Len(sources)
<1>1. merging # None /\ merging.left \notin DOMAIN workers
  BY DEF Finish
<1>2. result = None /\ Stage \in StageType /\ N \in Nat \ {0}
      /\ sources \in Seq(Seq(Seq(Seq(Rows))))
  BY <1>1, MergingHere DEF AnswersInv
<1>3. PastInv /\ TopInv /\ LoneInv
  BY <1>2 DEF SliceInv
<1>4. out \in Seq(Seq(Rows))
  <2>1. /\ Concat(Concat(Morsels)) \in Seq(Rows)
        /\ Enough(Stage, merging.held, Weights(Matching(Stage, Concat(Concat(Morsels)))))
    BY <1>1, EnoughHere
  <2> QED
    BY <1>2, <2>1, FinishAnswers
<1>5. Stage.sink = "topk" => Alone(morsels)
  <2>1. Stage.sink = "topk" => out = merging.held /\ Len(merging.held) <= 1
    BY <1>1, <1>3 DEF TopInv, SinkFinish
  <2> HIDE DEF out
  <2> QED
    BY <1>4, <2>1, OneMorsel
<1>6. Alone(Morsels) => out = SinkFinish(Stage, HandedOver(Stage, Morsels))
  BY <1>1, <1>3 DEF LoneInv
<1>7. morsels = [b \in DOMAIN out |-> <<out[b]>>]
  BY DEF AsMorsels
<1>8. \/ Return([err |-> "cancelled"])
      \/ Return([err |-> "budget"])
      \/ /\ merging' = None /\ plan' = plan
         /\ \/ /\ N = Len(plan)
               /\ result' = [ok |-> Concat(out)]
               /\ sources' = sources
            \/ /\ sources' = Append(sources, morsels)
               /\ workers' = Pool(morsels)
               /\ next' = 1 /\ error' = NoError
               /\ result' = result
  <2> HIDE DEF morsels
  <2> QED
    BY <1>7 DEF Finish, out
<1> HIDE DEF out, morsels
<1>9. morsels \in Seq(Seq(Seq(Rows)))
  BY <1>4, <1>7, MorselsOfBatches
<1>10. CASE Return([err |-> "cancelled"]) \/ Return([err |-> "budget"])
  <2>1. \A e : [err |-> e] # None /\ "ok" \notin DOMAIN [err |-> e]
    BY Answers
  <2> QED
    BY <1>10, <2>1, ReturnSlice
<1>11. CASE plan' = plan /\ N = Len(plan) /\ result' = [ok |-> Concat(out)] /\ sources' = sources
  <2>1. Stage' = Stage /\ Morsels' = Morsels
    BY <1>11 DEF Stage, Morsels
  <2>2. result' # None /\ result'.ok = Concat(out)
    BY <1>11, Answers
  <2>3. Alone(Morsels) => result'.ok = Concat(SinkFinish(Stage, HandedOver(Stage, Morsels)))
    BY <1>6, <2>2
  <2>4. PastInv'
    BY <1>3, <1>11, <2>1, <2>3 DEF PastInv
  <2> QED
    BY <2>2, <2>4 DEF SliceInv
<1>12. CASE /\ merging' = None /\ plan' = plan
            /\ sources' = Append(sources, morsels)
            /\ workers' = Pool(morsels)
            /\ next' = 1 /\ error' = NoError
            /\ result' = result
  <2> DEFINE Q == Seq(Seq(Seq(Rows)))
  <2>1. sources \in Seq(Q) /\ morsels \in Q /\ N \in Nat \ {0}
    BY <1>2, <1>9
  <2> HIDE DEF Q
  <2>2. /\ Len(sources') = N + 1 /\ sources'[N + 1] = morsels
        /\ \A s \in 1 .. N : sources'[s] = sources[s]
    BY <1>12, <2>1
  <2>3. Morsels' = morsels
    BY <2>2 DEF Morsels
  <2>4. PastInv'
    <3>1. "ok" \notin DOMAIN result'
      BY <1>2, <1>12 DEF None
    <3>2. ASSUME NEW s \in 1 .. Len(sources') - 1
          PROVE  /\ plan'[s].sink = "topk" => Alone(sources'[s + 1])
                 /\ Alone(sources'[s]) =>
                      sources'[s + 1] =
                         AsMorsels(SinkFinish(plan'[s], HandedOver(plan'[s], sources'[s])))
      <4>1. s \in 1 .. N /\ sources'[s] = sources[s] /\ plan'[s] = plan[s]
        BY <1>12, <2>1, <2>2
      <4>2. CASE s = N
        <5>1. plan[s] = Stage /\ sources[s] = Morsels /\ sources'[s + 1] = morsels
          BY <2>2, <4>2 DEF Stage, Morsels
        <5>2. Alone(Morsels) => morsels = AsMorsels(SinkFinish(Stage, HandedOver(Stage, Morsels)))
          BY <1>6 DEF morsels
        <5> QED
          BY <1>5, <4>1, <5>1, <5>2
      <4>3. CASE s # N
        <5>1. s \in 1 .. N - 1 /\ s + 1 \in 1 .. N
          BY <2>1, <4>1, <4>3
        <5>2. sources'[s + 1] = sources[s + 1]
          BY <2>2, <5>1
        <5>3. /\ plan[s].sink = "topk" => Alone(sources[s + 1])
              /\ Alone(sources[s]) =>
                   sources[s + 1] = AsMorsels(SinkFinish(plan[s], HandedOver(plan[s], sources[s])))
          BY <1>3, <5>1 DEF PastInv
        <5> QED
          BY <4>1, <5>2, <5>3
      <4> QED
        BY <4>2, <4>3
    <3> QED
      BY <3>1, <3>2 DEF PastInv
  <2>5. Morsels' \in Seq(Seq(Seq(Rows))) /\ workers' = Pool(Morsels')
    BY <1>9, <1>12, <2>3
  <2>6. FreshPoolHere'
    BY <1>12, <2>5 DEF FreshPoolHere, Pool, NewWorker
  <2>7. PastInv' /\ FreshPoolHere' => SliceInv'
    BY FreshSlice, PTL
  <2> QED
    BY <2>4, <2>6, <2>7
<1> QED
  BY <1>8, <1>10, <1>11, <1>12

(* The invariant holds at the start.                                       *)
LEMMA SliceStarts == Init => SliceInv
<1> SUFFICES ASSUME Init PROVE SliceInv
  OBVIOUS
<1> DEFINE Q == Seq(Seq(Seq(Rows)))
<1>1. PICK t \in Tables :
         /\ sources = <<t.segments \o t.buffered>>
         /\ workers = Pool(t.segments \o t.buffered)
  BY DEF Init
<1> DEFINE ms == t.segments \o t.buffered
<1>2. sources = <<ms>> /\ workers = Pool(ms)
  BY <1>1
<1> HIDE DEF ms
<1>3. Len(sources) = 1 /\ Morsels = ms
  BY <1>2 DEF Morsels
<1>4. next = 1 /\ error = NoError /\ merging = None /\ result = None
  BY DEF Init
<1>5. AnswersInv
  BY RowsStarts DEF RowsInv
<1>6. Morsels \in Q
  <2>1. sources \in Seq(Q)
    BY <1>5 DEF AnswersInv
  <2> HIDE DEF Q
  <2> QED
    BY <1>3, <2>1 DEF Morsels
<1>7. PastInv
  <2>1. "ok" \notin DOMAIN result
    BY <1>4 DEF None
  <2>2. 1 .. Len(sources) - 1 = {}
    BY <1>3
  <2> QED
    BY <2>1, <2>2 DEF PastInv
<1>8. FreshPoolHere
  BY <1>2, <1>3, <1>4, <1>6 DEF FreshPoolHere
<1> QED
  BY <1>7, <1>8, FreshSlice

(* No step of a worker, of the main thread or of the canceller breaks it.  *)
LEMMA SliceStep == BudgetInv /\ RowsInv /\ RowsInv' /\ SliceInv /\ [Next]_vars => SliceInv'
<1> SUFFICES ASSUME BudgetInv, RowsInv, RowsInv', SliceInv, [Next]_vars PROVE SliceInv'
  OBVIOUS
<1>1. ASSUME NEW w, WorkerStep(w) \/ ReadError(w) \/ Panic(w)
      PROVE  SliceInv'
  <2>1. CASE Claim(w)
    BY <2>1, ClaimSlice
  <2>2. CASE Push(w)
    BY <2>2, PushSlice
  <2>3. CASE \/ Read(w) \/ ReadMemory(w) \/ ReadOver(w) \/ ReadError(w) \/ EmptyMorsel(w)
             \/ RaisePeak(w) \/ SetStop(w) \/ RecordError(w) \/ DropSink(w) \/ Panic(w)
    BY <2>3, QuietSteps
  <2> QED
    BY <1>1, <2>1, <2>2, <2>3 DEF WorkerStep
<1>2. CASE MainStep
  BY <1>2, JoinSlice, MergeSlice, FinishSlice DEF MainStep
<1>3. CASE Cancel \/ UNCHANGED vars
  <2>1. /\ plan' = plan /\ sources' = sources /\ next' = next
        /\ error' = error /\ workers' = workers /\ merging' = merging /\ result' = result
    BY <1>3 DEF Cancel, vars, query, shared, main
  <2>2. Stage' = Stage /\ Morsels' = Morsels
    BY <2>1 DEF Stage, Morsels
  <2>3. PastInv => PastInv'
    BY <2>1, <2>2 DEF PastInv
  <2>4. (TopInv => TopInv') /\ (LoneInv => LoneInv')
    BY <2>1, <2>2 DEF TopInv, LoneInv
  <2> QED
    BY <2>1, <2>3, <2>4 DEF SliceInv
<1> QED
  BY <1>1, <1>2, <1>3 DEF Next

(* ORDER BY with LIMIT as the planner lowers it: top-K of as many rows as  *)
(* the limit and the offset need, the limit, and no filter after that.     *)
SlicePlan(p) ==
    /\ Len(p) = 3
    /\ p[1].sink = "topk" /\ p[2].sink = "limit" /\ p[3].sink = "collect"
    /\ p[2].limit # NoLimit /\ p[1].k = p[2].limit + p[2].offset
    /\ p[1].keep \subseteq p[2].keep /\ p[1].keep \subseteq p[3].keep

(* The three stages, put together.                                         *)
LEMMA SliceRight ==
    BudgetInv /\ RowsInv /\ SliceInv => (SlicePlan(plan) => OrderedSlice)
<1> SUFFICES ASSUME BudgetInv, RowsInv, SliceInv, SlicePlan(plan),
                    "ok" \in DOMAIN result, plan[2].limit <= BatchRows
             PROVE  OrderedSlice
  BY DEF OrderedSlice
<1> DEFINE t == plan[1]
           l == plan[2]
           c == plan[3]
           ms2 == sources[2]
           ms3 == sources[3]
           input == Concat(Concat(sources[1]))
           b == Concat(Concat(ms2))
           out == SinkFinish(l, HandedOver(l, ms2))
           n == l.limit
           o == l.offset
           d == SubSeq(b, o + 1, Len(b))
           sorted == Keys(StableSort(Matching(t, input)))
<1>1. PastInv /\ AnswersInv /\ StageInv
  BY DEF SliceInv, RowsInv, BudgetInv
<1>2. Len(plan) = 3 /\ Len(sources) = 3
  BY <1>1 DEF PastInv, SlicePlan
<1>3. /\ t.sink = "topk" /\ l.sink = "limit" /\ c.sink = "collect" /\ n # NoLimit
      /\ t.k = n + o /\ t.keep \subseteq l.keep /\ t.keep \subseteq c.keep /\ n <= BatchRows
  BY DEF SlicePlan
<1>4. t \in StageType /\ l \in StageType /\ c \in StageType
  <2>1. plan \in Seq(StageType)
    BY <1>1, QueryAssumption DEF StageInv
  <2> QED
    BY <1>2, <2>1
<1>5. /\ sources[1] \in Seq(Seq(Seq(Rows))) /\ ms2 \in Seq(Seq(Seq(Rows)))
      /\ ms3 \in Seq(Seq(Seq(Rows)))
  <2> DEFINE Q == Seq(Seq(Seq(Rows)))
  <2>1. sources \in Seq(Q)
    BY <1>1 DEF AnswersInv
  <2> HIDE DEF Q
  <2>2. sources[1] \in Q /\ sources[2] \in Q /\ sources[3] \in Q
    BY <1>2, <2>1
  <2> QED
    BY <2>2 DEF Q
<1>6. Stage = c /\ Morsels = ms3
  BY <1>2 DEF Stage, Morsels
<1>7. /\ Alone(ms2) /\ StageAnswer(t, input, b)
      /\ ms3 = AsMorsels(out)
      /\ Alone(ms3) => result.ok = Concat(SinkFinish(c, HandedOver(c, ms3)))
  <2>1. 1 \in 1 .. Len(sources) - 1 /\ 2 \in 1 .. Len(sources) - 1
    BY <1>2
  <2>2. Alone(ms2)
    BY <1>1, <1>3, <2>1 DEF PastInv
  <2>3. ms3 = AsMorsels(out)
    BY <1>1, <2>1, <2>2 DEF PastInv
  <2>4. StageAnswer(t, input, b)
    BY <1>1, <2>1 DEF AnswersInv, StagesRight
  <2>5. Alone(ms3) => result.ok = Concat(SinkFinish(c, HandedOver(c, ms3)))
    BY <1>1, <1>6 DEF PastInv
  <2> QED
    BY <2>2, <2>3, <2>4, <2>5
<1>8. input \in Seq(Rows) /\ b \in Seq(Rows)
  <2>1. ASSUME NEW ms \in Seq(Seq(Seq(Rows))) PROVE Concat(Concat(ms)) \in Seq(Rows)
    <3>1. Concat(ms) \in Seq(Seq(Rows))
      BY ConcatSeq
    <3> QED
      BY <3>1, ConcatSeq
  <2> QED
    BY <1>5, <2>1
<1>9. n \in Nat /\ o \in Nat
  BY <1>3, <1>4, StageFields
<1> HIDE DEF input, b
<1>10. /\ sorted \in Seq(Int) /\ Keys(b) = FirstRows(sorted, n + o)
       /\ \A i \in 1 .. Len(b) : b[i].key \in t.keep
  BY <1>3, <1>4, <1>7, <1>8, TopRows
<1> HIDE DEF sorted
<1>11. Len(b) <= n + o /\ Keys(d) = SubSeq(sorted, o + 1, Min({o + n, Len(sorted)}))
  BY <1>8, <1>9, <1>10, SliceKeys
<1>12. out \in Seq(Seq(Rows)) /\ Len(out) <= 1 /\ Concat(out) = d
  <2>1. \A i \in 1 .. Len(b) : b[i].key \in l.keep
    BY <1>3, <1>10
  <2> QED
    BY <1>3, <1>4, <1>5, <1>7, <1>9, <1>11, <2>1, LimitAlone DEF b
<1> HIDE DEF out, d
<1>13. Alone(ms3) /\ Concat(Concat(ms3)) = d
  <2>1. Alone(ms3)
    BY <1>7, <1>12, OneMorsel
  <2>2. Concat(ms3) = out
    BY <1>7, <1>12, MorselsOfBatches DEF AsMorsels
  <2> QED
    BY <1>12, <2>1, <2>2
<1>14. \A i \in 1 .. Len(d) : d[i].key \in c.keep
  <2> DEFINE N == Len(b)
             S == {r \in Rows : r.key \in t.keep}
  <2>1. N \in Nat /\ \A i \in 1 .. N : b[i] \in S
    BY <1>8, <1>10
  <2> HIDE DEF N, S
  <2>2. o + 1 \in Int /\ N \in Int /\ \A i \in o + 1 .. N : b[i] \in S
    BY <1>9, <2>1
  <2>3. SubSeq(b, o + 1, N) \in Seq(S)
    BY <2>2, SubSeqProperties
  <2>4. d \in Seq(S)
    BY <2>3 DEF d, N
  <2>5. \A i \in 1 .. Len(d) : d[i] \in S
    BY <2>4
  <2> QED
    BY <1>3, <2>5 DEF S
<1>15. Concat(SinkFinish(c, HandedOver(c, ms3))) = d
  BY <1>3, <1>5, <1>13, <1>14, CollectAlone
<1>16. Keys(result.ok) = SubSeq(sorted, o + 1, Min({o + n, Len(sorted)}))
  BY <1>7, <1>11, <1>13, <1>15
<1> QED
  BY <1>16 DEF OrderedSlice, sorted, input

(* A query with ORDER BY, LIMIT and OFFSET answers with exactly that slice *)
(* of the matching rows in order (planner.rs, lower_plan: Limit over Sort),*)
(* although each stage is done by a pool of workers that claim morsels in  *)
(* any order: what top-K returns is one batch, which one worker carries    *)
(* through the stages that follow.                                         *)
THEOREM SliceAlways == Spec => [](SlicePlan(plan) => OrderedSlice)
BY BudgetStarts, BudgetStep, RowsStarts, RowsStep, SliceStarts, SliceStep, SliceRight, PTL
   DEF Spec
=============================================================================
