----------------------------- MODULE QueryProofs -----------------------------
(***************************************************************************)
(* The memory budget of a query.  What the shared counter says is what the *)
(* sinks and the reads of all workers hold, through failures, panics,      *)
(* merges and cancellation, for any number of threads and any plan; it     *)
(* never passes the limit, merging what fitted never does either, and the  *)
(* peak that is reported covers every use.                                 *)
(***************************************************************************)
EXTENDS Query, FiniteSetTheorems, SequenceTheorems, TLAPS

-----------------------------------------------------------------------------
(* Induction.                                                              *)

(* A set of numbers that has 0 and, with a number, the next one, has all:  *)
(* its least gap would follow a number it has.                             *)
LEMMA CountUp ==
    ASSUME NEW S, 0 \in S, \A n \in Nat : n \in S => n + 1 \in S
    PROVE  Nat \subseteq S
<1> SUFFICES ASSUME Nat \ S # {} PROVE FALSE
  OBVIOUS
<1> DEFINE Less == {ss \in Nat \X Nat : ss[1] < ss[2]}
           Gaps == Nat \ S
<1>1. IsWellFoundedOn(Less, Nat)
  BY NatLessThanWellFounded DEF OpToRel
<1>2. PICK x \in Gaps : \A y \in Gaps : ~(<<y, x>> \in Less)
  <2>1. Gaps \subseteq Nat /\ Gaps # {}
    OBVIOUS
  <2> HIDE DEF Less, Gaps
  <2> QED
    BY <1>1, <2>1, WFMin
<1>3. x \in Nat /\ x # 0
  OBVIOUS
<1>4. x - 1 \in Nat /\ (x - 1) + 1 = x
  BY <1>3
<1>5. x - 1 \in S
  <2>1. <<x - 1, x>> \in Nat \X Nat /\ <<x - 1, x>>[1] < <<x - 1, x>>[2]
    BY <1>3, <1>4
  <2> QED
    BY <1>2, <1>4, <2>1
<1> QED
  BY <1>2, <1>4, <1>5

(* The element a sum takes next.                                           *)
Pick(s) == CHOOSE x \in s : TRUE

(* Subsets of 1 .. n have at most n elements.                              *)
LEMMA Parts ==
    ASSUME NEW n \in Nat, NEW s \in SUBSET (1 .. n)
    PROVE  /\ IsFiniteSet(s) /\ Cardinality(s) \in Nat /\ Cardinality(s) <= n
           /\ s = {} <=> Cardinality(s) = 0
<1> DEFINE D == 1 .. n
<1>1. IsFiniteSet(D) /\ Cardinality(D) = n
  BY FS_Interval
<1>2. s \in SUBSET D
  OBVIOUS
<1> HIDE DEF D
<1>3. IsFiniteSet(s) /\ Cardinality(s) <= Cardinality(D)
  BY <1>1, <1>2, FS_Subset
<1> QED
  BY <1>1, <1>3, FS_CardinalityType, FS_EmptySet

(* What holds of the empty set, and of a set when it holds of the set      *)
(* without the element taken next, holds of every subset of 1 .. n.        *)
LEMMA TakeOut ==
    ASSUME NEW n \in Nat, NEW T, {} \in T,
           \A s \in SUBSET (1 .. n) : s # {} /\ s \ {Pick(s)} \in T => s \in T
    PROVE  SUBSET (1 .. n) \subseteq T
<1> DEFINE S == {k \in Nat : \A s \in SUBSET (1 .. n) : Cardinality(s) = k => s \in T}
<1>1. \A s \in SUBSET (1 .. n) : IsFiniteSet(s) /\ Cardinality(s) \in Nat
  BY Parts
<1>2. 0 \in S
  BY <1>1, FS_EmptySet
<1>3. ASSUME NEW k \in Nat, k \in S PROVE k + 1 \in S
  <2> SUFFICES ASSUME NEW s \in SUBSET (1 .. n), Cardinality(s) = k + 1 PROVE s \in T
    OBVIOUS
  <2>1. s # {}
    BY FS_EmptySet
  <2>2. Pick(s) \in s
    BY <2>1 DEF Pick
  <2>3. Cardinality(s \ {Pick(s)}) = k
    BY <1>1, <2>2, FS_RemoveElement
  <2>4. s \ {Pick(s)} \in SUBSET (1 .. n)
    OBVIOUS
  <2>5. s \ {Pick(s)} \in T
    BY <1>3, <2>3, <2>4
  <2> QED
    BY <2>1, <2>5
<1>4. Nat \subseteq S
  <2> HIDE DEF S
  <2> QED
    BY <1>2, <1>3, CountUp
<1> QED
  BY <1>1, <1>4

-----------------------------------------------------------------------------
(* Sums over the workers.                                                  *)

Numbers(f, n) == DOMAIN f = 1 .. n /\ \A i \in 1 .. n : f[i] \in Nat

(* g[s] is the sum of f over s.                                            *)
SumsOf(g, f, n) ==
    /\ g[{}] = 0
    /\ \A s \in SUBSET (1 .. n) : s # {} => g[s] = f[Pick(s)] + g[s \ {Pick(s)}]

(* SumFunction is a sum that takes out one element after the other.        *)
LEMMA SumSteps ==
    ASSUME NEW n \in Nat, NEW f, DOMAIN f = 1 .. n
    PROVE  \E g : SumsOf(g, f, n) /\ SumFunction(f) = g[1 .. n]
<1> DEFINE D == 1 .. n
           Up(k) == {s \in SUBSET D : Cardinality(s) <= k}
           Is(g, A) == g = [s \in A |-> IF s = {} THEN 0 ELSE f[Pick(s)] + g[s \ {Pick(s)}]]
           S == {k \in Nat : \E g : Is(g, Up(k))}
<1>1. ASSUME NEW s \in SUBSET D
      PROVE  /\ Cardinality(s) \in Nat /\ Cardinality(s) <= n
             /\ s = {} <=> Cardinality(s) = 0
             /\ s # {} => /\ s \ {Pick(s)} \in SUBSET D
                          /\ Cardinality(s \ {Pick(s)}) = Cardinality(s) - 1
  <2>1. IsFiniteSet(s) /\ Cardinality(s) \in Nat /\ Cardinality(s) <= n
    BY Parts
  <2>2. s = {} <=> Cardinality(s) = 0
    BY Parts
  <2>3. s # {} => Pick(s) \in s
    BY DEF Pick
  <2>4. s # {} => Cardinality(s \ {Pick(s)}) = Cardinality(s) - 1
    BY <2>1, <2>3, FS_RemoveElement
  <2> QED
    BY <2>1, <2>2, <2>4
<1>2. 0 \in S
  <2> DEFINE g == [s \in Up(0) |-> 0]
  <2>1. ASSUME NEW s \in Up(0) PROVE s = {}
    <3>1. s \in SUBSET D /\ Cardinality(s) <= 0
      OBVIOUS
    <3> HIDE DEF D, Up
    <3>2. Cardinality(s) \in Nat /\ (s = {} <=> Cardinality(s) = 0)
      BY <1>1, <3>1
    <3> QED
      BY <3>1, <3>2
  <2>2. Is(g, Up(0))
    BY <2>1
  <2> QED
    BY <2>2
<1>3. ASSUME NEW k \in Nat, k \in S PROVE k + 1 \in S
  <2>1. PICK g : Is(g, Up(k))
    BY <1>3
  <2> DEFINE h == [s \in Up(k + 1) |->
                      IF s \in Up(k) THEN g[s] ELSE f[Pick(s)] + g[s \ {Pick(s)}]]
  <2>2. ASSUME NEW s \in Up(k + 1)
        PROVE  h[s] = IF s = {} THEN 0 ELSE f[Pick(s)] + h[s \ {Pick(s)}]
    <3>1. s # {} => s \ {Pick(s)} \in Up(k) /\ s \ {Pick(s)} \in Up(k + 1)
      <4>1. s \in SUBSET D /\ Cardinality(s) <= k + 1
        OBVIOUS
      <4> DEFINE r == s \ {Pick(s)}
      <4>2. s # {} => /\ r \in SUBSET D /\ Cardinality(r) = Cardinality(s) - 1
                      /\ Cardinality(s) \in Nat
        BY <1>1, <4>1
      <4> HIDE DEF r
      <4>3. s # {} => Cardinality(r) <= k /\ Cardinality(r) <= k + 1
        BY <4>1, <4>2
      <4> QED
        BY <4>2, <4>3 DEF r
    <3>2. s # {} => h[s \ {Pick(s)}] = g[s \ {Pick(s)}]
      BY <3>1
    <3>3. s = {} => s \in Up(k)
      <4>1. {} \in SUBSET D /\ Cardinality({}) = 0
        BY FS_EmptySet
      <4> QED
        BY <4>1
    <3>4. CASE s \in Up(k)
      <4>1. h[s] = g[s]
        BY <3>4
      <4>2. g[s] = IF s = {} THEN 0 ELSE f[Pick(s)] + g[s \ {Pick(s)}]
        BY <2>1, <3>4
      <4> QED
        BY <3>2, <4>1, <4>2
    <3>5. CASE s \notin Up(k)
      <4>1. h[s] = f[Pick(s)] + g[s \ {Pick(s)}]
        BY <3>5
      <4> QED
        BY <3>2, <3>3, <3>5, <4>1
    <3> QED
      BY <3>4, <3>5
  <2>3. Is(h, Up(k + 1))
    <3>1. h = [s \in Up(k + 1) |-> h[s]]
      OBVIOUS
    <3> HIDE DEF h, Up
    <3> QED
      BY <2>2, <3>1
  <2> HIDE DEF h, Is, Up
  <2> QED
    BY <2>3
<1>4. n \in S
  <2> HIDE DEF S
  <2> QED
    BY <1>2, <1>3, CountUp
<1>5. Up(n) = SUBSET D
  BY <1>1
<1> DEFINE sums == CHOOSE g : Is(g, SUBSET D)
<1>6. Is(sums, SUBSET D)
  BY <1>4, <1>5
<1>7. SumFunction(f) = sums[D]
  BY DEF SumFunction, SumFunctionOnSet, FoldFunctionOnSet, MapThenFoldSet, Pick
<1> HIDE DEF sums
<1>8. SumsOf(sums, f, n)
  <2>1. sums[{}] = 0
    BY <1>6
  <2>2. ASSUME NEW s \in SUBSET (1 .. n), s # {}
        PROVE  sums[s] = f[Pick(s)] + sums[s \ {Pick(s)}]
    BY <1>6, <2>2
  <2> QED
    BY <2>1, <2>2 DEF SumsOf
<1> QED
  BY <1>7, <1>8

(* A sum of numbers is a number.                                           *)
LEMMA SumNat ==
    ASSUME NEW n \in Nat, NEW f, Numbers(f, n)
    PROVE  SumFunction(f) \in Nat
<1>1. PICK g : SumsOf(g, f, n) /\ SumFunction(f) = g[1 .. n]
  BY SumSteps DEF Numbers
<1> DEFINE T == {s \in SUBSET (1 .. n) : g[s] \in Nat}
<1>2. {} \in T
  BY <1>1 DEF SumsOf
<1>3. ASSUME NEW s \in SUBSET (1 .. n), s # {}, s \ {Pick(s)} \in T PROVE s \in T
  <2>1. Pick(s) \in 1 .. n
    BY <1>3 DEF Pick
  <2>2. g[s] = f[Pick(s)] + g[s \ {Pick(s)}]
    BY <1>1, <1>3 DEF SumsOf
  <2>3. f[Pick(s)] \in Nat /\ g[s \ {Pick(s)}] \in Nat
    BY <1>3, <2>1 DEF Numbers
  <2> QED
    BY <2>2, <2>3
<1>4. SUBSET (1 .. n) \subseteq T
  <2> HIDE DEF T
  <2> QED
    BY <1>2, <1>3, TakeOut
<1> QED
  BY <1>1, <1>4

(* A sum of zeros is zero.                                                 *)
LEMMA SumZero ==
    ASSUME NEW n \in Nat, NEW f, DOMAIN f = 1 .. n, \A i \in 1 .. n : f[i] = 0
    PROVE  SumFunction(f) = 0
<1>1. PICK g : SumsOf(g, f, n) /\ SumFunction(f) = g[1 .. n]
  BY SumSteps
<1> DEFINE T == {s \in SUBSET (1 .. n) : g[s] = 0}
<1>2. {} \in T
  BY <1>1 DEF SumsOf
<1>3. ASSUME NEW s \in SUBSET (1 .. n), s # {}, s \ {Pick(s)} \in T PROVE s \in T
  <2>1. Pick(s) \in 1 .. n
    BY <1>3 DEF Pick
  <2>2. g[s] = f[Pick(s)] + g[s \ {Pick(s)}]
    BY <1>1, <1>3 DEF SumsOf
  <2> QED
    BY <1>3, <2>1, <2>2
<1>4. SUBSET (1 .. n) \subseteq T
  <2> HIDE DEF T
  <2> QED
    BY <1>2, <1>3, TakeOut
<1> QED
  BY <1>1, <1>4

(* When one number changes, the sum changes by as much.                    *)
LEMMA SumChange ==
    ASSUME NEW n \in Nat, NEW f, NEW h, Numbers(f, n), Numbers(h, n),
           NEW w \in 1 .. n, \A i \in 1 .. n : i # w => h[i] = f[i]
    PROVE  SumFunction(h) = SumFunction(f) - f[w] + h[w]
<1>1. PICK a : SumsOf(a, f, n) /\ SumFunction(f) = a[1 .. n]
  BY SumSteps DEF Numbers
<1>2. PICK b : SumsOf(b, h, n) /\ SumFunction(h) = b[1 .. n]
  BY SumSteps DEF Numbers
<1> DEFINE T == {s \in SUBSET (1 .. n) :
                    /\ a[s] \in Int /\ b[s] \in Int
                    /\ b[s] = a[s] + IF w \in s THEN h[w] - f[w] ELSE 0}
<1>3. {} \in T
  BY <1>1, <1>2 DEF SumsOf
<1>4. ASSUME NEW s \in SUBSET (1 .. n), s # {}, s \ {Pick(s)} \in T PROVE s \in T
  <2> DEFINE p == Pick(s)
             r == s \ {p}
  <2>1. p \in s /\ p \in 1 .. n
    BY <1>4 DEF Pick
  <2>2. a[s] = f[p] + a[r] /\ b[s] = h[p] + b[r]
    BY <1>1, <1>2, <1>4 DEF SumsOf
  <2>3. a[r] \in Int /\ b[r] \in Int /\ b[r] = a[r] + IF w \in r THEN h[w] - f[w] ELSE 0
    BY <1>4
  <2>4. f[p] \in Nat /\ h[p] \in Nat /\ f[w] \in Nat /\ h[w] \in Nat
    BY <2>1 DEF Numbers
  <2>5. CASE p = w
    <3>1. w \notin r /\ w \in s
      BY <2>1, <2>5
    <3> HIDE DEF p, r
    <3>2. b[s] = a[s] + (h[w] - f[w])
      BY <2>2, <2>3, <2>4, <2>5, <3>1
    <3> QED
      BY <2>2, <2>3, <2>4, <3>1, <3>2
  <2>6. CASE p # w
    <3>1. (w \in r <=> w \in s) /\ h[p] = f[p]
      BY <2>1, <2>6
    <3> HIDE DEF p, r
    <3> QED
      BY <2>2, <2>3, <2>4, <3>1
  <2> QED
    BY <2>5, <2>6
<1>5. SUBSET (1 .. n) \subseteq T
  <2> HIDE DEF T
  <2> QED
    BY <1>3, <1>4, TakeOut
<1>6. 1 .. n \in T
  BY <1>5
<1>7. f[w] \in Nat /\ h[w] \in Nat
  BY DEF Numbers
<1> QED
  BY <1>1, <1>2, <1>6, <1>7

(* No summand is more than the sum.                                        *)
LEMMA SumBound ==
    ASSUME NEW n \in Nat, NEW f, Numbers(f, n), NEW w \in 1 .. n
    PROVE  f[w] <= SumFunction(f)
<1> DEFINE h == [i \in 1 .. n |-> IF i = w THEN 0 ELSE f[i]]
<1>1. Numbers(h, n) /\ (\A i \in 1 .. n : i # w => h[i] = f[i]) /\ h[w] = 0
  BY DEF Numbers
<1>2. f[w] \in Nat
  BY DEF Numbers
<1> HIDE DEF h
<1>3. SumFunction(h) = SumFunction(f) - f[w] + h[w]
  BY <1>1, SumChange
<1>4. SumFunction(h) \in Nat /\ SumFunction(f) \in Nat
  BY <1>1, SumNat
<1> QED
  BY <1>1, <1>2, <1>3, <1>4

-----------------------------------------------------------------------------
(* Batches of rows, and their bytes.                                       *)

IsRows(b) == \E S : b \in Seq(S)
IsHeld(h) == \E S : h \in Seq(Seq(S))
IsMorsels(m) == \E S : m \in Seq(Seq(Seq(S)))

(* c[i] is what the first i batches of h hold together.                    *)
Joined(c, h, S) ==
    /\ c[0] = <<>>
    /\ \A i \in 0 .. Len(h) : c[i] \in Seq(S)
    /\ \A i \in 1 .. Len(h) : c[i] = c[i - 1] \o h[i]

(* concat_batches appends one batch after the other.                       *)
LEMMA ConcatSteps ==
    ASSUME NEW S, NEW h \in Seq(Seq(S))
    PROVE  \E c : Joined(c, h, S) /\ Concat(h) = c[Len(h)]
<1>1. Len(h) \in Nat /\ \A i \in 1 .. Len(h) : h[i] \in Seq(S)
  OBVIOUS
<1>2. CASE Len(h) = 0
  <2> DEFINE c == [i \in 0 .. 0 |-> <<>>]
  <2>1. c[0] = <<>> /\ <<>> \in Seq(S)
    OBVIOUS
  <2>2. \A i \in 0 .. Len(h) : i = 0
    BY <1>2
  <2>3. \A i \in 1 .. Len(h) : FALSE
    BY <1>2
  <2>4. Joined(c, h, S)
    BY <2>1, <2>2, <2>3 DEF Joined
  <2>5. Concat(h) = h
    BY <1>2 DEF Concat, FlattenSeq
  <2>6. h = <<>>
    BY <1>2
  <2> QED
    BY <1>2, <2>1, <2>4, <2>5, <2>6
<1>3. CASE Len(h) # 0
  <2> DEFINE N == Len(h)
             Is(g, n) == g = [i \in 1 .. n |-> IF i = 1 THEN h[i] ELSE g[i - 1] \o h[i]]
             T == {n \in Nat : n # 0 => \E g : Is(g, n)}
  <2>1. 0 \in T
    OBVIOUS
  <2>2. ASSUME NEW n \in Nat, n \in T PROVE n + 1 \in T
    <3>1. CASE n = 0
      <4> DEFINE g == [i \in 1 .. 1 |-> h[1]]
      <4>1. Is(g, 1)
        OBVIOUS
      <4> HIDE DEF g
      <4>2. \E f : Is(f, 0 + 1)
        BY <4>1
      <4> HIDE DEF Is
      <4> QED
        BY <3>1, <4>2
    <3>2. CASE n # 0
      <4>1. PICK g : Is(g, n)
        BY <2>2, <3>2
      <4> DEFINE f == [i \in 1 .. n + 1 |-> IF i = n + 1 THEN g[n] \o h[n + 1] ELSE g[i]]
      <4>2. ASSUME NEW i \in 1 .. n + 1
            PROVE  f[i] = IF i = 1 THEN h[i] ELSE f[i - 1] \o h[i]
        <5>1. CASE i = n + 1
          <6>1. i # 1 /\ i - 1 = n /\ n \in 1 .. n + 1 /\ n # n + 1
            BY <3>2, <5>1
          <6> QED
            BY <5>1, <6>1
        <5>2. CASE i # n + 1
          <6>1. i \in 1 .. n /\ f[i] = g[i]
            BY <5>2
          <6>2. g[i] = IF i = 1 THEN h[i] ELSE g[i - 1] \o h[i]
            BY <4>1, <6>1
          <6>3. i # 1 => i - 1 \in 1 .. n + 1 /\ i - 1 # n + 1
            BY <6>1
          <6>4. i # 1 => f[i - 1] = g[i - 1]
            BY <6>3
          <6> QED
            BY <6>1, <6>2, <6>4
        <5> QED
          BY <5>1, <5>2
      <4>3. Is(f, n + 1)
        <5>1. f = [i \in 1 .. n + 1 |-> f[i]]
          OBVIOUS
        <5> HIDE DEF f
        <5> QED
          BY <4>2, <5>1
      <4> HIDE DEF f, Is
      <4> QED
        BY <4>3
    <3> QED
      BY <3>1, <3>2
  <2>3. N \in T
    <3> HIDE DEF T
    <3> QED
      BY <1>1, <2>1, <2>2, CountUp
  <2> DEFINE g == CHOOSE g : Is(g, N)
  <2>4. Is(g, N)
    BY <1>3, <2>3
  <2>5. Concat(h) = g[N]
    BY <1>3 DEF Concat, FlattenSeq
  <2> HIDE DEF g
  <2> DEFINE c == [i \in 0 .. N |-> IF i = 0 THEN <<>> ELSE g[i]]
  <2>6. c[0] = <<>>
    BY <1>1
  <2>7. ASSUME NEW i \in 1 .. N PROVE c[i] = c[i - 1] \o h[i]
    <3>1. c[i] = g[i]
      BY <1>1
    <3>2. g[i] = IF i = 1 THEN h[i] ELSE g[i - 1] \o h[i]
      BY <2>4
    <3>3. CASE i = 1
      <4>1. i - 1 = 0 /\ h[i] \in Seq(S) /\ c[i - 1] = <<>>
        BY <1>1, <2>6, <3>3
      <4>2. <<>> \o h[i] = h[i]
        BY <4>1
      <4> HIDE DEF c
      <4> QED
        BY <3>1, <3>2, <3>3, <4>1, <4>2
    <3>4. CASE i # 1
      <4>1. i - 1 \in 0 .. N /\ i - 1 # 0
        BY <1>1, <3>4
      <4>2. c[i - 1] = g[i - 1]
        BY <4>1
      <4> QED
        BY <3>1, <3>2, <3>4, <4>2
    <3> QED
      BY <3>3, <3>4
  <2> HIDE DEF c
  <2>8. \A i \in 0 .. N : c[i] \in Seq(S)
    <3> DEFINE U == {i \in Nat : i <= N => c[i] \in Seq(S)}
    <3>1. 0 \in U
      <4>1. <<>> \in Seq(S)
        OBVIOUS
      <4> QED
        BY <2>6, <4>1
    <3>2. ASSUME NEW i \in Nat, i \in U PROVE i + 1 \in U
      <4> SUFFICES ASSUME i + 1 <= N PROVE c[i + 1] \in Seq(S)
        OBVIOUS
      <4>1. i + 1 \in 1 .. N /\ (i + 1) - 1 = i /\ i <= N
        BY <1>1
      <4>2. c[i + 1] = c[i] \o h[i + 1]
        BY <2>7, <4>1
      <4>3. c[i] \in Seq(S) /\ h[i + 1] \in Seq(S)
        BY <1>1, <3>2, <4>1
      <4> QED
        BY <4>2, <4>3
    <3>3. Nat \subseteq U
      <4> HIDE DEF U
      <4> QED
        BY <3>1, <3>2, CountUp
    <3> QED
      BY <1>1, <3>3
  <2>9. Joined(c, h, S)
    BY <2>6, <2>7, <2>8 DEF Joined
  <2>10. Concat(h) = c[Len(h)]
    BY <1>1, <1>3, <2>5 DEF c
  <2> QED
    BY <2>9, <2>10
<1> QED
  BY <1>2, <1>3

(* What is held is one sequence of rows, and its bytes are their number.   *)
LEMMA ConcatSeq ==
    ASSUME NEW S, NEW h \in Seq(Seq(S))
    PROVE  Concat(h) \in Seq(S) /\ Bytes(h) \in Nat
<1>1. PICK c : Joined(c, h, S) /\ Concat(h) = c[Len(h)]
  BY ConcatSteps
<1>2. Len(h) \in 0 .. Len(h)
  OBVIOUS
<1>3. Concat(h) \in Seq(S)
  BY <1>1, <1>2 DEF Joined
<1> QED
  BY <1>3 DEF Bytes

(* What a sink holds has a number of bytes, and is rows.                   *)
LEMMA HeldBytes ==
    ASSUME NEW h, IsHeld(h)
    PROVE  Bytes(h) \in Nat /\ IsRows(Concat(h))
BY ConcatSeq DEF IsHeld, IsRows

(* An empty sink holds nothing.                                            *)
LEMMA NothingHeld == IsHeld(<<>>) /\ Bytes(<<>>) = 0 /\ Concat(<<>>) = <<>>
<1>1. <<>> \in Seq(Seq({}))
  OBVIOUS
<1>2. PICK c : Joined(c, <<>>, {}) /\ Concat(<<>>) = c[Len(<<>>)]
  BY <1>1, ConcatSteps
<1> QED
  BY <1>1, <1>2 DEF Joined, IsHeld, Bytes

(* One more batch adds its rows.                                           *)
LEMMA ConcatAppend ==
    ASSUME NEW S, NEW h \in Seq(Seq(S)), NEW b \in Seq(S)
    PROVE  Concat(Append(h, b)) = Concat(h) \o b
<1> DEFINE a == Append(h, b)
           N == Len(h)
<1>1. /\ a \in Seq(Seq(S)) /\ Len(a) = N + 1 /\ a[N + 1] = b
      /\ N \in Nat /\ \A i \in 1 .. N : a[i] = h[i]
  OBVIOUS
<1> HIDE DEF a
<1>2. PICK c : Joined(c, h, S) /\ Concat(h) = c[N]
  BY ConcatSteps
<1>3. PICK d : Joined(d, a, S) /\ Concat(a) = d[N + 1]
  BY <1>1, ConcatSteps
<1> DEFINE U == {i \in Nat : i <= N => d[i] = c[i]}
<1>4. 0 \in U
  BY <1>2, <1>3 DEF Joined
<1>5. ASSUME NEW i \in Nat, i \in U PROVE i + 1 \in U
  <2> SUFFICES ASSUME i + 1 <= N PROVE d[i + 1] = c[i + 1]
    OBVIOUS
  <2>1. i + 1 \in 1 .. N /\ i + 1 \in 1 .. N + 1 /\ (i + 1) - 1 = i /\ i <= N
    BY <1>1
  <2>2. c[i + 1] = c[i] \o h[i + 1]
    BY <1>2, <2>1 DEF Joined
  <2>3. d[i + 1] = d[i] \o a[i + 1]
    BY <1>1, <1>3, <2>1 DEF Joined
  <2>4. d[i] = c[i]
    BY <1>5, <2>1
  <2> QED
    BY <1>1, <2>1, <2>2, <2>3, <2>4
<1>6. Nat \subseteq U
  <2> HIDE DEF U
  <2> QED
    BY <1>4, <1>5, CountUp
<1>7. d[N] = c[N]
  BY <1>1, <1>6
<1>8. d[N + 1] = d[N] \o b
  <2>1. N + 1 \in 1 .. N + 1 /\ (N + 1) - 1 = N
    BY <1>1
  <2> QED
    BY <1>1, <1>3, <2>1 DEF Joined
<1> QED
  BY <1>2, <1>3, <1>7, <1>8 DEF a

(* One more batch adds its bytes.                                          *)
LEMMA AppendBytes ==
    ASSUME NEW S, NEW h \in Seq(Seq(S)), NEW b \in Seq(S)
    PROVE  Bytes(Append(h, b)) = Bytes(h) + Len(b)
<1>1. Concat(Append(h, b)) = Concat(h) \o b
  BY ConcatAppend
<1>2. Concat(h) \in Seq(S)
  BY ConcatSeq
<1>3. Len(Concat(h) \o b) = Len(Concat(h)) + Len(b)
  BY <1>2
<1> QED
  BY <1>1, <1>3 DEF Bytes

(* A batch alone.                                                          *)
LEMMA OneBatch ==
    ASSUME NEW b, IsRows(b)
    PROVE  IsHeld(<<b>>) /\ Bytes(<<b>>) = Len(b)
<1>1. PICK S : b \in Seq(S)
  BY DEF IsRows
<1>2. <<b>> = Append(<<>>, b) /\ <<>> \in Seq(Seq(S)) /\ <<b>> \in Seq(Seq(S))
  BY <1>1
<1>3. Bytes(Append(<<>>, b)) = Bytes(<<>>) + Len(b)
  BY <1>1, <1>2, AppendBytes
<1>4. Len(b) \in Nat
  BY <1>1
<1>5. Bytes(<<b>>) = 0 + Len(b)
  BY <1>2, <1>3, NothingHeld
<1> QED
  BY <1>2, <1>4, <1>5 DEF IsHeld

(* Rows appended to what is held.                                          *)
LEMMA AppendHeld ==
    ASSUME NEW h, NEW b, IsHeld(h), IsRows(b)
    PROVE  IsHeld(Append(h, b)) /\ Bytes(Append(h, b)) = Bytes(h) + Len(b) /\ Len(b) \in Nat
<1>1. PICK S : h \in Seq(Seq(S))
  BY DEF IsHeld
<1>2. PICK R : b \in Seq(R)
  BY DEF IsRows
<1> DEFINE U == S \cup R
<1>3. Seq(S) \subseteq Seq(U) /\ b \in Seq(U)
  BY <1>2, SeqMonotonic
<1>4. h \in Seq(Seq(U))
  <2> HIDE DEF U
  <2> QED
    BY <1>1, <1>3, SeqMonotonic
<1> HIDE DEF U
<1>5. Append(h, b) \in Seq(Seq(U)) /\ Len(b) \in Nat
  BY <1>3, <1>4
<1>6. Bytes(Append(h, b)) = Bytes(h) + Len(b)
  BY <1>3, <1>4, AppendBytes
<1> QED
  BY <1>5, <1>6 DEF IsHeld

(* Two sequences of rows make one.                                         *)
LEMMA Together ==
    ASSUME NEW a, NEW b, IsRows(a), IsRows(b)
    PROVE  IsRows(a \o b) /\ Len(a \o b) = Len(a) + Len(b) /\ Len(a) \in Nat /\ Len(b) \in Nat
<1>1. PICK S : a \in Seq(S)
  BY DEF IsRows
<1>2. PICK R : b \in Seq(R)
  BY DEF IsRows
<1>3. a \in Seq(S \cup R) /\ b \in Seq(S \cup R)
  BY <1>1, <1>2, SeqMonotonic
<1>4. a \o b \in Seq(S \cup R) /\ Len(a \o b) = Len(a) + Len(b)
  BY <1>3
<1> QED
  BY <1>3, <1>4 DEF IsRows

(* A function on 1 .. n is a sequence of n rows.                           *)
LEMMA RowsByIndex ==
    ASSUME NEW b, NEW n \in Nat, DOMAIN b = 1 .. n, b = [i \in 1 .. n |-> b[i]]
    PROVE  IsRows(b) /\ Len(b) = n
<1> DEFINE S == {b[i] : i \in 1 .. n}
<1>1. b \in [1 .. n -> S]
  OBVIOUS
<1> HIDE DEF S
<1>2. b \in Seq(S) /\ Len(b) = n
  BY <1>1
<1> QED
  BY <1>2 DEF IsRows

-----------------------------------------------------------------------------
(* The sinks.                                                              *)

(* The smaller of two numbers is one of them.                              *)
LEMMA MinIs ==
    ASSUME NEW a \in Int, NEW b \in Int
    PROVE  LET m == Min({a, b}) IN m \in {a, b} /\ m <= a /\ m <= b
<1>1. \E x \in {a, b} : \A y \in {a, b} : x =< y
  <2>1. CASE a <= b
    BY <2>1
  <2>2. CASE b <= a
    BY <2>2
  <2> QED
    BY <2>1, <2>2
<1> QED
  BY <1>1 DEF Min

(* The larger of two numbers is one of them.                               *)
LEMMA MaxIs ==
    ASSUME NEW a \in Int, NEW b \in Int
    PROVE  LET m == Max({a, b}) IN m \in {a, b} /\ m >= a /\ m >= b
<1>1. \E x \in {a, b} : \A y \in {a, b} : x >= y
  <2>1. CASE a <= b
    BY <2>1
  <2>2. CASE b <= a
    BY <2>2
  <2> QED
    BY <2>1, <2>2
<1> QED
  BY <1>1 DEF Max

(* A part of a sequence is a sequence.                                     *)
LEMMA PartRows ==
    ASSUME NEW s, NEW m \in Int, NEW n \in Int
    PROVE  /\ IsRows(SubSeq(s, m, n))
           /\ Len(SubSeq(s, m, n)) = IF m <= n THEN n - m + 1 ELSE 0
<1> DEFINE S == {s[i] : i \in m .. n}
<1>1. \A i \in m .. n : s[i] \in S
  OBVIOUS
<1> HIDE DEF S
<1>2. /\ SubSeq(s, m, n) \in Seq(S)
      /\ Len(SubSeq(s, m, n)) = IF m <= n THEN n - m + 1 ELSE 0
  BY <1>1, SubSeqProperties
<1> QED
  BY <1>2 DEF IsRows

(* slice_batch takes no more rows than there are.                          *)
LEMMA FirstRowsBound ==
    ASSUME NEW rows, IsRows(rows), NEW n \in Nat
    PROVE  IsRows(FirstRows(rows, n)) /\ Len(FirstRows(rows, n)) <= Len(rows)
<1> DEFINE m == Min({n, Len(rows)})
<1>1. Len(rows) \in Nat
  BY DEF IsRows
<1>2. m \in Nat /\ m <= Len(rows)
  BY <1>1, MinIs
<1> HIDE DEF m
<1>3. /\ IsRows(SubSeq(rows, 1, m))
      /\ Len(SubSeq(rows, 1, m)) = IF 1 <= m THEN m - 1 + 1 ELSE 0
  BY <1>2, PartRows
<1> QED
  BY <1>1, <1>2, <1>3 DEF FirstRows, m

(* Sorting keeps the number of rows.                                       *)
LEMMA SortRows ==
    ASSUME NEW rows, IsRows(rows)
    PROVE  IsRows(StableSort(rows)) /\ Len(StableSort(rows)) = Len(rows)
<1> DEFINE b == StableSort(rows)
           n == Len(rows)
<1>1. n \in Nat /\ DOMAIN rows = 1 .. n
  BY DEF IsRows
<1>2. DOMAIN b = 1 .. n /\ b = [i \in 1 .. n |-> b[i]]
  BY <1>1 DEF StableSort
<1> HIDE DEF b, n
<1>3. IsRows(b) /\ Len(b) = n
  BY <1>1, <1>2, RowsByIndex
<1> QED
  BY <1>3 DEF b, n

(* Batches that are each a sequence of rows.                               *)
LEMMA HeldByIndex ==
    ASSUME NEW h, NEW n \in Nat, DOMAIN h = 1 .. n, h = [i \in 1 .. n |-> h[i]],
           \A i \in 1 .. n : IsRows(h[i])
    PROVE  IsHeld(h)
<1> DEFINE at(i) == {h[i][x] : x \in 1 .. Len(h[i])}
           U == UNION {at(i) : i \in 1 .. n}
<1>1. ASSUME NEW i \in 1 .. n PROVE h[i] \in Seq(U)
  <2>1. PICK S : h[i] \in Seq(S)
    BY DEF IsRows
  <2>2. /\ Len(h[i]) \in Nat
        /\ h[i] \in [1 .. Len(h[i]) -> S]
    BY <2>1
  <2>3. \A x \in 1 .. Len(h[i]) : h[i][x] \in U
    OBVIOUS
  <2> HIDE DEF U
  <2>4. h[i] \in [1 .. Len(h[i]) -> U]
    BY <2>2, <2>3
  <2> QED
    BY <2>2, <2>4
<1> HIDE DEF U
<1>2. h \in [1 .. n -> Seq(U)]
  BY <1>1
<1>3. h \in Seq(Seq(U))
  BY <1>2
<1> QED
  BY <1>3 DEF IsHeld

(* rechunk makes batches.                                                  *)
LEMMA RechunkHeld ==
    ASSUME NEW rows, IsRows(rows)
    PROVE  IsHeld(Rechunk(rows))
<1> DEFINE n == (Len(rows) + BatchRows - 1) \div BatchRows
           h == Rechunk(rows)
<1>1. Len(rows) \in Nat /\ BatchRows \in Nat /\ BatchRows # 0
  BY SinksAssumption DEF IsRows
<1>2. n \in Nat
  BY <1>1
<1>3. DOMAIN h = 1 .. n /\ h = [i \in 1 .. n |-> h[i]]
  BY DEF Rechunk
<1>4. ASSUME NEW i \in 1 .. n PROVE IsRows(h[i])
  <2> DEFINE first == (i - 1) * BatchRows + 1
             end == i * BatchRows
             last == Min({end, Len(rows)})
  <2>1. first \in Int /\ end \in Int
    BY <1>1, <1>2
  <2>2. last \in Int
    <3> HIDE DEF end, first
    <3>1. Len(rows) \in Int
      BY <1>1
    <3> QED
      BY <2>1, <3>1, MinIs
  <2>3. h[i] = SubSeq(rows, first, last)
    BY DEF Rechunk
  <2> HIDE DEF h, first, last
  <2> QED
    BY <2>1, <2>2, <2>3, PartRows
<1> HIDE DEF h, n
<1>5. IsHeld(h)
  BY <1>2, <1>3, <1>4, HeldByIndex
<1> QED
  BY <1>5 DEF h

(* kept[i] is what the first i rows leave of those in P.                   *)
KeptSteps(kept, rows, P) ==
    /\ kept[0] = <<>>
    /\ \A i \in 1 .. Len(rows) :
          kept[i] = IF rows[i] \in P THEN Append(kept[i - 1], rows[i]) ELSE kept[i - 1]

(* The rows in a set are found one after the other.                        *)
LEMMA RowsInSteps ==
    ASSUME NEW rows, NEW P, Len(rows) \in Nat
    PROVE  \E kept : KeptSteps(kept, rows, P) /\ RowsIn(rows, P) = kept[Len(rows)]
<1> DEFINE N == Len(rows)
           F(b, i) == IF rows[i] \in P THEN Append(b, rows[i]) ELSE b
           Is(g, n) == g = [i \in 0 .. n |-> IF i = 0 THEN <<>> ELSE F(g[i - 1], i)]
           T == {n \in Nat : \E g : Is(g, n)}
<1>2. N \in Nat
  OBVIOUS
<1> HIDE DEF F
<1>3. 0 \in T
  <2> DEFINE g == [i \in 0 .. 0 |-> <<>>]
  <2>1. Is(g, 0)
    OBVIOUS
  <2> HIDE DEF g, Is
  <2> QED
    BY <2>1
<1>4. ASSUME NEW n \in Nat, n \in T PROVE n + 1 \in T
  <2>1. PICK g : Is(g, n)
    BY <1>4
  <2> DEFINE h == [i \in 0 .. n + 1 |-> IF i = n + 1 THEN F(g[n], n + 1) ELSE g[i]]
  <2>2. ASSUME NEW i \in 0 .. n + 1
        PROVE  h[i] = IF i = 0 THEN <<>> ELSE F(h[i - 1], i)
    <3>1. CASE i = n + 1
      <4>1. i # 0 /\ i - 1 = n /\ n \in 0 .. n + 1 /\ n # n + 1
        BY <3>1
      <4> QED
        BY <3>1, <4>1
    <3>2. CASE i # n + 1
      <4>1. i \in 0 .. n /\ h[i] = g[i]
        BY <3>2
      <4>2. g[i] = IF i = 0 THEN <<>> ELSE F(g[i - 1], i)
        BY <2>1, <4>1
      <4>3. i # 0 => i - 1 \in 0 .. n + 1 /\ i - 1 # n + 1
        BY <4>1
      <4>4. i # 0 => h[i - 1] = g[i - 1]
        BY <4>3
      <4> QED
        BY <4>1, <4>2, <4>4
    <3> QED
      BY <3>1, <3>2
  <2>3. Is(h, n + 1)
    <3>1. h = [i \in 0 .. n + 1 |-> h[i]]
      OBVIOUS
    <3> HIDE DEF h
    <3> QED
      BY <2>2, <3>1
  <2> HIDE DEF h, Is
  <2> QED
    BY <2>3
<1>5. N \in T
  <2> HIDE DEF T, N
  <2> QED
    BY <1>2, <1>3, <1>4, CountUp
<1> DEFINE kept == CHOOSE g : Is(g, N)
<1>6. Is(kept, N)
  BY <1>5
<1>7. RowsIn(rows, P) = kept[N]
  BY DEF RowsIn, F
<1> HIDE DEF kept
<1>8. kept[0] = <<>>
  BY <1>2, <1>6
<1>9. ASSUME NEW i \in 1 .. N PROVE kept[i] = F(kept[i - 1], i)
  <2>1. i \in 0 .. N /\ i # 0
    BY <1>2
  <2> QED
    BY <1>6, <2>1
<1>10. KeptSteps(kept, rows, P)
  BY <1>8, <1>9 DEF KeptSteps, F
<1> QED
  BY <1>7, <1>10

(* They are a sequence of rows.                                            *)
LEMMA RowsInSeq ==
    ASSUME NEW S, NEW rows \in Seq(S), NEW P
    PROVE  RowsIn(rows, P) \in Seq(S)
<1> DEFINE N == Len(rows)
<1>1. N \in Nat /\ \A i \in 1 .. N : rows[i] \in S
  OBVIOUS
<1>2. PICK kept : KeptSteps(kept, rows, P) /\ RowsIn(rows, P) = kept[N]
  BY <1>1, RowsInSteps
<1> DEFINE U == {i \in Nat : i <= N => kept[i] \in Seq(S)}
<1>3. 0 \in U
  <2>1. <<>> \in Seq(S)
    OBVIOUS
  <2> QED
    BY <1>2, <2>1 DEF KeptSteps
<1>4. ASSUME NEW i \in Nat, i \in U PROVE i + 1 \in U
  <2> SUFFICES ASSUME i + 1 <= N PROVE kept[i + 1] \in Seq(S)
    OBVIOUS
  <2>1. i + 1 \in 1 .. N /\ (i + 1) - 1 = i /\ i <= N
    BY <1>1
  <2>2. kept[i + 1] = IF rows[i + 1] \in P THEN Append(kept[i], rows[i + 1]) ELSE kept[i]
    BY <1>2, <2>1 DEF KeptSteps
  <2>3. kept[i] \in Seq(S) /\ rows[i + 1] \in S
    BY <1>1, <1>4, <2>1
  <2> QED
    BY <2>2, <2>3
<1>5. Nat \subseteq U
  <2> HIDE DEF U
  <2> QED
    BY <1>3, <1>4, CountUp
<1> QED
  BY <1>1, <1>2, <1>5

(* Restricting rows to a set keeps them rows.                              *)
LEMMA RowsInRows ==
    ASSUME NEW rows, NEW P, IsRows(rows)
    PROVE  IsRows(RowsIn(rows, P))
BY RowsInSeq DEF IsRows

(* The filter and the groups are sequences of rows.                        *)
LEMMA FilteredRows ==
    ASSUME NEW stage, NEW batch, IsRows(batch)
    PROVE  IsRows(Filtered(stage, batch))
BY RowsInRows DEF Filtered

(* Groups are rows.                                                        *)
LEMMA GroupedRows ==
    ASSUME NEW rows, IsRows(rows)
    PROVE  IsRows(Grouped(rows))
<1> DEFINE First(i) == \A j \in 1 .. i - 1 : rows[j].key # rows[i].key
           all == [i \in DOMAIN rows |->
                     [id |-> 0, key |-> rows[i].key,
                      n |-> IF First(i) THEN CountOf(rows, rows[i].key) ELSE 0]]
           P == {r \in Range(all) : r.n > 0}
<1>1. Grouped(rows) = RowsIn(all, P)
  BY DEF Grouped
<1>2. Len(rows) \in Nat /\ DOMAIN rows = 1 .. Len(rows)
  BY DEF IsRows
<1> HIDE DEF First
<1>3. DOMAIN all = 1 .. Len(rows) /\ all = [i \in 1 .. Len(rows) |-> all[i]]
  BY <1>2
<1> HIDE DEF all, P
<1>4. IsRows(all)
  BY <1>2, <1>3, RowsByIndex
<1> QED
  BY <1>1, <1>4, RowsInRows

(* A sink keeps batches of rows, and no more rows of a batch than it has.  *)
(* An aggregate may hold less or more; the bound is not about it.          *)
LEMMA PushHeld ==
    ASSUME NEW stage \in StageType, NEW held, NEW batch, IsHeld(held), IsRows(batch)
    PROVE  /\ IsHeld(SinkPush(stage, held, batch))
           /\ stage.sink # "aggregate" =>
                Bytes(SinkPush(stage, held, batch)) <= Bytes(held) + Len(batch)
<1> DEFINE new == SinkPush(stage, held, batch)
           Fine(h) == IsHeld(h) /\ Bytes(h) <= Bytes(held) + Len(batch)
<1>1. Bytes(held) \in Nat /\ IsRows(Concat(held)) /\ Len(batch) \in Nat
  BY HeldBytes DEF IsRows
<1>2. Fine(held)
  BY <1>1
<1>3. /\ stage.sink \in {"collect", "sort", "limit", "topk", "aggregate"}
      /\ stage.limit \in Nat \cup {NoLimit} /\ stage.offset \in Nat /\ stage.k \in Nat
  BY DEF StageType
<1>4. CASE stage.sink \in {"collect", "sort"}
  <2>1. new = Append(held, batch)
    BY <1>4 DEF SinkPush
  <2>2. IsHeld(Append(held, batch)) /\ Bytes(Append(held, batch)) = Bytes(held) + Len(batch)
    BY AppendHeld
  <2> QED
    BY <1>1, <2>1, <2>2
<1>5. CASE stage.sink = "limit"
  <2> DEFINE rows == Len(Concat(held))
             room == IF rows > Bound(stage) THEN 0 ELSE Bound(stage) - rows
             kept == IF stage.limit = NoLimit THEN batch ELSE FirstRows(batch, room)
  <2>1. new = IF stage.limit = 0 \/ kept = <<>> THEN held ELSE Append(held, kept)
    BY <1>5 DEF SinkPush, LimitPush
  <2>2. stage.limit # NoLimit => room \in Nat
    <3>1. rows \in Nat
      BY <1>1 DEF IsRows
    <3> QED
      BY <1>3, <3>1 DEF Bound
  <2> HIDE DEF room
  <2>3. IsRows(kept) /\ Len(kept) <= Len(batch)
    BY <1>1, <2>2, FirstRowsBound
  <2> HIDE DEF kept
  <2>4. /\ IsHeld(Append(held, kept)) /\ Bytes(Append(held, kept)) = Bytes(held) + Len(kept)
        /\ Len(kept) \in Nat
    BY <2>3, AppendHeld
  <2>5. Fine(Append(held, kept))
    BY <1>1, <2>3, <2>4
  <2> QED
    BY <1>2, <2>1, <2>5
<1>6. CASE stage.sink = "topk"
  <2> DEFINE all == Concat(held) \o batch
             top == FirstRows(StableSort(all), stage.k)
  <2>1. new = IF stage.k = 0 THEN held ELSE <<top>>
    BY <1>6 DEF SinkPush, TopKPush
  <2>2. IsRows(all) /\ Len(all) = Len(Concat(held)) + Len(batch)
    BY <1>1, Together
  <2> HIDE DEF all
  <2>3. IsRows(StableSort(all)) /\ Len(StableSort(all)) = Len(all)
    BY <2>2, SortRows
  <2>4. IsRows(top) /\ Len(top) <= Len(StableSort(all))
    BY <1>3, <2>3, FirstRowsBound
  <2> HIDE DEF top
  <2>5. IsHeld(<<top>>) /\ Bytes(<<top>>) = Len(top)
    BY <2>4, OneBatch
  <2>6. Fine(<<top>>)
    BY <2>2, <2>3, <2>4, <2>5 DEF Bytes
  <2> QED
    BY <1>2, <2>1, <2>6
<1>7. CASE stage.sink = "aggregate"
  <2> DEFINE all == Concat(held) \o batch
             groups == Grouped(all)
  <2>1. new = <<groups>>
    BY <1>7 DEF SinkPush
  <2>2. IsRows(all)
    BY <1>1, Together
  <2> HIDE DEF all
  <2>3. IsRows(groups)
    BY <2>2, GroupedRows
  <2> HIDE DEF groups
  <2> QED
    BY <1>7, <2>1, <2>3, OneBatch
<1> QED
  BY <1>3, <1>4, <1>5, <1>6, <1>7

(* a[i] is what the sink holds after the first i batches of other.         *)
Merged(a, stage, held, other) ==
    /\ a[0] = held
    /\ \A i \in 1 .. Len(other) : a[i] = SinkPush(stage, a[i - 1], other[i])

(* A merge pushes the other partial's batches one after the other.         *)
LEMMA MergeSteps ==
    ASSUME NEW stage, NEW held, NEW other, Len(other) \in Nat, DOMAIN other = 1 .. Len(other)
    PROVE  \E a : /\ Merged(a, stage, held, other)
                  /\ SinkMerge(stage, held, other) = a[Len(other)]
<1> DEFINE N == Len(other)
           F(h, i) == SinkPush(stage, h, other[i])
           Latest(s) == CHOOSE x \in s : \A y \in s : x >= y
           Is(g, n) == g = [s \in SUBSET (1 .. n) |->
                              IF s = {} THEN held ELSE F(g[s \ {Latest(s)}], Latest(s))]
           T == {n \in Nat : \E g : Is(g, n)}
<1> HIDE DEF F
<1>1. ASSUME NEW n \in Nat, NEW s \in SUBSET (1 .. n + 1), n + 1 \in s
      PROVE  Latest(s) = n + 1
  <2>1. \A y \in s : n + 1 >= y
    OBVIOUS
  <2>2. \A x \in s : (\A y \in s : x >= y) => x = n + 1
    BY <1>1
  <2> QED
    BY <1>1, <2>1, <2>2
<1>2. 0 \in T
  <2> DEFINE g == [s \in SUBSET (1 .. 0) |-> held]
  <2>1. \A s \in SUBSET (1 .. 0) : s = {}
    OBVIOUS
  <2>2. Is(g, 0)
    BY <2>1
  <2> HIDE DEF g, Is
  <2> QED
    BY <2>2
<1>3. ASSUME NEW n \in Nat, n \in T PROVE n + 1 \in T
  <2>1. PICK g : Is(g, n)
    BY <1>3
  <2> DEFINE h == [s \in SUBSET (1 .. n + 1) |->
                     IF n + 1 \in s THEN F(g[s \ {n + 1}], n + 1) ELSE g[s]]
  <2>2. ASSUME NEW s \in SUBSET (1 .. n + 1)
        PROVE  h[s] = IF s = {} THEN held ELSE F(h[s \ {Latest(s)}], Latest(s))
    <3>1. CASE n + 1 \in s
      <4>1. Latest(s) = n + 1
        BY <1>1, <3>1
      <4>2. s \ {n + 1} \in SUBSET (1 .. n + 1) /\ n + 1 \notin s \ {n + 1}
        OBVIOUS
      <4>3. h[s \ {n + 1}] = g[s \ {n + 1}]
        BY <4>2
      <4>4. h[s] = F(g[s \ {n + 1}], n + 1) /\ s # {}
        BY <3>1
      <4> HIDE DEF h, Latest
      <4> QED
        BY <4>1, <4>3, <4>4
    <3>2. CASE n + 1 \notin s
      <4>1. s \in SUBSET (1 .. n)
        BY <3>2
      <4>2. g[s] = IF s = {} THEN held ELSE F(g[s \ {Latest(s)}], Latest(s))
        BY <2>1, <4>1
      <4>3. h[s] = g[s]
        BY <3>2
      <4>4. h[s \ {Latest(s)}] = g[s \ {Latest(s)}]
        <5>1. s \ {Latest(s)} \in SUBSET (1 .. n + 1) /\ n + 1 \notin s \ {Latest(s)}
          BY <3>2
        <5> HIDE DEF Latest
        <5> QED
          BY <5>1
      <4> HIDE DEF h, Latest
      <4> QED
        BY <4>2, <4>3, <4>4
    <3> QED
      BY <3>1, <3>2
  <2>3. Is(h, n + 1)
    <3>1. h = [s \in SUBSET (1 .. n + 1) |-> h[s]]
      OBVIOUS
    <3> HIDE DEF h, Latest
    <3> QED
      BY <2>2, <3>1
  <2> HIDE DEF h, Is
  <2> QED
    BY <2>3
<1>4. N \in T
  <2> HIDE DEF T, N
  <2>1. N \in Nat
    BY DEF N
  <2> QED
    BY <1>2, <1>3, <2>1, CountUp
<1> DEFINE g == CHOOSE g : Is(g, N)
<1>5. Is(g, N)
  BY <1>4
<1>6. SinkMerge(stage, held, other) = g[1 .. N]
  BY DEF SinkMerge, FoldLeft, MapThenFoldSet, Max, F
<1> HIDE DEF g
<1> DEFINE a == [i \in 0 .. N |-> g[1 .. i]]
<1>7. a[0] = held
  <2>1. 1 .. 0 = {} /\ {} \in SUBSET (1 .. N) /\ 0 \in 0 .. N
    OBVIOUS
  <2> QED
    BY <1>5, <2>1
<1>8. ASSUME NEW i \in 1 .. N PROVE a[i] = SinkPush(stage, a[i - 1], other[i])
  <2>1. i \in 0 .. N /\ i - 1 \in 0 .. N /\ i - 1 \in Nat /\ (i - 1) + 1 = i
    OBVIOUS
  <2>2. 1 .. i \in SUBSET (1 .. N) /\ i \in 1 .. i /\ (1 .. i) \ {i} = 1 .. (i - 1)
    OBVIOUS
  <2>3. Latest(1 .. i) = i
    <3>1. 1 .. i \in SUBSET (1 .. (i - 1) + 1) /\ (i - 1) + 1 \in 1 .. i
      BY <2>1
    <3> HIDE DEF Latest
    <3> QED
      BY <1>1, <2>1, <3>1
  <2> HIDE DEF Latest
  <2>4. g[1 .. i] = F(g[1 .. (i - 1)], i)
    BY <1>5, <2>2, <2>3
  <2>5. a[i] = g[1 .. i] /\ a[i - 1] = g[1 .. (i - 1)]
    BY <2>1
  <2> HIDE DEF a
  <2> QED
    BY <2>4, <2>5 DEF F
<1>9. N \in 0 .. N
  OBVIOUS
<1>10. a[N] = g[1 .. N]
  BY <1>9
<1> HIDE DEF a
<1> QED
  BY <1>6, <1>7, <1>8, <1>10 DEF Merged

(* Merging two partials takes no more bytes than both had; for an          *)
(* aggregate, only that it is a partial again.                             *)
LEMMA MergeHeld ==
    ASSUME NEW stage \in StageType, NEW held, NEW other, IsHeld(held), IsHeld(other)
    PROVE  /\ IsHeld(SinkMerge(stage, held, other))
           /\ stage.sink # "aggregate" =>
                Bytes(SinkMerge(stage, held, other)) <= Bytes(held) + Bytes(other)
<1> DEFINE N == Len(other)
<1>1. PICK S : other \in Seq(Seq(S))
  BY DEF IsHeld
<1>2. N \in Nat /\ DOMAIN other = 1 .. N /\ \A i \in 1 .. N : other[i] \in Seq(S)
  BY <1>1
<1>3. PICK c : Joined(c, other, S) /\ Concat(other) = c[N]
  BY <1>1, ConcatSteps
<1>4. PICK a : Merged(a, stage, held, other) /\ SinkMerge(stage, held, other) = a[N]
  BY <1>2, MergeSteps
<1>5. Bytes(held) \in Nat
  BY HeldBytes
<1> DEFINE U == {i \in Nat : i <= N =>
                   /\ IsHeld(a[i])
                   /\ stage.sink # "aggregate" => Bytes(a[i]) <= Bytes(held) + Len(c[i])}
<1>6. 0 \in U
  <2>1. a[0] = held /\ c[0] = <<>>
    BY <1>3, <1>4 DEF Joined, Merged
  <2>2. Len(c[0]) = 0
    BY <2>1
  <2> QED
    BY <1>5, <2>1, <2>2
<1>7. ASSUME NEW i \in Nat, i \in U PROVE i + 1 \in U
  <2> SUFFICES ASSUME i + 1 <= N
               PROVE  /\ IsHeld(a[i + 1])
                      /\ stage.sink # "aggregate" =>
                            Bytes(a[i + 1]) <= Bytes(held) + Len(c[i + 1])
    OBVIOUS
  <2>1. i + 1 \in 1 .. N /\ i \in 0 .. N /\ (i + 1) - 1 = i /\ i <= N
    BY <1>2
  <2> DEFINE b == other[i + 1]
             new == SinkPush(stage, a[i], b)
  <2>2. a[i + 1] = new
    BY <1>4, <2>1 DEF Merged
  <2>3. c[i + 1] = c[i] \o b /\ c[i] \in Seq(S)
    BY <1>3, <2>1 DEF Joined
  <2>4. b \in Seq(S)
    BY <1>2, <2>1
  <2>5. IsRows(b)
    BY <2>4 DEF IsRows
  <2>6. /\ IsHeld(a[i])
        /\ stage.sink # "aggregate" => Bytes(a[i]) <= Bytes(held) + Len(c[i])
    BY <1>7, <2>1
  <2> HIDE DEF b, new
  <2>7. /\ IsHeld(new)
        /\ stage.sink # "aggregate" => Bytes(new) <= Bytes(a[i]) + Len(b)
    BY <2>5, <2>6, PushHeld DEF new
  <2>8. Len(c[i + 1]) = Len(c[i]) + Len(b) /\ Len(c[i]) \in Nat /\ Len(b) \in Nat
    BY <2>3, <2>4
  <2>9. Bytes(a[i]) \in Nat /\ Bytes(new) \in Nat
    BY <2>6, <2>7, HeldBytes
  <2>10. Bytes(held) \in Nat
    BY <1>5
  <2> DEFINE x == Bytes(new)
             y == Bytes(a[i])
             z == Bytes(held)
             p == Len(c[i + 1])
             q == Len(c[i])
             l == Len(b)
  <2>11. /\ stage.sink # "aggregate" => x <= y + l /\ y <= z + q
         /\ p = q + l /\ x \in Nat /\ y \in Nat /\ z \in Nat /\ q \in Nat /\ l \in Nat
    BY <2>6, <2>7, <2>8, <2>9, <2>10
  <2> HIDE DEF x, y, z, p, q, l
  <2>12. stage.sink # "aggregate" => x <= z + p
    BY <2>11
  <2> QED
    BY <2>2, <2>7, <2>12 DEF x, z, p
<1>8. Nat \subseteq U
  <2> HIDE DEF U
  <2> QED
    BY <1>6, <1>7, CountUp
<1>9. N \in U
  BY <1>2, <1>8
<1> QED
  BY <1>2, <1>3, <1>4, <1>9 DEF Bytes

(* What a sink returns is batches of rows.                                 *)
LEMMA FinishHeld ==
    ASSUME NEW stage \in StageType, NEW held, IsHeld(held)
    PROVE  IsHeld(SinkFinish(stage, held))
<1> DEFINE rows == Concat(held)
<1>1. IsRows(rows)
  BY HeldBytes
<1>2. SinkFinish(stage, held) \in
        {Rechunk(StableSort(rows)), Rechunk(SubSeq(rows, stage.offset + 1, Len(rows))),
         held, Rechunk(rows)}
  BY DEF SinkFinish
<1> HIDE DEF rows
<1>3. IsHeld(Rechunk(StableSort(rows))) /\ IsHeld(Rechunk(rows))
  BY <1>1, SortRows, RechunkHeld
<1>4. IsHeld(Rechunk(SubSeq(rows, stage.offset + 1, Len(rows))))
  <2>1. stage.offset + 1 \in Int /\ Len(rows) \in Int
    BY <1>1 DEF StageType, IsRows
  <2>2. IsRows(SubSeq(rows, stage.offset + 1, Len(rows)))
    BY <2>1, PartRows
  <2> QED
    BY <2>2, RechunkHeld
<1> QED
  BY <1>2, <1>3, <1>4

-----------------------------------------------------------------------------
(* The inductive invariant.                                                *)

(* What a sink has reserved is what it holds; a read in progress has bytes *)
(* of its own.  m is the number of morsels of the stage.                   *)
WorkerOK(x, m) ==
    /\ x = [pc |-> x.pc, morsel |-> x.morsel, todo |-> x.todo, held |-> x.held,
            res |-> x.res, reading |-> x.reading, raised |-> x.raised, err |-> x.err]
    /\ x.pc \in {"read", "reading"} => x.morsel \in 1 .. m
    /\ IsHeld(x.todo) /\ IsHeld(x.held)
    /\ x.res = Bytes(x.held)
    /\ x.reading \in Nat /\ (x.reading # 0 => x.pc = "reading")
    /\ x.raised \in Nat
PoolOK(ws, n, m) ==
    /\ DOMAIN ws = 1 .. n /\ ws = [w \in 1 .. n |-> ws[w]]
    /\ \A w \in 1 .. n : WorkerOK(ws[w], m)

StageInv ==
    /\ plan \in Plans /\ limit \in Nat /\ next \in Nat \ {0}
    /\ Len(sources) \in 1 .. Len(plan) /\ \E S : sources \in Seq(S)
    /\ IsMorsels(Morsels)
PoolInv == \E n \in Nat : PoolOK(workers, n, Len(Morsels)) /\ (Running => n # 0)

(* The merge starts when all workers are over; the partials it has taken   *)
(* are empty.                                                              *)
MergeInv ==
    merging # None =>
        /\ result = None
        /\ merging = [held |-> merging.held, res |-> merging.res, left |-> merging.left]
        /\ IsHeld(merging.held) /\ merging.res = Bytes(merging.held)
        /\ merging.left \in Nat \ {0}
        /\ \A w \in DOMAIN workers :
              /\ workers[w].raised = 0 /\ workers[w].reading = 0
              /\ w < merging.left => workers[w].res = 0

Reserved(ws) == [w \in DOMAIN ws |-> ws[w].res]
Reads(ws) == [w \in DOMAIN ws |-> ws[w].reading]
UseInv ==
    /\ used = Held + SumFunction(Reads(workers)) /\ used \in Nat /\ used <= limit
    /\ result # None => used = 0

(* Either the peak has been raised, or a worker is about to.               *)
PeakInv ==
    /\ peak \in Nat
    /\ used <= peak \/ \E w \in DOMAIN workers : used <= workers[w].raised

BudgetInv == StageInv /\ PoolInv /\ MergeInv /\ UseInv /\ PeakInv

(* The stage is one of the plan's.                                         *)
LEMMA StageTyped == StageInv => Stage \in StageType
<1> SUFFICES ASSUME StageInv PROVE Stage \in StageType
  OBVIOUS
<1>1. plan \in Seq(StageType) /\ Len(sources) \in 1 .. Len(plan)
  BY QueryAssumption DEF StageInv
<1> QED
  BY <1>1 DEF Stage

(* A morsel is batches of rows.                                            *)
LEMMA MorselHeld ==
    ASSUME IsMorsels(Morsels), NEW i \in 1 .. Len(Morsels)
    PROVE  IsHeld(Morsels[i]) /\ Bytes(Morsels[i]) \in Nat
<1>1. PICK S : Morsels \in Seq(Seq(Seq(S)))
  BY DEF IsMorsels
<1>2. Morsels[i] \in Seq(Seq(S))
  BY <1>1
<1> QED
  BY <1>2, HeldBytes DEF IsHeld

(* The sums over a pool.                                                   *)
LEMMA PoolSums ==
    ASSUME NEW ws, NEW n \in Nat, NEW m, PoolOK(ws, n, m)
    PROVE  /\ Numbers(Reserved(ws), n) /\ SumFunction(Reserved(ws)) \in Nat
           /\ Numbers(Reads(ws), n) /\ SumFunction(Reads(ws)) \in Nat
           /\ \A w \in 1 .. n : /\ ws[w].res \in Nat /\ ws[w].res <= SumFunction(Reserved(ws))
                                /\ ws[w].reading \in Nat
                                /\ ws[w].reading <= SumFunction(Reads(ws))
<1> DEFINE f == Reserved(ws)
           g == Reads(ws)
<1>1. ASSUME NEW w \in 1 .. n
      PROVE  ws[w].res \in Nat /\ ws[w].reading \in Nat
  BY HeldBytes DEF PoolOK, WorkerOK
<1>2. DOMAIN f = 1 .. n /\ \A w \in 1 .. n : f[w] = ws[w].res
  BY DEF PoolOK, Reserved
<1>3. DOMAIN g = 1 .. n /\ \A w \in 1 .. n : g[w] = ws[w].reading
  BY DEF PoolOK, Reads
<1> HIDE DEF f, g
<1>4. Numbers(f, n) /\ Numbers(g, n)
  BY <1>1, <1>2, <1>3 DEF Numbers
<1>5. SumFunction(f) \in Nat /\ SumFunction(g) \in Nat
  BY <1>4, SumNat
<1>6. \A w \in 1 .. n : f[w] <= SumFunction(f) /\ g[w] <= SumFunction(g)
  BY <1>4, SumBound
<1> QED
  BY <1>1, <1>2, <1>3, <1>4, <1>5, <1>6 DEF f, g

(* One worker changes.                                                     *)
LEMMA OneWorker ==
    ASSUME NEW ws, NEW n \in Nat, NEW m, PoolOK(ws, n, m), NEW w \in 1 .. n,
           NEW x, WorkerOK(x, m), NEW new,
           DOMAIN new = 1 .. n, new = [v \in 1 .. n |-> new[v]],
           new[w] = x, \A v \in 1 .. n : v # w => new[v] = ws[v]
    PROVE  /\ PoolOK(new, n, m) /\ x.res \in Nat
           /\ SumFunction(Reserved(new)) = SumFunction(Reserved(ws)) - ws[w].res + x.res
           /\ SumFunction(Reads(new)) = SumFunction(Reads(ws)) - ws[w].reading + x.reading
<1>2. PoolOK(new, n, m)
  BY DEF PoolOK
<1> DEFINE a == Reserved(ws)
           b == Reserved(new)
           c == Reads(ws)
           d == Reads(new)
<1>3. DOMAIN ws = 1 .. n
  BY DEF PoolOK
<1>4. Numbers(a, n) /\ Numbers(b, n)
  BY <1>2, PoolSums
<1>5. Numbers(c, n) /\ Numbers(d, n)
  BY <1>2, PoolSums
<1>6. SumFunction(Reserved(new)) =
        SumFunction(Reserved(ws)) - Reserved(ws)[w] + Reserved(new)[w]
  <2>1. \A v \in 1 .. n : v # w => b[v] = a[v]
    BY <1>3 DEF Reserved
  <2> HIDE DEF a, b
  <2>2. SumFunction(b) = SumFunction(a) - a[w] + b[w]
    BY <1>4, <2>1, SumChange
  <2> QED
    BY <2>2 DEF a, b
<1>7. SumFunction(Reads(new)) = SumFunction(Reads(ws)) - Reads(ws)[w] + Reads(new)[w]
  <2>1. \A v \in 1 .. n : v # w => d[v] = c[v]
    BY <1>3 DEF Reads
  <2> HIDE DEF c, d
  <2>2. SumFunction(d) = SumFunction(c) - c[w] + d[w]
    BY <1>5, <2>1, SumChange
  <2> QED
    BY <2>2 DEF c, d
<1>8. /\ Reserved(ws)[w] = ws[w].res /\ Reserved(new)[w] = x.res
      /\ Reads(ws)[w] = ws[w].reading /\ Reads(new)[w] = x.reading
  BY <1>3 DEF Reserved, Reads
<1>9. x.res \in Nat
  BY HeldBytes DEF WorkerOK
<1> QED
  BY <1>2, <1>6, <1>7, <1>8, <1>9

(* A new worker, and an empty pool.                                        *)
LEMMA NewWorkerOK ==
    ASSUME NEW m, NEW p, p \notin {"read", "reading"}
    PROVE  WorkerOK([NewWorker EXCEPT !.pc = p], m) /\ WorkerOK(NewWorker, m)
BY NothingHeld DEF WorkerOK, NewWorker

(* An empty pool has nothing reserved.                                     *)
LEMMA NoWorkers ==
    ASSUME NEW m
    PROVE  /\ PoolOK(<<>>, 0, m)
           /\ SumFunction(Reserved(<<>>)) = 0 /\ SumFunction(Reads(<<>>)) = 0
<1>1. DOMAIN <<>> = 1 .. 0 /\ 1 .. 0 = {} /\ <<>> = [w \in 1 .. 0 |-> <<>>[w]]
  OBVIOUS
<1>2. PoolOK(<<>>, 0, m)
  BY <1>1 DEF PoolOK
<1>3. DOMAIN Reserved(<<>>) = 1 .. 0 /\ DOMAIN Reads(<<>>) = 1 .. 0
  BY <1>1 DEF Reserved, Reads
<1>4. SumFunction(Reserved(<<>>)) = 0
  BY <1>1, <1>3, SumZero
<1>5. SumFunction(Reads(<<>>)) = 0
  BY <1>1, <1>3, SumZero
<1> QED
  BY <1>2, <1>4, <1>5

(* A new pool holds nothing.                                               *)
LEMMA NewPool ==
    ASSUME NEW morsels, Len(morsels) \in Nat, NEW m
    PROVE  \E n \in Nat \ {0} :
              /\ PoolOK(Pool(morsels), n, m)
              /\ SumFunction(Reserved(Pool(morsels))) = 0
              /\ SumFunction(Reads(Pool(morsels))) = 0
<1> DEFINE k == Max({Len(morsels), 1})
           n == Min({Threads, k})
           ws == Pool(morsels)
<1>1. k \in Nat /\ k >= 1
  BY MaxIs
<1>2. Threads \in Nat \ {0}
  BY QueryAssumption
<1>3. n \in Nat \ {0}
  <2> HIDE DEF k
  <2>1. Threads \in Int /\ k \in Int
    BY <1>1, <1>2
  <2>2. n \in {Threads, k}
    BY <2>1, MinIs
  <2> QED
    BY <1>1, <1>2, <2>2
<1>4. DOMAIN ws = 1 .. n /\ ws = [w \in 1 .. n |-> ws[w]] /\ \A w \in 1 .. n : ws[w] = NewWorker
  BY DEF Pool
<1> HIDE DEF k, n, ws
<1>5. PoolOK(ws, n, m)
  <2>1. WorkerOK(NewWorker, m)
    BY NothingHeld DEF WorkerOK, NewWorker
  <2> QED
    BY <1>4, <2>1 DEF PoolOK
<1>6. /\ DOMAIN Reserved(ws) = 1 .. n /\ \A w \in 1 .. n : Reserved(ws)[w] = 0
      /\ DOMAIN Reads(ws) = 1 .. n /\ \A w \in 1 .. n : Reads(ws)[w] = 0
  BY <1>4 DEF Reserved, Reads, NewWorker
<1>7. SumFunction(Reserved(ws)) = 0 /\ SumFunction(Reads(ws)) = 0
  BY <1>3, <1>6, SumZero
<1> QED
  BY <1>3, <1>5, <1>7 DEF ws

-----------------------------------------------------------------------------
(* The steps of a worker.                                                  *)

(* A worker w becomes x, and the counter moves with what it holds; when    *)
(* the counter grows the worker still has to raise the peak.               *)
LEMMA WorkerMoves ==
    ASSUME BudgetInv, Running, NEW w \in DOMAIN workers, NEW x,
           WorkerOK(x, Len(Morsels)), workers' = [workers EXCEPT ![w] = x],
           UNCHANGED <<query, main, peak>>, next' \in Nat \ {0},
           used' = used - workers[w].res - workers[w].reading + x.res + x.reading,
           used' <= limit,
           used' <= x.raised \/ (used' <= used /\ workers[w].raised <= x.raised)
    PROVE  BudgetInv'
<1> DEFINE m == Len(Morsels)
           me == workers[w]
<1>1. PICK n \in Nat : PoolOK(workers, n, m) /\ (Running => n # 0)
  BY DEF BudgetInv, PoolInv
<1>2. DOMAIN workers = 1 .. n /\ w \in 1 .. n
  BY <1>1 DEF PoolOK
<1>3. merging = None /\ result = None
  BY DEF Running
<1>4. /\ plan' = plan /\ limit' = limit /\ sources' = sources /\ merging' = merging
      /\ result' = result /\ peak' = peak /\ Len(Morsels)' = m
  BY DEF query, main, Morsels
<1>5. /\ PoolOK(workers', n, m) /\ x.res \in Nat
      /\ SumFunction(Reserved(workers')) = SumFunction(Reserved(workers)) - me.res + x.res
      /\ SumFunction(Reads(workers')) = SumFunction(Reads(workers)) - me.reading + x.reading
  <2> DEFINE new == workers'
  <2>1. /\ DOMAIN new = 1 .. n /\ new = [v \in 1 .. n |-> new[v]]
        /\ new[w] = x /\ \A v \in 1 .. n : v # w => new[v] = workers[v]
    BY <1>1, <1>2 DEF PoolOK
  <2>2. WorkerOK(x, m)
    OBVIOUS
  <2> HIDE DEF m, new
  <2>3. /\ PoolOK(new, n, m) /\ x.res \in Nat
        /\ SumFunction(Reserved(new)) = SumFunction(Reserved(workers)) - workers[w].res + x.res
        /\ SumFunction(Reads(new)) = SumFunction(Reads(workers)) - workers[w].reading + x.reading
    BY <1>1, <1>2, <2>1, <2>2, OneWorker
  <2> QED
    BY <2>3 DEF new
<1>6. /\ SumFunction(Reserved(workers)) \in Nat /\ SumFunction(Reads(workers)) \in Nat
      /\ me.res \in Nat /\ me.reading \in Nat /\ x.reading \in Nat
      /\ SumFunction(Reserved(workers')) \in Nat /\ SumFunction(Reads(workers')) \in Nat
  BY <1>1, <1>2, <1>5, PoolSums DEF WorkerOK
<1>7. StageInv'
  <2>1. StageInv
    BY DEF BudgetInv
  <2>2. IsMorsels(Morsels)' = IsMorsels(Morsels)
    BY <1>4 DEF Morsels, IsMorsels
  <2> QED
    BY <1>4, <2>1, <2>2 DEF StageInv
<1>8. PoolInv'
  <2>1. PoolOK(workers', n, Len(Morsels)')
    BY <1>4, <1>5
  <2>2. Running /\ n # 0
    BY <1>1
  <2>3. PoolOK(workers, n, Len(Morsels))'
    BY <2>1
  <2> QED
    BY <2>2, <2>3 DEF PoolInv
<1>9. MergeInv'
  BY <1>3, <1>4 DEF MergeInv
<1>10. UseInv'
  <2>1. used = SumFunction(Reserved(workers)) + SumFunction(Reads(workers)) /\ used \in Nat
    BY <1>3, <1>6 DEF BudgetInv, UseInv, Held, Reserved
  <2>2. used' = SumFunction(Reserved(workers')) + SumFunction(Reads(workers'))
    <3> DEFINE a == SumFunction(Reserved(workers))
               b == SumFunction(Reads(workers))
               p == workers[w].res
               q == workers[w].reading
               r == x.res
               s == x.reading
    <3>1. /\ used = a + b
          /\ used' = used - p - q + r + s
          /\ SumFunction(Reserved(workers')) = a - p + r
          /\ SumFunction(Reads(workers')) = b - q + s
      BY <1>5, <2>1
    <3>2. x.res \in Nat
      BY <1>5
    <3>3. a \in Nat /\ b \in Nat /\ p \in Nat /\ q \in Nat /\ r \in Nat /\ s \in Nat
      BY <1>6, <3>2
    <3> HIDE DEF a, b, p, q, r, s, me
    <3>4. (a + b) - p - q + r + s = (a - p + r) + (b - q + s)
      BY <3>3
    <3>5. used' = (a + b) - p - q + r + s
      BY <3>1
    <3> QED
      BY <3>1, <3>4, <3>5
  <2>3. Held' = SumFunction(Reserved(workers'))
    BY <1>3, <1>4, <1>6 DEF Held, Reserved
  <2> QED
    BY <1>3, <1>4, <1>6, <2>2, <2>3 DEF UseInv, Reads
<1>11. PeakInv'
  <2>1. peak \in Nat /\ (used <= peak \/ \E v \in DOMAIN workers : used <= workers[v].raised)
    BY DEF BudgetInv, PeakInv
  <2>2. /\ DOMAIN workers' = DOMAIN workers /\ workers'[w] = x
        /\ \A v \in DOMAIN workers : v # w => workers'[v] = workers[v]
    BY <1>2, <1>5 DEF PoolOK
  <2>3. used \in Nat /\ used' \in Nat /\ x.raised \in Nat
    BY <1>10 DEF BudgetInv, UseInv, WorkerOK
  <2>4. \A v \in DOMAIN workers : workers[v].raised \in Nat
    BY <1>1 DEF PoolOK, WorkerOK
  <2>5. CASE used' <= x.raised
    BY <1>4, <2>1, <2>2, <2>5 DEF PeakInv
  <2>6. CASE used' <= used /\ me.raised <= x.raised
    <3>1. CASE used <= peak
      BY <1>4, <2>1, <2>3, <2>6, <3>1 DEF PeakInv
    <3>2. ASSUME NEW v \in DOMAIN workers, used <= workers[v].raised
          PROVE  PeakInv'
      <4>1. workers[v].raised <= workers'[v].raised
        BY <2>2, <2>4, <2>6
      <4>2. workers'[v].raised \in Nat
        BY <2>2, <2>3, <2>4
      <4>3. used' <= workers'[v].raised
        BY <2>3, <2>4, <2>6, <3>2, <4>1, <4>2
      <4> QED
        BY <1>4, <2>1, <2>2, <4>3 DEF PeakInv
    <3> QED
      BY <2>1, <3>1, <3>2
  <2> QED
    BY <2>5, <2>6
<1> QED
  BY <1>7, <1>8, <1>9, <1>10, <1>11 DEF BudgetInv

(* What is known of a worker that takes a step.                            *)
LEMMA WorkerHere ==
    ASSUME BudgetInv, Running, NEW w \in DOMAIN workers
    PROVE  /\ WorkerOK(workers[w], Len(Morsels)) /\ workers[w].res \in Nat
           /\ used \in Nat /\ limit \in Nat /\ used <= limit /\ next \in Nat \ {0}
           /\ workers[w].res + workers[w].reading <= used
<1> DEFINE m == Len(Morsels)
<1>1. PICK n \in Nat : PoolOK(workers, n, m)
  BY DEF BudgetInv, PoolInv
<1>2. DOMAIN workers = 1 .. n /\ w \in 1 .. n
  BY <1>1 DEF PoolOK
<1>3. WorkerOK(workers[w], m)
  BY <1>1, <1>2 DEF PoolOK
<1>4. /\ SumFunction(Reserved(workers)) \in Nat /\ SumFunction(Reads(workers)) \in Nat
      /\ workers[w].res \in Nat /\ workers[w].res <= SumFunction(Reserved(workers))
      /\ workers[w].reading \in Nat /\ workers[w].reading <= SumFunction(Reads(workers))
  BY <1>1, <1>2, PoolSums
<1>5. used = SumFunction(Reserved(workers)) + SumFunction(Reads(workers)) /\ used \in Nat
  BY <1>4 DEF BudgetInv, UseInv, Held, Reserved, Running
<1> QED
  BY <1>3, <1>4, <1>5 DEF BudgetInv, UseInv, StageInv

(* A worker that keeps what it holds.                                      *)
LEMMA WorkerKeeps ==
    ASSUME BudgetInv, Running, NEW w \in DOMAIN workers, NEW x,
           workers' = [workers EXCEPT ![w] = x], WorkerOK(x, Len(Morsels)),
           UNCHANGED <<query, main, budget>>, next' \in Nat \ {0},
           x.res = workers[w].res, x.reading = workers[w].reading,
           x.raised = workers[w].raised
    PROVE  BudgetInv'
<1>1. /\ workers[w].res \in Nat /\ used \in Nat /\ used <= limit
      /\ WorkerOK(workers[w], Len(Morsels)) /\ limit \in Nat
  BY WorkerHere
<1>2. used' = used /\ peak' = peak /\ workers[w].reading \in Nat /\ workers[w].raised \in Nat
  BY <1>1 DEF budget, WorkerOK
<1>3. used' = used - workers[w].res - workers[w].reading + x.res + x.reading
  BY <1>1, <1>2
<1>4. /\ used' <= limit /\ used' <= used /\ workers[w].raised <= x.raised
      /\ UNCHANGED <<query, main, peak>>
  BY <1>1, <1>2
<1> QED
  BY <1>3, <1>4, WorkerMoves

(* A worker made of eight fields.                                          *)
LEMMA MadeWorker ==
    ASSUME NEW m, NEW p, NEW i, NEW t, NEW h, NEW q \in Nat, NEW z \in Nat, NEW e,
           p \in {"read", "reading"} => i \in 1 .. m,
           IsHeld(t), IsHeld(h), q # 0 => p = "reading"
    PROVE  LET x == [pc |-> p, morsel |-> i, todo |-> t, held |-> h, res |-> Bytes(h),
                     reading |-> q, raised |-> z, err |-> e]
           IN  WorkerOK(x, m) /\ x.res = Bytes(h) /\ x.reading = q /\ x.raised = z
BY DEF WorkerOK

(* A worker that claims a morsel, or finds none left.                      *)
Claims(me, i) == [me EXCEPT !.pc = "read", !.morsel = i]
Stops(me) == [me EXCEPT !.pc = "done"]

(* Neither changes what it holds.                                          *)
LEMMA ClaimsOK ==
    ASSUME NEW me, NEW m, WorkerOK(me, m), me.pc = "claim"
    PROVE  /\ \A i \in 1 .. m : /\ WorkerOK(Claims(me, i), m)
                               /\ Claims(me, i).res = me.res
                               /\ Claims(me, i).reading = me.reading
                               /\ Claims(me, i).raised = me.raised
           /\ WorkerOK(Stops(me), m) /\ Stops(me).res = me.res
           /\ Stops(me).reading = me.reading /\ Stops(me).raised = me.raised
<1>1. /\ me.raised \in Nat /\ IsHeld(me.todo) /\ IsHeld(me.held)
      /\ me.res = Bytes(me.held) /\ me.reading = 0
  BY DEF WorkerOK
<1>2. ASSUME NEW i \in 1 .. m
      PROVE  /\ WorkerOK(Claims(me, i), m) /\ Claims(me, i).res = me.res
             /\ Claims(me, i).reading = me.reading /\ Claims(me, i).raised = me.raised
  <2> DEFINE f == [me EXCEPT !.pc = "read"]
             y == [pc |-> "read", morsel |-> i, todo |-> me.todo, held |-> me.held,
                   res |-> Bytes(me.held), reading |-> 0, raised |-> me.raised,
                   err |-> me.err]
  <2>1. f = [pc |-> "read", morsel |-> me.morsel, todo |-> me.todo, held |-> me.held,
             res |-> Bytes(me.held), reading |-> 0, raised |-> me.raised, err |-> me.err]
    BY <1>1 DEF WorkerOK
  <2> HIDE DEF f
  <2>2. [f EXCEPT !.morsel = i] = y
    BY <2>1
  <2>3. Claims(me, i) = y
    BY <2>2 DEF f, Claims
  <2>4. WorkerOK(y, m) /\ y.res = Bytes(me.held) /\ y.reading = 0 /\ y.raised = me.raised
    BY <1>1, MadeWorker
  <2> HIDE DEF y
  <2> QED
    BY <1>1, <2>3, <2>4
<1>3. /\ WorkerOK(Stops(me), m) /\ Stops(me).res = me.res
      /\ Stops(me).reading = me.reading /\ Stops(me).raised = me.raised
  <2> DEFINE y == [pc |-> "done", morsel |-> me.morsel, todo |-> me.todo, held |-> me.held,
                   res |-> Bytes(me.held), reading |-> 0, raised |-> me.raised,
                   err |-> me.err]
  <2>1. Stops(me) = y
    BY <1>1 DEF WorkerOK, Stops
  <2>2. WorkerOK(y, m) /\ y.res = Bytes(me.held) /\ y.reading = 0 /\ y.raised = me.raised
    <3>1. IsHeld(me.todo) /\ IsHeld(me.held) /\ me.raised \in Nat /\ 0 \in Nat
      BY <1>1 DEF WorkerOK
    <3>2. "done" \notin {"read", "reading"}
      OBVIOUS
    <3> QED
      BY <3>1, <3>2, MadeWorker
  <2> HIDE DEF y
  <2> QED
    BY <1>1, <2>1, <2>2
<1> QED
  BY <1>2, <1>3

(* A worker that returns an error keeps its sink, and no read.             *)
LEMMA FailsOK ==
    ASSUME NEW w, NEW m, WorkerOK(workers[w], m), NEW e
    PROVE  LET x == FailsWith(w, e)
           IN  /\ WorkerOK(x, m) /\ x.reading = 0
               /\ x.res = workers[w].res /\ x.raised = workers[w].raised
<1> DEFINE me == workers[w]
           x == [pc |-> "fail", morsel |-> me.morsel, todo |-> me.todo, held |-> me.held,
                 res |-> Bytes(me.held), reading |-> 0, raised |-> me.raised, err |-> e]
<1>1. FailsWith(w, e) = x
  <2> DEFINE a == [me EXCEPT !.pc = "fail"]
             b == [a EXCEPT !.err = e]
  <2>1. a = [pc |-> "fail", morsel |-> me.morsel, todo |-> me.todo, held |-> me.held,
             res |-> Bytes(me.held), reading |-> me.reading, raised |-> me.raised,
             err |-> me.err]
    BY DEF WorkerOK
  <2> HIDE DEF a
  <2>2. b = [pc |-> "fail", morsel |-> me.morsel, todo |-> me.todo, held |-> me.held,
             res |-> Bytes(me.held), reading |-> me.reading, raised |-> me.raised, err |-> e]
    BY <2>1
  <2> HIDE DEF b
  <2>3. [b EXCEPT !.reading = 0] = x
    BY <2>2
  <2> QED
    BY <2>3 DEF a, b, FailsWith
<1>2. /\ me.raised \in Nat /\ IsHeld(me.todo) /\ IsHeld(me.held)
      /\ me.res = Bytes(me.held)
  BY DEF WorkerOK
<1>3. WorkerOK(x, m) /\ x.res = Bytes(me.held) /\ x.reading = 0 /\ x.raised = me.raised
  <2> HIDE DEF me
  <2> QED
    BY <1>2, MadeWorker
<1> HIDE DEF x
<1> QED
  BY <1>1, <1>2, <1>3

(* A worker that starts to read, and one that has read.                    *)
Reading(me, b, z) == [me EXCEPT !.pc = "reading", !.reading = b, !.raised = z]
HasRead(me, t) == [me EXCEPT !.pc = "push", !.reading = 0, !.todo = t]

(* A read of b bytes leaves the sink as it is.                             *)
LEMMA StartsRead ==
    ASSUME NEW me, NEW m, WorkerOK(me, m), me.pc = "read", NEW b \in Nat, NEW z \in Nat
    PROVE  /\ WorkerOK(Reading(me, b, z), m) /\ Reading(me, b, z).res = me.res
           /\ Reading(me, b, z).reading = b /\ Reading(me, b, z).raised = z
<1> DEFINE x == Reading(me, b, z)
<1>1. /\ me.raised \in Nat /\ IsHeld(me.todo) /\ IsHeld(me.held)
      /\ me.res = Bytes(me.held) /\ me.morsel \in 1 .. m
  BY DEF WorkerOK
<1> DEFINE y == [pc |-> "reading", morsel |-> me.morsel, todo |-> me.todo, held |-> me.held,
                 res |-> Bytes(me.held), reading |-> b, raised |-> z, err |-> me.err]
<1>2. x = y
  <2> DEFINE f == [me EXCEPT !.pc = "reading"]
             g == [f EXCEPT !.reading = b]
  <2>1. f = [pc |-> "reading", morsel |-> me.morsel, todo |-> me.todo, held |-> me.held,
             res |-> Bytes(me.held), reading |-> me.reading, raised |-> me.raised,
             err |-> me.err]
    BY DEF WorkerOK
  <2> HIDE DEF f
  <2>2. g = [pc |-> "reading", morsel |-> me.morsel, todo |-> me.todo, held |-> me.held,
             res |-> Bytes(me.held), reading |-> b, raised |-> me.raised, err |-> me.err]
    BY <2>1
  <2> HIDE DEF g
  <2>3. [g EXCEPT !.raised = z] = y
    BY <2>2
  <2> QED
    BY <2>3 DEF f, g, Reading
<1>3. WorkerOK(y, m) /\ y.res = Bytes(me.held) /\ y.reading = b /\ y.raised = z
  BY <1>1, MadeWorker
<1> HIDE DEF x, y
<1>4. WorkerOK(x, m) /\ x.res = me.res /\ x.reading = b /\ x.raised = z
  BY <1>1, <1>2, <1>3
<1> QED
  BY <1>4 DEF x

(* What was read is to be pushed, and its bytes are given back.            *)
LEMMA EndsRead ==
    ASSUME NEW me, NEW m, WorkerOK(me, m), NEW t, IsHeld(t)
    PROVE  /\ WorkerOK(HasRead(me, t), m) /\ HasRead(me, t).res = me.res
           /\ HasRead(me, t).reading = 0 /\ HasRead(me, t).raised = me.raised
<1> DEFINE x == HasRead(me, t)
<1>1. /\ me.raised \in Nat /\ IsHeld(me.held) /\ me.res = Bytes(me.held)
  BY DEF WorkerOK
<1> DEFINE y == [pc |-> "push", morsel |-> me.morsel, todo |-> t, held |-> me.held,
                 res |-> Bytes(me.held), reading |-> 0, raised |-> me.raised, err |-> me.err]
<1>2. x = y
  <2> DEFINE f == [me EXCEPT !.pc = "push"]
             g == [f EXCEPT !.reading = 0]
  <2>1. f = [pc |-> "push", morsel |-> me.morsel, todo |-> me.todo, held |-> me.held,
             res |-> Bytes(me.held), reading |-> me.reading, raised |-> me.raised,
             err |-> me.err]
    BY DEF WorkerOK
  <2> HIDE DEF f
  <2>2. g = [pc |-> "push", morsel |-> me.morsel, todo |-> me.todo, held |-> me.held,
             res |-> Bytes(me.held), reading |-> 0, raised |-> me.raised, err |-> me.err]
    BY <2>1
  <2> HIDE DEF g
  <2>3. [g EXCEPT !.todo = t] = y
    BY <2>2
  <2> QED
    BY <2>3 DEF f, g, HasRead
<1>3. WorkerOK(y, m) /\ y.res = Bytes(me.held) /\ y.reading = 0 /\ y.raised = me.raised
  BY <1>1, MadeWorker
<1> HIDE DEF x, y
<1>4. WorkerOK(x, m) /\ x.res = me.res /\ x.reading = 0 /\ x.raised = me.raised
  BY <1>1, <1>2, <1>3
<1> QED
  BY <1>4 DEF x

(* A step that leaves the plan, the main thread and the counter alone.     *)
LEMMA ClaimBudget ==
    ASSUME BudgetInv, NEW w, Claim(w)
    PROVE  BudgetInv'
<1> DEFINE me == workers[w]
           m == Len(Morsels)
<1>1. Running /\ w \in DOMAIN workers /\ me.pc = "claim"
  BY DEF Claim, At
<1>2. WorkerOK(me, m) /\ next \in Nat \ {0}
  BY <1>1, WorkerHere
<1>3. UNCHANGED <<query, main, budget>>
  BY DEF Claim
<1>4. ASSUME NEW x, workers' = [workers EXCEPT ![w] = x], next' \in Nat \ {0},
             \/ x = Stops(me)
             \/ x = FailsWith(w, "cancelled")
             \/ x = Claims(me, next) /\ next \in 1 .. m
      PROVE  BudgetInv'
  <2>1. /\ WorkerOK(x, m)
        /\ x.res = me.res /\ x.reading = me.reading /\ x.raised = me.raised
    <3>1. CASE x = Stops(me)
      BY <1>1, <1>2, <3>1, ClaimsOK
    <3>2. CASE x = FailsWith(w, "cancelled")
      <4>1. me.reading = 0
        BY <1>1, <1>2 DEF WorkerOK
      <4>2. /\ WorkerOK(FailsWith(w, "cancelled"), m) /\ FailsWith(w, "cancelled").reading = 0
            /\ FailsWith(w, "cancelled").res = me.res
            /\ FailsWith(w, "cancelled").raised = me.raised
        BY <1>2, FailsOK
      <4> QED
        BY <3>2, <4>1, <4>2
    <3>3. CASE x = Claims(me, next) /\ next \in 1 .. m
      <4>1. /\ WorkerOK(Claims(me, next), m) /\ Claims(me, next).res = me.res
            /\ Claims(me, next).reading = me.reading /\ Claims(me, next).raised = me.raised
        BY <1>1, <1>2, <3>3, ClaimsOK
      <4> QED
        BY <3>3, <4>1
    <3> QED
      BY <1>4, <3>1, <3>2, <3>3
  <2> QED
    BY <1>1, <1>3, <1>4, <2>1, WorkerKeeps
<1>5. CASE stop /\ workers' = [workers EXCEPT ![w].pc = "done"] /\ UNCHANGED next
  <2>1. workers' = [workers EXCEPT ![w] = Stops(me)]
    BY <1>5 DEF Stops
  <2> QED
    BY <1>2, <1>4, <1>5, <2>1
<1>6. CASE /\ next' = next + 1
           /\ workers' = [workers EXCEPT ![w] =
                 IF next > Len(Morsels) THEN [@ EXCEPT !.pc = "done"]
                 ELSE IF cancelled THEN FailsWith(w, "cancelled")
                 ELSE [@ EXCEPT !.pc = "read", !.morsel = next]]
  <2> DEFINE x == IF next > Len(Morsels) THEN Stops(me)
                  ELSE IF cancelled THEN FailsWith(w, "cancelled")
                  ELSE Claims(me, next)
  <2>1. next' \in Nat \ {0} /\ workers' = [workers EXCEPT ![w] = x]
    BY <1>1, <1>2, <1>6 DEF Stops, Claims
  <2>2. m \in Nat
    BY DEF BudgetInv, StageInv, IsMorsels
  <2>3. \/ x = Stops(me)
        \/ x = FailsWith(w, "cancelled")
        \/ x = Claims(me, next) /\ next \in 1 .. m
    BY <1>2, <2>2
  <2> HIDE DEF x
  <2> QED
    BY <1>4, <2>1, <2>3
<1> QED
  BY <1>5, <1>6 DEF Claim

(* A batch in memory takes no reservation to read.                         *)
LEMMA ReadMemoryBudget ==
    ASSUME BudgetInv, NEW w, ReadMemory(w)
    PROVE  BudgetInv'
<1> DEFINE me == workers[w]
           m == Len(Morsels)
           x == IF IsScan /\ cancelled THEN FailsWith(w, "cancelled")
                ELSE [me EXCEPT !.pc = "push", !.todo = Morsels[me.morsel]]
<1>1. /\ Running /\ w \in DOMAIN workers /\ me.pc = "read"
      /\ workers' = [workers EXCEPT ![w] = x]
      /\ UNCHANGED <<query, main, budget>> /\ next' = next
  BY DEF ReadMemory, At, shared
<1>2. WorkerOK(me, m) /\ next \in Nat \ {0}
  BY <1>1, WorkerHere
<1>3. IsHeld(Morsels[me.morsel])
  BY <1>1, <1>2, MorselHeld DEF WorkerOK, BudgetInv, StageInv
<1>4. /\ WorkerOK(x, m)
      /\ x.res = me.res /\ x.reading = me.reading /\ x.raised = me.raised
  BY <1>1, <1>2, <1>3 DEF WorkerOK, FailsWith
<1> HIDE DEF x
<1> QED
  BY <1>1, <1>2, <1>4, WorkerKeeps

(* Nothing to push.                                                        *)
LEMMA EmptyMorselBudget ==
    ASSUME BudgetInv, NEW w, EmptyMorsel(w)
    PROVE  BudgetInv'
<1> DEFINE me == workers[w]
           m == Len(Morsels)
           x == [me EXCEPT !.pc = "claim"]
<1>1. /\ Running /\ w \in DOMAIN workers /\ me.pc = "push"
      /\ workers' = [workers EXCEPT ![w] = x]
      /\ UNCHANGED <<query, main, budget>> /\ next' = next
  BY DEF EmptyMorsel, At, shared
<1>2. WorkerOK(me, m) /\ next \in Nat \ {0}
  BY <1>1, WorkerHere
<1>3. /\ WorkerOK(x, m)
      /\ x.res = me.res /\ x.reading = me.reading /\ x.raised = me.raised
  BY <1>1, <1>2 DEF WorkerOK
<1> HIDE DEF x
<1> QED
  BY <1>1, <1>2, <1>3, WorkerKeeps

(* An error is recorded in two steps.                                      *)
LEMMA ErrorBudget ==
    ASSUME BudgetInv, NEW w, SetStop(w) \/ RecordError(w)
    PROVE  BudgetInv'
<1> DEFINE me == workers[w]
           m == Len(Morsels)
<1>1. PICK p \in {"record", "drop"} :
        /\ Running /\ w \in DOMAIN workers /\ me.pc \in {"fail", "record"}
        /\ workers' = [workers EXCEPT ![w].pc = p]
        /\ UNCHANGED <<query, main, budget>> /\ next' = next
  BY DEF SetStop, RecordError, At
<1> DEFINE x == [me EXCEPT !.pc = p]
<1>2. WorkerOK(me, m) /\ next \in Nat \ {0}
  BY <1>1, WorkerHere
<1>3. /\ WorkerOK(x, m)
      /\ x.res = me.res /\ x.reading = me.reading /\ x.raised = me.raised
  BY <1>1, <1>2 DEF WorkerOK
<1>4. workers' = [workers EXCEPT ![w] = x]
  BY <1>1
<1> HIDE DEF x
<1> QED
  BY <1>1, <1>2, <1>3, <1>4, WorkerKeeps

(* A read reserves the bytes of the segment, or fails.                     *)
LEMMA ReadBudget ==
    ASSUME BudgetInv, NEW w, Read(w)
    PROVE  BudgetInv'
<1> DEFINE me == workers[w]
           m == Len(Morsels)
           bytes == Bytes(Morsels[me.morsel])
<1>1. /\ Running /\ w \in DOMAIN workers /\ me.pc = "read" /\ me.raised = 0
      /\ UNCHANGED <<query, main, peak>> /\ next' = next
  BY DEF Read, At, shared
<1>2. /\ WorkerOK(me, m) /\ next \in Nat \ {0} /\ me.res \in Nat
      /\ used \in Nat /\ limit \in Nat /\ used <= limit
  BY <1>1, WorkerHere
<1>3. bytes \in Nat
  BY <1>1, <1>2, MorselHeld DEF WorkerOK, BudgetInv, StageInv
<1>4. me.reading = 0
  BY <1>1, <1>2 DEF WorkerOK
<1>5. CASE /\ ~cancelled /\ Fits(bytes)
           /\ used' = used + bytes
           /\ workers' = [workers EXCEPT ![w] =
                 [@ EXCEPT !.pc = "reading", !.reading = bytes, !.raised = used']]
  <2> DEFINE x == Reading(me, bytes, used')
  <2> HIDE DEF bytes
  <2>1. used' = used + bytes /\ used' <= limit /\ used' \in Nat
    BY <1>2, <1>3, <1>5 DEF Fits
  <2>2. /\ WorkerOK(x, m)
        /\ x.res = me.res /\ x.reading = bytes /\ x.raised = used'
    <3> HIDE DEF m, me
    <3> QED
      BY <1>1, <1>2, <1>3, <2>1, StartsRead
  <2>3. workers' = [workers EXCEPT ![w] = x]
    BY <1>5 DEF bytes, Reading
  <2> HIDE DEF x
  <2>4. used' = used - me.res - me.reading + x.res + x.reading
    BY <1>2, <1>3, <1>4, <2>1, <2>2
  <2>5. used' <= x.raised
    BY <2>1, <2>2
  <2> QED
    BY <1>1, <1>2, <2>1, <2>2, <2>3, <2>4, <2>5, WorkerMoves
<1>6. CASE /\ cancelled \/ ~Fits(bytes)
           /\ workers' = [workers EXCEPT ![w] =
                 FailsWith(w, IF cancelled THEN "cancelled" ELSE "budget")]
           /\ UNCHANGED used
  <2> DEFINE x == FailsWith(w, IF cancelled THEN "cancelled" ELSE "budget")
  <2>1. /\ WorkerOK(x, m)
        /\ x.res = me.res /\ x.reading = me.reading /\ x.raised = me.raised
    BY <1>2, <1>4, FailsOK
  <2>2. workers' = [workers EXCEPT ![w] = x] /\ UNCHANGED <<query, main, budget>>
    BY <1>1, <1>6 DEF budget
  <2> HIDE DEF x
  <2> QED
    BY <1>1, <1>2, <2>1, <2>2, WorkerKeeps
<1> QED
  BY <1>5, <1>6 DEF Read

(* The bytes of a read are given back when it is over, one way or another. *)
LEMMA ReadOverBudget ==
    ASSUME BudgetInv, NEW w, ReadOver(w) \/ ReadError(w)
    PROVE  BudgetInv'
<1> DEFINE me == workers[w]
           m == Len(Morsels)
<1>1. /\ Running /\ w \in DOMAIN workers /\ me.pc = "reading"
      /\ UNCHANGED <<query, main, peak>> /\ next' = next
      /\ used' = used - me.reading
  BY DEF ReadOver, ReadError, At, shared
<1>2. /\ WorkerOK(me, m) /\ next \in Nat \ {0} /\ me.res \in Nat
      /\ used \in Nat /\ limit \in Nat /\ used <= limit
  BY <1>1, WorkerHere
<1>3. IsHeld(Morsels[me.morsel])
  BY <1>1, <1>2, MorselHeld DEF WorkerOK, BudgetInv, StageInv
<1>4. PICK x : /\ workers' = [workers EXCEPT ![w] = x]
               /\ x = HasRead(me, Morsels[me.morsel]) \/ x = FailsWith(w, "source")
  BY DEF ReadOver, ReadError, HasRead
<1>5. /\ WorkerOK(x, m) /\ me.reading \in Nat /\ me.raised \in Nat
      /\ x.res = me.res /\ x.reading = 0 /\ x.raised = me.raised
  <2>1. me.reading \in Nat /\ me.raised \in Nat
    BY <1>2 DEF WorkerOK
  <2>2. CASE x = FailsWith(w, "source")
    BY <1>2, <2>1, <2>2, FailsOK
  <2>3. CASE x = HasRead(me, Morsels[me.morsel])
    BY <1>2, <1>3, <2>1, <2>3, EndsRead
  <2> QED
    BY <1>4, <2>2, <2>3
<1>6. /\ used' = used - me.res - me.reading + x.res + x.reading
      /\ used' <= used /\ used' <= limit /\ me.raised <= x.raised
  BY <1>1, <1>2, <1>5
<1> QED
  BY <1>1, <1>2, <1>4, <1>5, <1>6, WorkerMoves


(* A worker that has pushed a batch, one whose sink is dropped.            *)
Pushed(me, h, t, z, p) ==
    [me EXCEPT !.held = h, !.res = Bytes(h), !.todo = t, !.raised = z, !.pc = p]
Dropped(me) == [me EXCEPT !.pc = "failed", !.held = <<>>, !.res = 0]

(* The sink has what it has pushed, and reserves it.                       *)
LEMMA PushedOK ==
    ASSUME NEW me, NEW m, WorkerOK(me, m), me.reading = 0, NEW h, NEW t, IsHeld(h), IsHeld(t),
           NEW z \in Nat, NEW p, p \notin {"read", "reading"}
    PROVE  /\ WorkerOK(Pushed(me, h, t, z, p), m) /\ Pushed(me, h, t, z, p).res = Bytes(h)
           /\ Pushed(me, h, t, z, p).reading = 0 /\ Pushed(me, h, t, z, p).raised = z
<1> DEFINE x == Pushed(me, h, t, z, p)
           y == [pc |-> p, morsel |-> me.morsel, todo |-> t, held |-> h,
                 res |-> Bytes(h), reading |-> 0, raised |-> z, err |-> me.err]
<1>1. x = y
  <2> DEFINE bytes == Bytes(h)
             a == [me EXCEPT !.held = h]
             b == [a EXCEPT !.res = bytes]
             c == [b EXCEPT !.todo = t]
             d == [c EXCEPT !.raised = z]
  <2> HIDE DEF bytes
  <2>1. a = [pc |-> me.pc, morsel |-> me.morsel, todo |-> me.todo, held |-> h,
             res |-> me.res, reading |-> 0, raised |-> me.raised, err |-> me.err]
    BY DEF WorkerOK
  <2> HIDE DEF a
  <2>2. b = [pc |-> me.pc, morsel |-> me.morsel, todo |-> me.todo, held |-> h,
             res |-> bytes, reading |-> 0, raised |-> me.raised, err |-> me.err]
    BY <2>1
  <2> HIDE DEF b
  <2>3. c = [pc |-> me.pc, morsel |-> me.morsel, todo |-> t, held |-> h,
             res |-> bytes, reading |-> 0, raised |-> me.raised, err |-> me.err]
    BY <2>2
  <2> HIDE DEF c
  <2>4. d = [pc |-> me.pc, morsel |-> me.morsel, todo |-> t, held |-> h,
             res |-> bytes, reading |-> 0, raised |-> z, err |-> me.err]
    BY <2>3
  <2> HIDE DEF d
  <2>5. [d EXCEPT !.pc = p] = y
    BY <2>4 DEF bytes
  <2> QED
    BY <2>5 DEF a, b, c, d, bytes, Pushed
<1>2. WorkerOK(y, m) /\ y.res = Bytes(h) /\ y.reading = 0 /\ y.raised = z
  <2>1. /\ p \in {"read", "reading"} => me.morsel \in 1 .. m
        /\ 0 \in Nat /\ (0 # 0 => p = "reading")
    OBVIOUS
  <2> HIDE DEF x
  <2> QED
    BY <2>1, MadeWorker
<1> HIDE DEF x, y
<1>3. WorkerOK(x, m) /\ x.res = Bytes(h) /\ x.reading = 0 /\ x.raised = z
  BY <1>1, <1>2
<1> QED
  BY <1>3 DEF x

(* A dropped sink holds nothing.                                           *)
LEMMA DroppedOK ==
    ASSUME NEW me, NEW m, WorkerOK(me, m), me.reading = 0
    PROVE  /\ WorkerOK(Dropped(me), m) /\ Dropped(me).res = 0
           /\ Dropped(me).reading = 0 /\ Dropped(me).raised = me.raised
<1> DEFINE x == Dropped(me)
           y == [pc |-> "failed", morsel |-> me.morsel, todo |-> me.todo, held |-> <<>>,
                 res |-> Bytes(<<>>), reading |-> 0, raised |-> me.raised, err |-> me.err]
<1>1. IsHeld(me.todo) /\ me.raised \in Nat
  BY DEF WorkerOK
<1>2. IsHeld(<<>>) /\ Bytes(<<>>) = 0
  BY NothingHeld
<1>3. x = y
  <2> DEFINE f == [me EXCEPT !.pc = "failed"]
             g == [f EXCEPT !.held = <<>>]
  <2>1. f = [pc |-> "failed", morsel |-> me.morsel, todo |-> me.todo, held |-> me.held,
             res |-> me.res, reading |-> 0, raised |-> me.raised, err |-> me.err]
    BY DEF WorkerOK
  <2> HIDE DEF f
  <2>2. g = [pc |-> "failed", morsel |-> me.morsel, todo |-> me.todo, held |-> <<>>,
             res |-> me.res, reading |-> 0, raised |-> me.raised, err |-> me.err]
    BY <2>1
  <2> HIDE DEF g
  <2>3. [g EXCEPT !.res = 0] = y
    BY <1>2, <2>2
  <2> QED
    BY <2>3 DEF f, g, Dropped
<1>4. WorkerOK(y, m) /\ y.res = Bytes(<<>>) /\ y.reading = 0 /\ y.raised = me.raised
  BY <1>1, <1>2, MadeWorker
<1> HIDE DEF x, y
<1>5. WorkerOK(x, m) /\ x.res = 0 /\ x.reading = 0 /\ x.raised = me.raised
  BY <1>2, <1>3, <1>4
<1> QED
  BY <1>5 DEF x

(* The batches of a morsel, one after the other.                           *)
LEMMA NextBatch ==
    ASSUME NEW todo, IsHeld(todo), todo # <<>>
    PROVE  IsRows(Head(todo)) /\ IsHeld(Tail(todo))
<1>1. PICK S : todo \in Seq(Seq(S))
  BY DEF IsHeld
<1>2. Head(todo) \in Seq(S) /\ Tail(todo) \in Seq(Seq(S))
  BY <1>1
<1> QED
  BY <1>2 DEF IsRows, IsHeld

(* A batch is pushed within the budget, or not at all.                     *)
LEMMA PushBudget ==
    ASSUME BudgetInv, NEW w, Push(w)
    PROVE  BudgetInv'
<1> DEFINE me == workers[w]
           m == Len(Morsels)
           batch == Filtered(Stage, Head(me.todo))
           held == IF batch = <<>> THEN me.held ELSE SinkPush(Stage, me.held, batch)
           more == Bytes(held) - me.res
<1>1. /\ Running /\ w \in DOMAIN workers /\ me.pc = "push" /\ me.raised = 0 /\ me.todo # <<>>
      /\ UNCHANGED <<query, main, peak>> /\ next' = next
  BY DEF Push, At, shared
<1>2. /\ WorkerOK(me, m) /\ next \in Nat \ {0} /\ me.res \in Nat
      /\ used \in Nat /\ limit \in Nat /\ used <= limit /\ me.res + me.reading <= used
  BY <1>1, WorkerHere
<1>3. me.reading = 0 /\ IsHeld(me.held) /\ IsHeld(me.todo)
  BY <1>1, <1>2 DEF WorkerOK
<1>4. IsRows(Head(me.todo)) /\ IsHeld(Tail(me.todo))
  <2> HIDE DEF me
  <2> QED
    BY <1>1, <1>3, NextBatch
<1>5. IsHeld(held) /\ Bytes(held) \in Nat
  <2>1. IsRows(batch)
    <3> HIDE DEF me
    <3> QED
      BY <1>4, FilteredRows
  <2>2. Stage \in StageType
    BY StageTyped DEF BudgetInv
  <2> HIDE DEF batch
  <2>3. IsHeld(SinkPush(Stage, me.held, batch))
    BY <1>3, <2>1, <2>2, PushHeld
  <2>4. IsHeld(held)
    BY <1>3, <2>3
  <2> HIDE DEF held
  <2> QED
    BY <2>4, HeldBytes
<1> DEFINE z == IF more > 0 THEN used' ELSE 0
           p == AfterPush(held, Tail(me.todo))
           x == Pushed(me, held, Tail(me.todo), z, p)
<1>6. CASE /\ ~cancelled /\ Fits(more)
           /\ used' = used + more
           /\ workers' = [workers EXCEPT ![w] =
                 [@ EXCEPT !.held = held, !.res = Bytes(held), !.todo = Tail(me.todo),
                           !.raised = IF more > 0 THEN used' ELSE 0,
                           !.pc = AfterPush(held, Tail(me.todo))]]
  <2>1. workers' = [workers EXCEPT ![w] = x]
    <3> HIDE DEF held, more
    <3> QED
      BY <1>6 DEF Pushed
  <2> HIDE DEF held
  <2>2. /\ used' = used - me.res - me.reading + Bytes(held) + 0
        /\ used' \in Nat /\ used' <= limit /\ used' = used + more
    BY <1>2, <1>3, <1>5, <1>6 DEF Fits
  <2>3. z \in Nat /\ (used' <= z \/ (used' <= used /\ z = 0))
    BY <1>2, <1>3, <1>5, <2>2
  <2>4. p \notin {"read", "reading"}
    BY DEF AfterPush
  <2> HIDE DEF z, p
  <2>5. WorkerOK(x, m) /\ x.res = Bytes(held) /\ x.reading = 0 /\ x.raised = z
    <3> HIDE DEF me, m
    <3> QED
      BY <1>2, <1>3, <1>4, <1>5, <2>3, <2>4, PushedOK
  <2> HIDE DEF x
  <2>6. /\ used' = used - me.res - me.reading + x.res + x.reading
        /\ used' <= x.raised \/ (used' <= used /\ me.raised <= x.raised)
    BY <1>1, <2>2, <2>3, <2>5
  <2> QED
    BY <1>1, <1>2, <2>1, <2>2, <2>5, <2>6, WorkerMoves
<1>7. CASE /\ cancelled \/ ~Fits(more)
           /\ workers' = [workers EXCEPT ![w] =
                 FailsWith(w, IF cancelled THEN "cancelled" ELSE "budget")]
           /\ UNCHANGED used
  <2> DEFINE f == FailsWith(w, IF cancelled THEN "cancelled" ELSE "budget")
  <2>1. WorkerOK(f, m) /\ f.res = me.res /\ f.reading = me.reading /\ f.raised = me.raised
    BY <1>2, <1>3, FailsOK
  <2>2. workers' = [workers EXCEPT ![w] = f] /\ UNCHANGED <<query, main, budget>>
    BY <1>1, <1>7 DEF budget
  <2> HIDE DEF f
  <2> QED
    BY <1>1, <1>2, <2>1, <2>2, WorkerKeeps
<1> QED
  BY <1>6, <1>7 DEF Push

(* A failed or panicked worker gives back what it held.                    *)
LEMMA DropBudget ==
    ASSUME BudgetInv, NEW w, DropSink(w) \/ Panic(w)
    PROVE  BudgetInv'
<1> DEFINE me == workers[w]
           m == Len(Morsels)
<1>1. /\ Running /\ w \in DOMAIN workers /\ me.raised = 0
      /\ UNCHANGED <<query, main, peak>> /\ next' = next
  BY DEF DropSink, Panic, At, shared
<1>2. /\ WorkerOK(me, m) /\ next \in Nat \ {0} /\ me.res \in Nat /\ me.reading \in Nat
      /\ used \in Nat /\ limit \in Nat /\ used <= limit /\ me.res + me.reading <= used
  BY <1>1, WorkerHere DEF WorkerOK
<1>3. ASSUME NEW x, workers' = [workers EXCEPT ![w] = x], WorkerOK(x, m),
             x.res = 0, x.reading = 0, x.raised = 0, used' = used - me.res - me.reading
      PROVE  BudgetInv'
  <2>1. /\ used' = used - me.res - me.reading + x.res + x.reading
        /\ used' <= used /\ used' <= limit /\ me.raised <= x.raised
    BY <1>1, <1>2, <1>3
  <2> QED
    BY <1>1, <1>2, <1>3, <2>1, WorkerMoves
<1>4. CASE DropSink(w)
  <2>1. me.reading = 0
    BY <1>2, <1>4 DEF DropSink, At, WorkerOK
  <2>2. workers' = [workers EXCEPT ![w] = Dropped(me)] /\ used' = used - me.res
    BY <1>4 DEF DropSink, Dropped
  <2>3. /\ WorkerOK(Dropped(me), m) /\ Dropped(me).res = 0
        /\ Dropped(me).reading = 0 /\ Dropped(me).raised = 0
    BY <1>1, <1>2, <2>1, DroppedOK
  <2>4. used' = used - me.res - me.reading
    BY <1>2, <2>1, <2>2
  <2> DEFINE y == Dropped(me)
  <2>5. /\ workers' = [workers EXCEPT ![w] = y] /\ WorkerOK(y, m)
        /\ y.res = 0 /\ y.reading = 0 /\ y.raised = 0
    BY <2>2, <2>3
  <2> HIDE DEF y
  <2> QED
    BY <1>3, <2>4, <2>5
<1>5. CASE Panic(w)
  <2> DEFINE y == [NewWorker EXCEPT !.pc = "panicked"]
  <2>1. WorkerOK(y, m)
    BY NothingHeld DEF WorkerOK, NewWorker
  <2>2. y.res = 0 /\ y.reading = 0 /\ y.raised = 0
    BY DEF NewWorker
  <2>3. workers' = [workers EXCEPT ![w] = y] /\ used' = used - me.res - me.reading
    BY <1>5 DEF Panic
  <2> HIDE DEF y
  <2> QED
    BY <1>3, <2>1, <2>2, <2>3
<1> QED
  BY <1>4, <1>5

(* fetch_max: the peak is at least what the worker saw in use, and never   *)
(* goes down.                                                              *)
LEMMA RaiseBudget ==
    ASSUME BudgetInv, NEW w, RaisePeak(w)
    PROVE  BudgetInv'
<1> DEFINE me == workers[w]
           m == Len(Morsels)
           x == [me EXCEPT !.raised = 0]
           top == Max({peak, me.raised})
<1>1. /\ Running /\ w \in DOMAIN workers /\ peak' = top
      /\ workers' = [workers EXCEPT ![w] = x]
      /\ UNCHANGED <<query, main, used>> /\ next' = next
  BY DEF RaisePeak, shared
<1>2. WorkerOK(me, m) /\ used \in Nat
  BY <1>1, WorkerHere
<1>3. /\ WorkerOK(x, m) /\ x.res = me.res /\ x.reading = me.reading /\ x.raised = 0
      /\ me.raised \in Nat /\ me.reading \in Nat
  BY <1>2 DEF WorkerOK
<1>4. /\ peak \in Nat /\ top \in Nat /\ top >= peak /\ top >= me.raised
      /\ used <= peak \/ \E v \in DOMAIN workers : used <= workers[v].raised
  <2>1. /\ peak \in Nat
        /\ used <= peak \/ \E v \in DOMAIN workers : used <= workers[v].raised
    BY DEF BudgetInv, PeakInv
  <2>2. peak \in Int /\ me.raised \in Int
    BY <1>3, <2>1
  <2> HIDE DEF me
  <2>3. top \in {peak, me.raised} /\ top >= peak /\ top >= me.raised
    BY <2>2, MaxIs
  <2> QED
    BY <1>3, <2>1, <2>3
<1>5. PICK n \in Nat : PoolOK(workers, n, m) /\ (Running => n # 0)
  BY DEF BudgetInv, PoolInv
<1>6. DOMAIN workers = 1 .. n /\ w \in 1 .. n
  BY <1>1, <1>5 DEF PoolOK
<1>7. /\ plan' = plan /\ limit' = limit /\ sources' = sources /\ merging' = merging
      /\ result' = result /\ used' = used /\ Len(Morsels)' = m
      /\ merging = None /\ result = None
  BY <1>1 DEF query, main, Morsels, Running
<1>8. /\ DOMAIN workers' = 1 .. n /\ workers'[w] = x
      /\ \A v \in 1 .. n : v # w => workers'[v] = workers[v]
      /\ workers' = [v \in 1 .. n |-> workers'[v]]
  BY <1>1, <1>5, <1>6 DEF PoolOK
<1> HIDE DEF x, top
<1>9. PoolOK(workers', n, m)
  BY <1>3, <1>5, <1>8 DEF PoolOK
<1>10. /\ Reserved(workers') = Reserved(workers) /\ Reads(workers') = Reads(workers)
  BY <1>3, <1>6, <1>8 DEF Reserved, Reads
<1>11. StageInv'
  <2>1. StageInv
    BY DEF BudgetInv
  <2>2. IsMorsels(Morsels)' = IsMorsels(Morsels)
    BY <1>7 DEF Morsels, IsMorsels
  <2> QED
    BY <1>1, <1>7, <2>1, <2>2 DEF StageInv
<1>12. PoolInv'
  <2>1. Running /\ n # 0
    BY <1>1, <1>5
  <2>2. PoolOK(workers, n, Len(Morsels))'
    BY <1>7, <1>9
  <2> QED
    BY <2>1, <2>2 DEF PoolInv
<1>13. MergeInv'
  BY <1>7 DEF MergeInv
<1>14. UseInv'
  <2>1. Held' = Held
    BY <1>7, <1>10 DEF Held, Reserved
  <2> QED
    BY <1>7, <1>10, <2>1 DEF UseInv, BudgetInv
<1>15. PeakInv'
  <2>1. ASSUME NEW v \in DOMAIN workers, used <= workers[v].raised
        PROVE  used <= top \/ \E u \in DOMAIN workers' : used <= workers'[u].raised
    <3>1. CASE v = w
      BY <1>2, <1>3, <1>4, <2>1, <3>1
    <3>2. CASE v # w
      BY <1>6, <1>8, <2>1, <3>2
    <3> QED
      BY <3>1, <3>2
  <2>2. used <= peak => used <= top
    BY <1>2, <1>4
  <2> QED
    BY <1>1, <1>4, <1>7, <2>1, <2>2 DEF PeakInv
<1> QED
  BY <1>11, <1>12, <1>13, <1>14, <1>15 DEF BudgetInv

-----------------------------------------------------------------------------
(* The steps of the main thread.                                           *)

(* What is known of the pool when the main thread takes a step: nobody is  *)
(* reading, so the counter is what the sinks hold.                         *)
LEMMA MainHere ==
    ASSUME BudgetInv, \A w \in DOMAIN workers : workers[w].reading = 0
    PROVE  \E n \in Nat :
              /\ PoolOK(workers, n, Len(Morsels)) /\ DOMAIN workers = 1 .. n
              /\ (Running => n # 0)
              /\ used = Held /\ used \in Nat /\ SumFunction(Reads(workers)) = 0
              /\ SumFunction(Reserved(workers)) \in Nat
              /\ \A w \in 1 .. n : /\ workers[w].res \in Nat
                                   /\ workers[w].res <= SumFunction(Reserved(workers))
<1> DEFINE m == Len(Morsels)
<1>1. PICK n \in Nat : PoolOK(workers, n, m) /\ (Running => n # 0)
  BY DEF BudgetInv, PoolInv
<1>2. DOMAIN workers = 1 .. n
  BY <1>1 DEF PoolOK
<1>3. SumFunction(Reads(workers)) = 0
  <2> DEFINE f == Reads(workers)
  <2>1. DOMAIN f = 1 .. n /\ \A w \in 1 .. n : f[w] = 0
    BY <1>2 DEF Reads
  <2> HIDE DEF f
  <2>2. SumFunction(f) = 0
    BY <2>1, SumZero
  <2> QED
    BY <2>2 DEF f
<1>4. /\ SumFunction(Reserved(workers)) \in Nat
      /\ \A w \in 1 .. n : /\ workers[w].res \in Nat
                           /\ workers[w].res <= SumFunction(Reserved(workers))
  BY <1>1, PoolSums
<1>5. Held \in Int
  BY <1>4, HeldBytes DEF Held, Reserved, BudgetInv, MergeInv
<1>6. used = Held /\ used \in Nat
  <2>1. used = Held + SumFunction(Reads(workers)) /\ used \in Nat
    BY DEF BudgetInv, UseInv
  <2> QED
    BY <1>3, <1>5, <2>1
<1> QED
  BY <1>1, <1>2, <1>3, <1>4, <1>6

(* The stage stays the same while the plan and the counter do.             *)
LEMMA SameStage ==
    ASSUME StageInv, UNCHANGED <<query, shared>>
    PROVE  StageInv' /\ Morsels' = Morsels /\ Stage' = Stage
<1>1. /\ plan' = plan /\ limit' = limit /\ sources' = sources /\ next' = next
      /\ Morsels' = Morsels /\ Stage' = Stage
  BY DEF query, shared, Morsels, Stage
<1>2. IsMorsels(Morsels)' = IsMorsels(Morsels)
  BY <1>1 DEF IsMorsels
<1> QED
  BY <1>1, <1>2 DEF StageInv

(* execute returns: everything that is still reserved is given back.       *)
LEMMA ReturnBudget ==
    ASSUME BudgetInv, \A w \in DOMAIN workers : workers[w].reading = 0,
           NEW r, r # None, Return(r), peak' = peak
    PROVE  BudgetInv'
<1>1. /\ used = Held /\ used \in Nat /\ peak \in Nat
  BY MainHere DEF BudgetInv, PeakInv
<1>2. /\ result' = r /\ merging' = None /\ workers' = <<>> /\ used' = 0
      /\ UNCHANGED <<query, shared>> /\ limit' = limit
  BY <1>1 DEF Return, query
<1>3. StageInv' /\ Morsels' = Morsels
  BY <1>2, SameStage DEF BudgetInv
<1>4. /\ PoolOK(<<>>, 0, Len(Morsels))
      /\ SumFunction(Reserved(<<>>)) = 0 /\ SumFunction(Reads(<<>>)) = 0
  BY NoWorkers
<1>5. PoolInv'
  <2>1. PoolOK(workers, 0, Len(Morsels))' /\ ~Running'
    BY <1>2, <1>3, <1>4 DEF Running
  <2> QED
    BY <2>1 DEF PoolInv
<1>6. MergeInv'
  BY <1>2 DEF MergeInv
<1>7. UseInv'
  <2>1. Held' = 0 + SumFunction(Reserved(<<>>))
    BY <1>2 DEF Held, Reserved
  <2>2. limit \in Nat
    BY DEF BudgetInv, StageInv
  <2> QED
    BY <1>2, <1>4, <2>1, <2>2 DEF UseInv
<1>8. PeakInv'
  BY <1>1, <1>2 DEF PeakInv
<1> QED
  BY <1>3, <1>5, <1>6, <1>7, <1>8 DEF BudgetInv

(* The answers are not None.                                               *)
LEMMA Answers ==
    /\ [panic |-> TRUE] # None
    /\ \A e : [err |-> e] # None
    /\ \A rows : [ok |-> rows] # None
<1>1. DOMAIN None = {"none"}
  BY DEF None
<1> QED
  BY <1>1

(* The partial w is taken over: the main thread holds h instead of it.     *)
LEMMA TakeOver ==
    ASSUME BudgetInv, \A w \in DOMAIN workers : workers[w].reading = 0 /\ workers[w].raised = 0,
           NEW w \in DOMAIN workers, NEW h, IsHeld(h), w \in Nat \ {0},
           \A v \in DOMAIN workers : v < w => workers[v].res = 0,
           result = None, UNCHANGED <<query, shared, result>>,
           merging' = [held |-> h, res |-> Bytes(h), left |-> w + 1],
           workers' = [workers EXCEPT ![w] = [NewWorker EXCEPT !.pc = "done"]],
           used' = used - workers[w].res + Bytes(h)
                        - (IF merging = None THEN 0 ELSE merging.res),
           used' <= limit, peak' \in Nat, used' <= peak'
    PROVE  BudgetInv'
<1> DEFINE m == Len(Morsels)
           x == [NewWorker EXCEPT !.pc = "done"]
<1>1. PICK n \in Nat :
         /\ PoolOK(workers, n, m) /\ DOMAIN workers = 1 .. n
         /\ (Running => n # 0)
         /\ used = Held /\ used \in Nat /\ SumFunction(Reads(workers)) = 0
         /\ SumFunction(Reserved(workers)) \in Nat
         /\ \A v \in 1 .. n : /\ workers[v].res \in Nat
                              /\ workers[v].res <= SumFunction(Reserved(workers))
  BY MainHere
<1>2. x.res = 0 /\ x.reading = 0 /\ x.raised = 0
  BY DEF NewWorker
<1>3. /\ PoolOK(workers', n, m)
      /\ SumFunction(Reserved(workers')) = SumFunction(Reserved(workers)) - workers[w].res
      /\ SumFunction(Reads(workers')) = 0
  <2> DEFINE new == workers'
  <2>1. /\ DOMAIN new = 1 .. n /\ new = [v \in 1 .. n |-> new[v]]
        /\ new[w] = x /\ \A v \in 1 .. n : v # w => new[v] = workers[v]
    BY <1>1 DEF PoolOK
  <2>2. WorkerOK(x, m)
    BY NothingHeld DEF WorkerOK, NewWorker
  <2>3. workers[w].reading = 0 /\ w \in 1 .. n
    BY <1>1
  <2> HIDE DEF m, new, x
  <2>4. /\ PoolOK(new, n, m)
        /\ SumFunction(Reserved(new)) = SumFunction(Reserved(workers)) - workers[w].res + x.res
        /\ SumFunction(Reads(new)) = SumFunction(Reads(workers)) - workers[w].reading + x.reading
    BY <1>1, <2>1, <2>2, <2>3, OneWorker
  <2>5. workers[w].res \in Nat
    BY <1>1, <2>3
  <2>6. /\ SumFunction(Reserved(new)) = SumFunction(Reserved(workers)) - workers[w].res
        /\ SumFunction(Reads(new)) = 0
    BY <1>1, <1>2, <2>3, <2>4, <2>5
  <2> QED
    BY <2>4, <2>6 DEF new
<1>4. /\ DOMAIN workers' = 1 .. n /\ workers'[w] = x
      /\ \A v \in 1 .. n : v # w => workers'[v] = workers[v]
  BY <1>1 DEF PoolOK
<1>5. StageInv' /\ Morsels' = Morsels
  BY SameStage DEF BudgetInv
<1>6. /\ merging'.held = h /\ merging'.res = Bytes(h) /\ merging'.left = w + 1
      /\ merging' # None
  <2>1. DOMAIN None = {"none"} /\ DOMAIN merging' = {"held", "res", "left"}
    BY DEF None
  <2> QED
    BY <2>1
<1>7. PoolInv'
  <2>1. PoolOK(workers, n, Len(Morsels))' /\ ~Running'
    BY <1>3, <1>5, <1>6 DEF Running
  <2> QED
    BY <2>1 DEF PoolInv
<1>8. MergeInv'
  <2>1. \A v \in DOMAIN workers' :
           /\ workers'[v].raised = 0 /\ workers'[v].reading = 0
           /\ v < w + 1 => workers'[v].res = 0
    <3> SUFFICES ASSUME NEW v \in 1 .. n
                 PROVE  /\ workers'[v].raised = 0 /\ workers'[v].reading = 0
                        /\ v < w + 1 => workers'[v].res = 0
      BY <1>4
    <3>1. CASE v = w
      BY <1>2, <1>4, <3>1
    <3>2. CASE v # w
      <4>1. workers'[v] = workers[v]
        BY <1>4, <3>2
      <4>2. v < w + 1 => v < w
        BY <3>2
      <4> QED
        BY <1>1, <4>1, <4>2
    <3> QED
      BY <3>1, <3>2
  <2> QED
    BY <1>6, <2>1 DEF MergeInv
<1>9. UseInv'
  <2>1. Held' = Bytes(h) + SumFunction(Reserved(workers'))
    BY <1>6 DEF Held, Reserved
  <2>2. /\ used = (IF merging = None THEN 0 ELSE merging.res) + SumFunction(Reserved(workers))
    BY <1>1 DEF Held, Reserved
  <2>3. /\ (IF merging = None THEN 0 ELSE merging.res) \in Nat
        /\ Bytes(h) \in Nat /\ workers[w].res \in Nat
    BY <1>1, HeldBytes DEF BudgetInv, MergeInv
  <2>4. used' = Held' /\ Held' \in Nat
    <3> DEFINE a == IF merging = None THEN 0 ELSE merging.res
               s == SumFunction(Reserved(workers))
               t == SumFunction(Reserved(workers'))
               b == Bytes(h)
               c == workers[w].res
    <3>1. /\ used = a + s /\ t = s - c /\ used' = used - c + b - a /\ Held' = b + t
          /\ c <= s
      BY <1>1, <1>3, <2>1, <2>2
    <3>2. a \in Nat /\ s \in Nat /\ b \in Nat /\ c \in Nat
      BY <1>1, <2>3
    <3> HIDE DEF a, s, t, b, c
    <3> QED
      BY <3>1, <3>2
  <2>5. used' = Held' + SumFunction(Reads(workers'))
    BY <1>3, <2>4
  <2>6. limit' = limit
    BY DEF query
  <2> QED
    BY <2>4, <2>5, <2>6 DEF UseInv, Reads
<1>10. PeakInv'
  BY DEF PeakInv
<1> QED
  BY <1>5, <1>7, <1>8, <1>9, <1>10 DEF BudgetInv

(* The join waits for every worker; the first partial is the main thread's.*)
LEMMA JoinBudget ==
    ASSUME BudgetInv, Join
    PROVE  BudgetInv'
<1>1. Running /\ AllOver /\ merging = None /\ result = None
  BY DEF Join, Running
<1>2. PICK n \in Nat : PoolOK(workers, n, Len(Morsels)) /\ DOMAIN workers = 1 .. n /\ n # 0
  BY <1>1 DEF BudgetInv, PoolInv, PoolOK
<1>3. \A w \in DOMAIN workers : workers[w].reading = 0 /\ workers[w].raised = 0
  BY <1>1, <1>2 DEF AllOver, PoolOK, WorkerOK
<1>4. ASSUME NEW r, r # None, Return(r), peak' = peak
      PROVE  BudgetInv'
  BY <1>3, <1>4, ReturnBudget
<1>5. CASE Return([panic |-> TRUE]) /\ UNCHANGED peak
  BY <1>4, <1>5, Answers
<1>6. CASE Return([err |-> error]) /\ UNCHANGED peak
  BY <1>4, <1>6, Answers
<1>7. CASE /\ merging' = [held |-> workers[1].held, res |-> workers[1].res, left |-> 2]
           /\ workers' = [workers EXCEPT ![1] = [NewWorker EXCEPT !.pc = "done"]]
           /\ UNCHANGED <<query, shared, cancelled, budget, result, faults>>
  <2> DEFINE h == workers[1].held
  <2>1. 1 \in DOMAIN workers /\ \A v \in DOMAIN workers : ~(v < 1)
    BY <1>2
  <2>2. IsHeld(h) /\ workers[1].res = Bytes(h) /\ Bytes(h) \in Nat
    BY <1>2, <2>1, HeldBytes DEF PoolOK, WorkerOK
  <2> HIDE DEF h
  <2>3. /\ used \in Nat /\ used <= limit /\ peak \in Nat
        /\ used <= peak \/ \E w \in DOMAIN workers : used <= workers[w].raised
    BY DEF BudgetInv, UseInv, PeakInv
  <2>4. used <= peak
    BY <1>3, <2>3
  <2>5. /\ used' = used /\ peak' = peak
        /\ merging' = [held |-> h, res |-> Bytes(h), left |-> 1 + 1]
        /\ UNCHANGED <<query, shared, result>>
    BY <1>7, <2>2 DEF budget, h
  <2>6. used' = used - workers[1].res + Bytes(h) - (IF merging = None THEN 0 ELSE merging.res)
    BY <1>1, <2>2, <2>3, <2>5
  <2>7. peak' \in Nat /\ used' <= peak' /\ used' <= limit /\ 1 \in Nat \ {0}
    BY <2>3, <2>4, <2>5
  <2>8. \A v \in DOMAIN workers : v < 1 => workers[v].res = 0
    BY <2>1
  <2>9. workers' = [workers EXCEPT ![1] = [NewWorker EXCEPT !.pc = "done"]]
    BY <1>7
  <2> QED
    BY <1>1, <1>3, <2>1, <2>2, <2>5, <2>6, <2>7, <2>8, <2>9, TakeOver
<1> QED
  BY <1>5, <1>6, <1>7 DEF Join

(* The next partial is merged: its bytes are given back before the main    *)
(* thread takes its own.                                                   *)
LEMMA MergeBudget ==
    ASSUME BudgetInv, Merge
    PROVE  BudgetInv'
<1> DEFINE w == merging.left
           held == SinkMerge(Stage, merging.held, workers[w].held)
           total == UsedMerging(held)
<1>1. /\ merging # None /\ w \in DOMAIN workers /\ result = None /\ w \in Nat \ {0}
      /\ IsHeld(merging.held) /\ merging.res = Bytes(merging.held)
      /\ \A v \in DOMAIN workers :
            /\ workers[v].raised = 0 /\ workers[v].reading = 0
            /\ v < w => workers[v].res = 0
  BY DEF Merge, BudgetInv, MergeInv
<1>2. PICK n \in Nat :
         /\ PoolOK(workers, n, Len(Morsels)) /\ DOMAIN workers = 1 .. n
         /\ used = Held /\ used \in Nat
         /\ SumFunction(Reserved(workers)) \in Nat
         /\ \A v \in 1 .. n : /\ workers[v].res \in Nat
                              /\ workers[v].res <= SumFunction(Reserved(workers))
  BY <1>1, MainHere
<1>3. ASSUME NEW r, r # None, Return(r), peak' = peak
      PROVE  BudgetInv'
  BY <1>1, <1>3, ReturnBudget
<1>4. CASE Return([err |-> "cancelled"]) /\ UNCHANGED peak
  BY <1>3, <1>4, Answers
<1>5. CASE Return([err |-> "budget"]) /\ UNCHANGED peak
  BY <1>3, <1>5, Answers
<1>6. CASE /\ ~(total > limit)
           /\ used' = total
           /\ peak' = Max({peak, total})
           /\ merging' = [held |-> held, res |-> Bytes(held), left |-> w + 1]
           /\ workers' = [workers EXCEPT ![w] = [NewWorker EXCEPT !.pc = "done"]]
           /\ UNCHANGED <<query, shared, cancelled, result, faults>>
  <2>1. IsHeld(held) /\ Bytes(held) \in Nat
    <3>1. Stage \in StageType /\ IsHeld(workers[w].held)
      BY <1>1, <1>2, StageTyped DEF BudgetInv, PoolOK, WorkerOK
    <3> DEFINE other == workers[w].held
    <3> HIDE DEF other
    <3>2. IsHeld(SinkMerge(Stage, merging.held, other))
      BY <1>1, <3>1, MergeHeld DEF other
    <3>3. IsHeld(held)
      BY <3>2 DEF other
    <3> HIDE DEF held
    <3> QED
      BY <3>3, HeldBytes
  <2>2. /\ total = used - workers[w].res + Bytes(held) - merging.res
        /\ merging.res \in Nat /\ workers[w].res \in Nat /\ peak \in Nat /\ limit \in Nat
        /\ used \in Nat
    BY <1>1, <1>2, HeldBytes DEF UsedMerging, BudgetInv, PeakInv, StageInv
  <2> HIDE DEF held, total
  <2>3. total \in Int
    BY <2>1, <2>2
  <2>4. Max({peak, total}) \in {peak, total} /\ Max({peak, total}) >= peak
        /\ Max({peak, total}) >= total
    <3>1. peak \in Int
      BY <2>2
    <3> QED
      BY <2>3, <3>1, MaxIs
  <2>5. peak' \in Nat /\ used' <= peak' /\ used' <= limit
    BY <1>6, <2>2, <2>3, <2>4
  <2>6. used' = used - workers[w].res + Bytes(held)
                     - (IF merging = None THEN 0 ELSE merging.res)
    BY <1>1, <1>6, <2>2
  <2>7. UNCHANGED <<query, shared, result>>
    BY <1>6
  <2> HIDE DEF w
  <2> QED
    BY <1>1, <1>6, <2>1, <2>5, <2>6, <2>7, TakeOver
<1> QED
  BY <1>4, <1>5, <1>6 DEF Merge

(* The batches of a result, as the morsels of the next stage.              *)
LEMMA NextMorsels ==
    ASSUME NEW out, IsHeld(out)
    PROVE  IsMorsels([b \in DOMAIN out |-> <<out[b]>>])
<1>1. PICK S : out \in Seq(Seq(S))
  BY DEF IsHeld
<1> DEFINE ms == [b \in DOMAIN out |-> <<out[b]>>]
<1>2. DOMAIN out = 1 .. Len(out) /\ Len(out) \in Nat
  BY <1>1
<1>3. \A b \in 1 .. Len(out) : <<out[b]>> \in Seq(Seq(S))
  <2> SUFFICES ASSUME NEW b \in 1 .. Len(out)
               PROVE  <<out[b]>> \in Seq(Seq(S))
    OBVIOUS
  <2>1. out[b] \in Seq(S)
    BY <1>1
  <2> DEFINE T == Seq(S)
  <2> HIDE DEF T
  <2>2. \A y \in T : <<y>> \in Seq(T)
    OBVIOUS
  <2> QED
    BY <2>1, <2>2 DEF T
<1>4. ms \in [1 .. Len(out) -> Seq(Seq(S))]
  BY <1>2, <1>3
<1>5. ms \in Seq(Seq(Seq(S)))
  <2> DEFINE T == Seq(Seq(S))
  <2> HIDE DEF T, ms
  <2>1. ms \in [1 .. Len(out) -> T]
    BY <1>4 DEF T
  <2>2. ms \in Seq(T)
    BY <1>2, <2>1
  <2> QED
    BY <2>2 DEF T
<1> HIDE DEF ms
<1>6. IsMorsels(ms)
  BY <1>5 DEF IsMorsels
<1> QED
  BY <1>6 DEF ms

(* A stage has been added to the plan's progress.                          *)
LEMMA NextStage ==
    ASSUME StageInv, NEW ms, IsMorsels(ms), Len(sources) # Len(plan),
           UNCHANGED <<plan, limit>>, sources' = Append(sources, ms), next' = 1
    PROVE  StageInv' /\ Morsels' = ms
<1>1. PICK S : sources \in Seq(S)
  BY DEF StageInv
<1>2. Len(sources) \in 1 .. Len(plan) /\ plan \in Plans /\ limit \in Nat
  BY DEF StageInv
<1>3. Len(plan) \in Nat
  BY <1>2, QueryAssumption
<1> DEFINE U == S \cup {ms}
<1>4. /\ Append(sources, ms) \in Seq(U)
      /\ Len(Append(sources, ms)) = Len(sources) + 1
      /\ Append(sources, ms)[Len(sources) + 1] = ms
  <2>1. sources \in Seq(U) /\ ms \in U
    BY <1>1
  <2> HIDE DEF U
  <2> QED
    BY <2>1
<1> HIDE DEF U
<1>5. Len(sources') \in 1 .. Len(plan) /\ sources' \in Seq(U)
  BY <1>2, <1>3, <1>4
<1>6. Morsels' = ms
  BY <1>4 DEF Morsels
<1>7. IsMorsels(Morsels)'
  BY <1>6 DEF IsMorsels
<1> QED
  BY <1>2, <1>5, <1>6, <1>7 DEF StageInv

(* The stage is over: what is left is the reservation of the merged sink,  *)
(* and it is given back.                                                   *)
LEMMA FinishBudget ==
    ASSUME BudgetInv, Finish
    PROVE  BudgetInv'
<1> DEFINE out == SinkFinish(Stage, merging.held)
           morsels == [b \in DOMAIN out |-> <<out[b]>>]
<1>1. /\ merging # None /\ merging.left \notin DOMAIN workers /\ result = None
      /\ merging.left \in Nat \ {0}
      /\ IsHeld(merging.held) /\ merging.res = Bytes(merging.held)
      /\ \A v \in DOMAIN workers :
            /\ workers[v].raised = 0 /\ workers[v].reading = 0
            /\ v < merging.left => workers[v].res = 0
  BY DEF Finish, BudgetInv, MergeInv
<1>2. PICK n \in Nat :
         /\ PoolOK(workers, n, Len(Morsels)) /\ DOMAIN workers = 1 .. n
         /\ used = Held /\ used \in Nat
  BY <1>1, MainHere
<1>3. SumFunction(Reserved(workers)) = 0
  <2> DEFINE f == Reserved(workers)
  <2>1. \A v \in 1 .. n : v < merging.left
    BY <1>1, <1>2
  <2>2. DOMAIN f = 1 .. n /\ \A v \in 1 .. n : f[v] = 0
    BY <1>1, <1>2, <2>1 DEF Reserved
  <2> HIDE DEF f
  <2>3. SumFunction(f) = 0
    BY <2>2, SumZero
  <2> QED
    BY <2>3 DEF f
<1>4. used = merging.res
  BY <1>1, <1>2, <1>3, HeldBytes DEF Held, Reserved
<1>5. ASSUME NEW r, r # None, Return(r), peak' = peak
      PROVE  BudgetInv'
  BY <1>1, <1>5, ReturnBudget
<1>6. CASE Return([err |-> "cancelled"]) /\ UNCHANGED peak
  BY <1>5, <1>6, Answers
<1>7. CASE Return([err |-> "budget"]) /\ UNCHANGED peak
  BY <1>5, <1>7, Answers
<1>8. IsHeld(out) /\ IsMorsels(morsels) /\ Len(morsels) \in Nat
  <2>1. Stage \in StageType
    BY StageTyped DEF BudgetInv
  <2>2. IsHeld(out)
    BY <1>1, <2>1, FinishHeld
  <2> HIDE DEF out
  <2>3. IsMorsels(morsels)
    BY <2>2, NextMorsels
  <2> HIDE DEF morsels
  <2> QED
    BY <2>2, <2>3 DEF IsMorsels
<1>9. ASSUME peak' = Max({peak, used + FinishBytes}), used' = used - merging.res,
             merging' = None, UNCHANGED <<plan, limit, segments, cancelled, faults>>,
             NEW k \in Nat, NEW m, m = Len(Morsels)', PoolOK(workers', k, m),
             Running' => k # 0,
             SumFunction(Reserved(workers')) = 0, SumFunction(Reads(workers')) = 0,
             StageInv'
      PROVE  BudgetInv'
  <2>1. used' = 0 /\ limit' \in Nat
    BY <1>2, <1>4, <1>9 DEF BudgetInv, StageInv
  <2>2. PoolInv'
    BY <1>9 DEF PoolInv
  <2>3. MergeInv'
    BY <1>9 DEF MergeInv
  <2>4. UseInv'
    <3>1. Held' = 0
      BY <1>9 DEF Held, Reserved
    <3> QED
      BY <1>9, <2>1, <3>1 DEF UseInv, Reads
  <2>5. PeakInv'
    <3> DEFINE top == used + FinishBytes
    <3>1. peak \in Nat /\ FinishBytes \in Nat
      BY <1>1, HeldBytes DEF BudgetInv, PeakInv, FinishBytes
    <3>2. top \in Nat
      BY <1>2, <3>1
    <3> HIDE DEF top
    <3>3. peak' = Max({peak, top}) /\ peak \in Int /\ top \in Int
      BY <1>9, <3>1, <3>2 DEF top
    <3>4. peak' \in {peak, top}
      BY <3>3, MaxIs
    <3> QED
      BY <2>1, <3>1, <3>2, <3>4 DEF PeakInv
  <2> QED
    BY <1>9, <2>2, <2>3, <2>4, <2>5 DEF BudgetInv
<1>10. CASE /\ peak' = Max({peak, used + FinishBytes})
            /\ used' = used - merging.res
            /\ merging' = None
            /\ IF Len(sources) = Len(plan)
                 THEN /\ result' = [ok |-> Concat(out)]
                      /\ workers' = <<>>
                      /\ UNCHANGED <<sources, shared>>
                 ELSE /\ sources' = Append(sources, morsels)
                      /\ workers' = Pool(morsels)
                      /\ next' = 1 /\ stop' = FALSE /\ error' = NoError
                      /\ UNCHANGED result
            /\ UNCHANGED <<plan, limit, segments, cancelled, faults>>
  <2> HIDE DEF out, morsels
  <2> DEFINE m == Len(Morsels)'
  <2>1. CASE Len(sources) = Len(plan)
    <3>1. result' # None /\ workers' = <<>> /\ UNCHANGED <<query, shared>>
      BY <1>10, <2>1, Answers DEF query
    <3>2. StageInv' /\ ~Running'
      BY <3>1, SameStage DEF BudgetInv, Running
    <3> HIDE DEF m
    <3>3. /\ PoolOK(<<>>, 0, m)
          /\ SumFunction(Reserved(<<>>)) = 0 /\ SumFunction(Reads(<<>>)) = 0
      BY NoWorkers
    <3>4. m = Len(Morsels)'
      BY DEF m
    <3> QED
      BY <1>9, <1>10, <3>1, <3>2, <3>3, <3>4
  <2>2. CASE Len(sources) # Len(plan)
    <3>1. StageInv' /\ workers' = Pool(morsels)
      BY <1>8, <1>10, <2>2, NextStage DEF BudgetInv
    <3> HIDE DEF m
    <3>2. PICK k \in Nat \ {0} :
              /\ PoolOK(Pool(morsels), k, m)
              /\ SumFunction(Reserved(Pool(morsels))) = 0
              /\ SumFunction(Reads(Pool(morsels))) = 0
      BY <1>8, NewPool
    <3>3. m = Len(Morsels)'
      BY DEF m
    <3> QED
      BY <1>9, <1>10, <3>1, <3>2, <3>3
  <2> QED
    BY <2>1, <2>2
<1> QED
  BY <1>6, <1>7, <1>10 DEF Finish

-----------------------------------------------------------------------------
(* The budget is kept.                                                     *)

(* The scan starts with nothing reserved.                                  *)
LEMMA BudgetStarts == Init => BudgetInv
<1> SUFFICES ASSUME Init PROVE BudgetInv
  OBVIOUS
<1>1. PICK t \in Tables :
         /\ sources = <<t.segments \o t.buffered>>
         /\ workers = Pool(t.segments \o t.buffered)
  BY DEF Init
<1> DEFINE ms == t.segments \o t.buffered
<1>2. IsMorsels(ms) /\ Len(ms) \in Nat
  <2> DEFINE T == Seq(Seq(Rows))
             a == t.segments
             b == t.buffered
  <2>1. a \in Seq(T) /\ b \in Seq(T)
    BY QueryAssumption
  <2> HIDE DEF T, a, b
  <2>2. a \o b \in Seq(T) /\ Len(a \o b) \in Nat
    BY <2>1
  <2> QED
    BY <2>2 DEF T, a, b, IsMorsels
<1> HIDE DEF ms
<1>3. sources = <<ms>> /\ workers = Pool(ms)
  BY <1>1 DEF ms
<1>4. Len(sources) = 1 /\ sources \in Seq({ms}) /\ Morsels = ms
  <2>1. Len(sources) = 1 /\ sources[1] = ms /\ sources \in Seq({ms})
    BY <1>3
  <2> QED
    BY <2>1 DEF Morsels
<1>5. /\ plan \in Plans /\ limit \in Nat /\ next = 1 /\ used = 0 /\ peak = 0
      /\ merging = None /\ result = None
  BY QueryAssumption DEF Init
<1>6. Len(plan) \in Nat /\ 1 <= Len(plan)
  <2>1. plan \in Seq(StageType) /\ plan # <<>>
    BY <1>5, QueryAssumption
  <2> HIDE QueryAssumption
  <2> QED
    BY <2>1
<1>7. StageInv
  BY <1>2, <1>4, <1>5, <1>6 DEF StageInv
<1> DEFINE m == Len(Morsels)
<1> HIDE DEF m
<1>8. PICK n \in Nat \ {0} :
         /\ PoolOK(Pool(ms), n, m)
         /\ SumFunction(Reserved(Pool(ms))) = 0
         /\ SumFunction(Reads(Pool(ms))) = 0
  BY <1>2, NewPool
<1>9. PoolInv
  BY <1>3, <1>8 DEF PoolInv, m
<1>10. MergeInv
  BY <1>5 DEF MergeInv
<1>11. UseInv
  <2>1. Held = 0
    BY <1>3, <1>5, <1>8 DEF Held, Reserved
  <2> QED
    BY <1>3, <1>5, <1>8, <2>1 DEF UseInv
<1>12. PeakInv
  BY <1>5 DEF PeakInv
<1> QED
  BY <1>7, <1>9, <1>10, <1>11, <1>12 DEF BudgetInv

(* No step of a worker, of the main thread or of the canceller breaks it.  *)
LEMMA BudgetStep == BudgetInv /\ [Next]_vars => BudgetInv'
<1> SUFFICES ASSUME BudgetInv, [Next]_vars PROVE BudgetInv'
  OBVIOUS
<1>1. ASSUME NEW w, WorkerStep(w) \/ ReadError(w) \/ Panic(w)
      PROVE  BudgetInv'
  <2>1. CASE Claim(w)
    BY <2>1, ClaimBudget
  <2>2. CASE Read(w)
    BY <2>2, ReadBudget
  <2>3. CASE ReadMemory(w)
    BY <2>3, ReadMemoryBudget
  <2>4. CASE RaisePeak(w)
    BY <2>4, RaiseBudget
  <2>5. CASE ReadOver(w) \/ ReadError(w)
    BY <2>5, ReadOverBudget
  <2>6. CASE Push(w)
    BY <2>6, PushBudget
  <2>7. CASE EmptyMorsel(w)
    BY <2>7, EmptyMorselBudget
  <2>8. CASE SetStop(w) \/ RecordError(w)
    BY <2>8, ErrorBudget
  <2>9. CASE DropSink(w) \/ Panic(w)
    BY <2>9, DropBudget
  <2> QED
    BY <1>1, <2>1, <2>2, <2>3, <2>4, <2>5, <2>6, <2>7, <2>8, <2>9 DEF WorkerStep
<1>2. CASE MainStep
  BY <1>2, JoinBudget, MergeBudget, FinishBudget DEF MainStep
<1>3. CASE Cancel \/ UNCHANGED vars
  <2>1. /\ UNCHANGED <<query, shared, workers, main, budget>>
    BY <1>3 DEF Cancel, vars
  <2>2. /\ StageInv' /\ Morsels' = Morsels
    BY <2>1, SameStage DEF BudgetInv
  <2>3. /\ workers' = workers /\ merging' = merging /\ result' = result
        /\ used' = used /\ peak' = peak /\ limit' = limit
    BY <2>1 DEF main, budget, query
  <2>4. PoolInv' /\ MergeInv' /\ PeakInv'
    BY <2>2, <2>3 DEF BudgetInv, PoolInv, MergeInv, PeakInv, Running
  <2>5. UseInv'
    <3>1. Held' = Held
      BY <2>3 DEF Held
    <3> QED
      BY <2>3, <3>1 DEF BudgetInv, UseInv
  <2> QED
    BY <2>2, <2>4, <2>5 DEF BudgetInv
<1> QED
  BY <1>1, <1>2, <1>3 DEF Next

(* What the invariant says of the budget.                                  *)
LEMMA BudgetFollows == BudgetInv => BudgetKept
<1> SUFFICES ASSUME BudgetInv PROVE BudgetKept
  OBVIOUS
<1>1. BudgetExact
  BY DEF BudgetInv, UseInv, BudgetExact, Reads
<1>2. MergeWithinBudget
  <2> SUFFICES ASSUME merging # None, merging.left \in DOMAIN workers,
                      Stage.sink # "aggregate"
               PROVE  UsedMerging(SinkMerge(Stage, merging.held, workers[merging.left].held))
                        <= limit
    BY DEF MergeWithinBudget
  <2> DEFINE w == merging.left
             h == merging.held
             other == workers[w].held
             held == SinkMerge(Stage, h, other)
  <2>1. /\ IsHeld(h) /\ merging.res = Bytes(h)
        /\ \A v \in DOMAIN workers : workers[v].reading = 0
    BY DEF BudgetInv, MergeInv
  <2>2. PICK n \in Nat :
           /\ PoolOK(workers, n, Len(Morsels)) /\ DOMAIN workers = 1 .. n
           /\ used = Held /\ used \in Nat
           /\ SumFunction(Reserved(workers)) \in Nat
           /\ \A v \in 1 .. n : /\ workers[v].res \in Nat
                                /\ workers[v].res <= SumFunction(Reserved(workers))
    BY <2>1, MainHere
  <2>3. IsHeld(other) /\ workers[w].res = Bytes(other) /\ w \in DOMAIN workers
    BY <2>2 DEF PoolOK, WorkerOK
  <2>4. Stage \in StageType /\ used <= limit /\ limit \in Nat
    BY StageTyped DEF BudgetInv, UseInv, StageInv
  <2> HIDE DEF other, h
  <2>5. IsHeld(held) /\ Bytes(held) <= Bytes(h) + Bytes(other)
    BY <2>1, <2>3, <2>4, MergeHeld
  <2>6. Bytes(h) \in Nat /\ Bytes(other) \in Nat /\ Bytes(held) \in Nat
    <3> HIDE DEF held
    <3> QED
      BY <2>1, <2>3, <2>5, HeldBytes
  <2> HIDE DEF held
  <2>7. UsedMerging(held) = used - Bytes(other) + Bytes(held) - Bytes(h)
    BY <2>1, <2>3 DEF UsedMerging
  <2>8. UsedMerging(held) <= limit
    BY <2>2, <2>4, <2>5, <2>6, <2>7
  <2> QED
    BY <2>8 DEF held, h, other
<1>3. PeakCoversUse
  BY DEF BudgetInv, UseInv, PeakInv, PeakCoversUse
<1> QED
  BY <1>1, <1>2, <1>3 DEF BudgetKept

(* The memory budget is exact at every step, through failed reads, panics, *)
(* cancellation and merges, for any number of threads, tables and plans:   *)
(* Budget and Reservation of exec/mod.rs count what sinks and reads hold,  *)
(* never more than the limit, nothing once the query is over; a merge of   *)
(* partial sinks that fit never runs out of it; and the reported peak      *)
(* covers the use.                                                         *)
THEOREM BudgetAlways == Spec => []BudgetKept
<1>1. Spec => []BudgetInv
  BY BudgetStarts, BudgetStep, PTL DEF Spec
<1> QED
  BY <1>1, BudgetFollows, PTL
=============================================================================
