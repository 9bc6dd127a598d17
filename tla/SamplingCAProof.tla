-------------------------- MODULE SamplingCAProof --------------------------
(***************************************************************************)
(* Proofs about SamplingCA, for any files and strengths: what the search   *)
(* for uncovered tuples counts off without coming to it is what no row can *)
(* cover; the counters that are kept by increments are right; and at the   *)
(* end exactly the valid tuples are covered.                               *)
(***************************************************************************)
EXTENDS SamplingCA, Foundations

-----------------------------------------------------------------------------
(* The powers of two are defined for every exponent.                       *)
LEMMA PowersOfTwo ==
  /\ PowerOfTwo[0] = 1
  /\ \A n \in Nat : PowerOfTwo[n] \in Nat /\ PowerOfTwo[n + 1] = 2 * PowerOfTwo[n]
<1> DEFINE F(c) == [k \in Nat |-> IF k = 0 THEN 1 ELSE 2 * c[k - 1]]
           c0 == CHOOSE c : c = F(c)
           step == [n \in Nat |-> [x \in Nat |-> 2 * x]]
<1>1. PowerOfTwo = c0
  BY DEF PowerOfTwo
<1>2. PICK g : Follows(g, Nat, 1, step)
  <2>1. step \in [Nat -> [Nat -> Nat]] /\ 1 \in Nat
    OBVIOUS
  <2> HIDE DEF step
  <2>2. QED  BY <2>1, Recursion
<1>3. g \in [Nat -> Nat] /\ g[0] = 1 /\ \A n \in Nat : g[n + 1] = 2 * g[n]
  BY <1>2 DEF Follows
<1>4. g = F(g)
  <2>1. \A k \in Nat : g[k] = IF k = 0 THEN 1 ELSE 2 * g[k - 1]
    <3> SUFFICES ASSUME NEW k \in Nat, k # 0 PROVE g[k] = 2 * g[k - 1]
      BY <1>3
    <3>1. k - 1 \in Nat /\ (k - 1) + 1 = k
      OBVIOUS
    <3>2. g[(k - 1) + 1] = 2 * g[k - 1]
      BY <1>3, <3>1
    <3>3. QED  BY <3>1, <3>2
  <2>2. QED  BY <1>3, <2>1
<1>5. c0 = F(c0)
  <2> HIDE DEF F
  <2>1. QED  BY <1>4
<1>6. \A k \in Nat : PowerOfTwo[k] = IF k = 0 THEN 1 ELSE 2 * PowerOfTwo[k - 1]
  <2> HIDE DEF c0
  <2>1. PowerOfTwo = F(PowerOfTwo)
    BY <1>1, <1>5
  <2>2. QED  BY <2>1
<1> HIDE DEF c0
<1>7. PowerOfTwo[0] = 1 /\ \A n \in Nat : PowerOfTwo[n + 1] = 2 * PowerOfTwo[n]
  <2>1. \A n \in Nat : n + 1 \in Nat /\ n + 1 # 0 /\ (n + 1) - 1 = n
    OBVIOUS
  <2>2. QED  BY <1>6, <2>1
<1>8. ASSUME NEW m \in Nat PROVE PowerOfTwo[m] \in Nat
  <2> DEFINE Good == { n \in Nat : PowerOfTwo[n] \in Nat }
  <2>1. 0 \in Good /\ \A n \in 0 .. m - 1 : n \in Good => n + 1 \in Good
    BY <1>7
  <2> HIDE DEF Good
  <2>2. m \in Good
    BY <2>1, Upward
  <2>3. QED  BY <2>2 DEF Good
<1>9. QED  BY <1>7, <1>8

(* There are 2^m ways to give m literals their signs.                      *)
LEMMA SignsCount ==
  ASSUME NEW m \in Nat
  PROVE  /\ IsFiniteSet([1 .. m -> {-1, 1}])
         /\ Cardinality([1 .. m -> {-1, 1}]) = PowerOfTwo[m]
<1> DEFINE S(n) == [1 .. n -> {-1, 1}]
           Good == { n \in Nat : IsFiniteSet(S(n)) /\ Cardinality(S(n)) = PowerOfTwo[n] }
<1>1. 0 \in Good
  <2> DEFINE e == [i \in 1 .. 0 |-> 1]
  <2>1. S(0) = {e}
    <3>1. 1 .. 0 = {} /\ e \in S(0)
      OBVIOUS
    <3>2. \A s \in S(0) : s = e
      BY <3>1
    <3> HIDE DEF e, S
    <3>3. QED  BY <3>1, <3>2
  <2> HIDE DEF e
  <2>2. IsFiniteSet(S(0)) /\ Cardinality(S(0)) = 1
    BY <2>1, FS_Singleton
  <2>3. QED  BY <2>2, PowersOfTwo
<1>2. ASSUME NEW n \in 0 .. m - 1, n \in Good PROVE n + 1 \in Good
  <2>0. n \in Nat /\ IsFiniteSet(S(n)) /\ Cardinality(S(n)) = PowerOfTwo[n] /\ PowerOfTwo[n] \in Nat
    BY <1>2, PowersOfTwo
  <2> DEFINE A == S(n) \X {-1, 1}
             f == [x \in A |-> [i \in 1 .. n + 1 |-> IF i = n + 1 THEN x[2] ELSE x[1][i]]]
  <2>1. IsFiniteSet({-1, 1}) /\ Cardinality({-1, 1}) = 2
    <3>1. {-1, 1} = {-1} \cup {1} /\ 1 \notin {-1}
      OBVIOUS
    <3> DEFINE a == -1
    <3> HIDE DEF a
    <3>2. IsFiniteSet({a}) /\ Cardinality({a}) = 1
      BY FS_Singleton
    <3>3. 1 \notin {a} => IsFiniteSet({a} \cup {1}) /\ Cardinality({a} \cup {1}) = 1 + 1
      BY <3>2, FS_AddElement
    <3>4. QED  BY <3>1, <3>3 DEF a
  <2>2. IsFiniteSet(A) /\ Cardinality(A) = PowerOfTwo[n] * 2
    <3> DEFINE a == S(n)
               b == {-1, 1}
    <3>1. IsFiniteSet(a) /\ IsFiniteSet(b) /\ Cardinality(a) = PowerOfTwo[n] /\ Cardinality(b) = 2
      BY <2>0, <2>1
    <3> HIDE DEF a, b
    <3>2. IsFiniteSet(a \X b) /\ Cardinality(a \X b) = Cardinality(a) * Cardinality(b)
      BY <3>1, FS_Product
    <3>3. QED  BY <3>1, <3>2 DEF a, b
  <2>3. \A x, y \in A : f[x] = f[y] => x = y
    <3> SUFFICES ASSUME NEW x \in A, NEW y \in A, f[x] = f[y] PROVE x = y
      OBVIOUS
    <3>1. x[1] \in S(n) /\ y[1] \in S(n) /\ x = <<x[1], x[2]>> /\ y = <<y[1], y[2]>>
      OBVIOUS
    <3>2. \A i \in 1 .. n + 1 : f[x][i] = f[y][i]
      OBVIOUS
    <3>3. x[2] = y[2]
      <4>1. n + 1 \in 1 .. n + 1
        BY <2>0
      <4>2. f[x][n + 1] = x[2] /\ f[y][n + 1] = y[2]
        BY <4>1
      <4>3. QED  BY <3>2, <4>1, <4>2
    <3>4. \A i \in 1 .. n : x[1][i] = y[1][i]
      <4> TAKE i \in 1 .. n
      <4>1. i \in 1 .. n + 1 /\ i # n + 1
        BY <2>0
      <4>2. f[x][i] = x[1][i] /\ f[y][i] = y[1][i]
        BY <4>1
      <4>3. QED  BY <3>2, <4>1, <4>2
    <3>5. x[1] = y[1]
      BY <3>1, <3>4
    <3>6. QED  BY <3>1, <3>3, <3>5
  <2>4. { f[x] : x \in A } = S(n + 1)
    <3>1. ASSUME NEW x \in A PROVE f[x] \in S(n + 1)
      <4>1. x[1] \in S(n) /\ x[2] \in {-1, 1}
        OBVIOUS
      <4>2. \A i \in 1 .. n + 1 : i # n + 1 => i \in 1 .. n
        BY <2>0
      <4>3. QED  BY <4>1, <4>2
    <3>2. ASSUME NEW s \in S(n + 1) PROVE \E x \in A : s = f[x]
      <4> DEFINE x == << [i \in 1 .. n |-> s[i]], s[n + 1] >>
      <4>1. n + 1 \in 1 .. n + 1 /\ \A i \in 1 .. n : i \in 1 .. n + 1
        BY <2>0
      <4>2. x \in A
        BY <4>1
      <4>3. \A i \in 1 .. n + 1 : i # n + 1 => i \in 1 .. n
        BY <2>0
      <4>4. f[x] = [i \in 1 .. n + 1 |-> IF i = n + 1 THEN s[n + 1] ELSE s[i]]
        BY <4>2, <4>3
      <4>5. f[x] = s
        BY <4>4
      <4>6. QED  BY <4>2, <4>5
    <3> HIDE DEF A, f, S
    <3>3. QED  BY <3>1, <3>2
  <2>5. IsFiniteSet(S(n + 1)) /\ Cardinality(S(n + 1)) = PowerOfTwo[n] * 2
    <3> HIDE DEF A, f, S
    <3>1. QED  BY <2>2, <2>3, <2>4, ImageCount
  <2>6. PowerOfTwo[n + 1] = PowerOfTwo[n] * 2
    BY SMTT(60), <2>0, PowersOfTwo
  <2>7. QED  BY <2>0, <2>5, <2>6
<1> HIDE DEF Good
<1>3. m \in Good
  BY <1>1, <1>2, Upward
<1>4. QED  BY <1>3 DEF Good

(* There are as many combinations as the binomial coefficient says.        *)
LEMMA CombinationsCount ==
  ASSUME NEW n \in Nat, NEW k \in Nat
  PROVE  /\ IsFiniteSet(Combinations(k, n))
         /\ Cardinality(Combinations(k, n)) = nCr[n][k]
<1>1. CASE k \in 1 .. n
  <2> DEFINE N == nCr[n][k]
             Numbers == 0 .. N - 1
             f == [x \in Numbers |-> Decode(x, k, n)]
  <2>1. N \in Nat
    BY Edges
  <2>2. IsFiniteSet(Numbers) /\ Cardinality(Numbers) = N
    <3> HIDE DEF N
    <3>1. N - 1 \in Int /\ 0 \in Int
      BY <2>1
    <3>2. QED  BY <2>1, <3>1, FS_Interval
  <2>3. /\ \A x \in Numbers : f[x] \in Combinations(k, n)
        /\ \A x, y \in Numbers : f[x] = f[y] => x = y
        /\ \A c \in Combinations(k, n) : \E x \in Numbers : f[x] = c
    BY <1>1, DecodeBijective
  <2>4. { f[x] : x \in Numbers } = Combinations(k, n)
    <3> HIDE DEF f, Numbers
    <3>1. QED  BY <2>3
  <2> HIDE DEF f, Numbers, N
  <2>5. QED  BY <2>2, <2>3, <2>4, ImageCount DEF N
<1>2. CASE k = 0
  <2> DEFINE e == [i \in 1 .. 0 |-> 0]
  <2>1. Combinations(0, n) = {e}
    <3>1. 1 .. 0 = {} /\ 1 .. 0 - 1 = {}
      OBVIOUS
    <3>2. e \in Combinations(0, n)
      BY <3>1 DEF Combinations
    <3>3. \A s \in Combinations(0, n) : s = e
      BY <3>1 DEF Combinations
    <3> HIDE DEF e
    <3>4. QED  BY <3>2, <3>3
  <2> HIDE DEF e
  <2>2. QED  BY <1>2, <2>1, FS_Singleton, Edges
<1>3. CASE k > n
  <2>1. Combinations(k, n) = {}
    <3> SUFFICES ASSUME NEW c \in Combinations(k, n) PROVE FALSE
      OBVIOUS
    <3>1. Cardinality({ c[i] + 1 : i \in 1 .. k }) = k
      BY ColumnsCount
    <3>2. { c[i] + 1 : i \in 1 .. k } \subseteq 1 .. n
      BY DEF Combinations
    <3>3. IsFiniteSet(1 .. n) /\ Cardinality(1 .. n) <= n
      BY FS_Interval
    <3> DEFINE cs == { c[i] + 1 : i \in 1 .. k }
    <3>4. k <= Cardinality(1 .. n)
      <4>1. cs \in SUBSET (1 .. n) /\ Cardinality(cs) = k
        BY <3>1, <3>2
      <4> HIDE DEF cs
      <4>2. QED  BY <3>3, <4>1, FS_Subset
    <3>5. Cardinality(1 .. n) \in Nat
      BY <3>3, FS_CardinalityType
    <3>6. QED  BY <1>3, <3>3, <3>4, <3>5
  <2>2. QED  BY <1>3, <2>1, FS_EmptySet, Edges
<1>4. QED  BY <1>1, <1>2, <1>3

-----------------------------------------------------------------------------
(* Tuples of k literals: their variables ascend and are among the m        *)
(* behind the variable b.                                                  *)
LiteralsFrom(b, k, m) ==
  { p \in [1 .. k -> Int] : /\ \A i \in 1 .. k : VarOf(p[i]) \in b + 1 .. b + m
                            /\ \A i \in 1 .. k - 1 : VarOf(p[i]) < VarOf(p[i + 1]) }

(* A variable with a sign is a literal, and a literal is its variable      *)
(* with a sign.                                                            *)
LEMMA SignedIs ==
  ASSUME NEW v \in Nat \ {0}
  PROVE  /\ \A s \in {-1, 1} : v * s \in Int /\ VarOf(v * s) = v /\ v * s # 0
         /\ \A s, r \in {-1, 1} : v * s = v * r => s = r
         /\ \A l \in Int : VarOf(l) = v => l = v * 1 \/ l = v * (-1)
BY DEF VarOf

(* The tuple of a combination of columns and of their signs.               *)
Signed(b, k, c, s) == [i \in 1 .. k |-> (b + c[i] + 1) * s[i]]

(* Every combination with every choice of signs is one tuple, and every    *)
(* tuple is one.                                                           *)
LEMMA LiteralsAre ==
  ASSUME NEW b \in Nat, NEW k \in Nat, NEW m \in Nat
  PROVE  /\ \A c \in Combinations(k, m), s \in [1 .. k -> {-1, 1}] :
              Signed(b, k, c, s) \in LiteralsFrom(b, k, m)
         /\ \A p \in LiteralsFrom(b, k, m) :
              \E c \in Combinations(k, m), s \in [1 .. k -> {-1, 1}] : p = Signed(b, k, c, s)
         /\ \A c, d \in Combinations(k, m), s, r \in [1 .. k -> {-1, 1}] :
              Signed(b, k, c, s) = Signed(b, k, d, r) => c = d /\ s = r
<1> DEFINE f(c, s) == [i \in 1 .. k |-> (b + c[i] + 1) * s[i]]
           S == [1 .. k -> {-1, 1}]
<1>1. ASSUME NEW c \in Combinations(k, m)
      PROVE  /\ c \in [1 .. k -> 0 .. m - 1]
             /\ \A i \in 1 .. k : b + c[i] + 1 \in Nat \ {0} /\ b + c[i] + 1 \in b + 1 .. b + m
                                  /\ c[i] \in Int
             /\ \A i \in 1 .. k - 1 : i \in 1 .. k /\ i + 1 \in 1 .. k /\ c[i] < c[i + 1]
  BY DEF Combinations
<1>2. ASSUME NEW c \in Combinations(k, m), NEW s \in S
      PROVE  f(c, s) \in LiteralsFrom(b, k, m)
             /\ \A i \in 1 .. k : f(c, s)[i] = (b + c[i] + 1) * s[i] /\ VarOf(f(c, s)[i]) = b + c[i] + 1
  <2>1. \A i \in 1 .. k : /\ s[i] \in {-1, 1} /\ (b + c[i] + 1) * s[i] \in Int
                          /\ VarOf((b + c[i] + 1) * s[i]) = b + c[i] + 1
    <3> TAKE i \in 1 .. k
    <3>1. s[i] \in {-1, 1}
      OBVIOUS
    <3> DEFINE v == b + c[i] + 1
    <3>2. v \in Nat \ {0}
      BY <1>1
    <3> HIDE DEF v
    <3>3. v * s[i] \in Int /\ VarOf(v * s[i]) = v
      BY <3>1, <3>2, SignedIs
    <3>4. QED  BY <3>1, <3>3 DEF v
  <2> DEFINE p == f(c, s)
  <2>2. /\ p \in [1 .. k -> Int]
        /\ \A i \in 1 .. k : p[i] = (b + c[i] + 1) * s[i] /\ VarOf(p[i]) = b + c[i] + 1
    BY <2>1
  <2> HIDE DEF p
  <2>3. \A i \in 1 .. k : VarOf(p[i]) \in b + 1 .. b + m
    BY ZenonT(60), <1>1, <2>2
  <2>4. \A i \in 1 .. k - 1 : VarOf(p[i]) < VarOf(p[i + 1])
    <3> TAKE i \in 1 .. k - 1
    <3>1. i \in 1 .. k /\ i + 1 \in 1 .. k /\ c[i] < c[i + 1] /\ c[i] \in Int /\ c[i + 1] \in Int
      BY <1>1
    <3>2. QED  BY SMTT(60), <2>2, <3>1
  <2>5. p \in LiteralsFrom(b, k, m)
    BY <2>2, <2>3, <2>4 DEF LiteralsFrom
  <2>6. QED  BY <2>2, <2>5 DEF p
<1>3. ASSUME NEW p \in LiteralsFrom(b, k, m)
      PROVE  \E c \in Combinations(k, m), s \in S : p = f(c, s)
  <2> DEFINE c == [i \in 1 .. k |-> VarOf(p[i]) - b - 1]
             s == [i \in 1 .. k |-> IF p[i] = VarOf(p[i]) * 1 THEN 1 ELSE -1]
  <2>1. /\ p \in [1 .. k -> Int]
        /\ \A i \in 1 .. k : VarOf(p[i]) \in b + 1 .. b + m
        /\ \A i \in 1 .. k - 1 : VarOf(p[i]) < VarOf(p[i + 1])
    BY DEF LiteralsFrom
  <2>2. c \in Combinations(k, m)
    <3>1. c \in [1 .. k -> 0 .. m - 1]
      BY <2>1
    <3>2. \A i \in 1 .. k - 1 : c[i] < c[i + 1]
      <4> TAKE i \in 1 .. k - 1
      <4>1. i \in 1 .. k /\ i + 1 \in 1 .. k
        OBVIOUS
      <4>2. c[i] = VarOf(p[i]) - b - 1 /\ c[i + 1] = VarOf(p[i + 1]) - b - 1
        BY <4>1
      <4>3. VarOf(p[i]) \in Int /\ VarOf(p[i + 1]) \in Int
        BY <2>1, <4>1
      <4> HIDE DEF c
      <4>4. QED  BY <2>1, <4>2, <4>3
    <3> HIDE DEF c
    <3>3. QED  BY <3>1, <3>2 DEF Combinations
  <2>3. s \in S
    OBVIOUS
  <2>4. \A i \in 1 .. k : p[i] = (b + c[i] + 1) * s[i]
    <3> TAKE i \in 1 .. k
    <3> DEFINE v == VarOf(p[i])
    <3>1. v \in Nat \ {0} /\ p[i] \in Int /\ b + c[i] + 1 = v
      BY <2>1
    <3>2. p[i] = v * 1 \/ p[i] = v * (-1)
      <4>1. \A l \in Int : VarOf(l) = v => l = v * 1 \/ l = v * (-1)
        <5> HIDE DEF v
        <5>1. QED  BY <3>1, SignedIs
      <4>2. QED  BY <3>1, <4>1
    <3>3. s[i] = IF p[i] = v * 1 THEN 1 ELSE -1
      OBVIOUS
    <3> HIDE DEF c, s, v
    <3>4. QED  BY <3>1, <3>2, <3>3
  <2>5. p = f(c, s)
    <3> HIDE DEF c, s
    <3>1. QED  BY <2>1, <2>4
  <2>6. QED  BY <2>2, <2>3, <2>5
<1>4. ASSUME NEW c \in Combinations(k, m), NEW d \in Combinations(k, m), NEW s \in S, NEW r \in S,
             f(c, s) = f(d, r)
      PROVE  c = d /\ s = r
  <2>1. ASSUME NEW i \in 1 .. k PROVE c[i] = d[i] /\ s[i] = r[i]
    <3>1. f(c, s)[i] = f(d, r)[i]
      BY <1>4
    <3>2. b + c[i] + 1 = b + d[i] + 1
      <4>1. VarOf(f(c, s)[i]) = b + c[i] + 1 /\ VarOf(f(d, r)[i]) = b + d[i] + 1
        BY <1>2
      <4> HIDE DEF f
      <4>2. QED  BY <3>1, <4>1
    <3>3. c[i] \in Int /\ d[i] \in Int /\ b + c[i] + 1 \in Nat \ {0}
      BY <1>1
    <3>4. c[i] = d[i]
      BY <3>2, <3>3
    <3> DEFINE v == b + c[i] + 1
    <3>5. v * s[i] = v * r[i]
      <4>1. f(c, s)[i] = (b + c[i] + 1) * s[i] /\ f(d, r)[i] = (b + d[i] + 1) * r[i]
        BY <1>2
      <4> HIDE DEF f
      <4>2. QED  BY <3>1, <3>4, <4>1
    <3>6. s[i] \in {-1, 1} /\ r[i] \in {-1, 1}
      OBVIOUS
    <3>7. s[i] = r[i]
      <4>1. v \in Nat \ {0}
        BY <3>3
      <4> HIDE DEF v
      <4>2. QED  BY <3>5, <3>6, <4>1, SignedIs
    <3>8. QED  BY <3>4, <3>7
  <2>2. c \in [1 .. k -> 0 .. m - 1] /\ d \in [1 .. k -> 0 .. m - 1]
    BY <1>1
  <2> HIDE DEF f
  <2>3. QED  BY <2>1, <2>2
<1>5. \A c, s : Signed(b, k, c, s) = f(c, s)
  BY DEF Signed
<1> HIDE DEF f
<1>6. QED  BY <1>2, <1>3, <1>4, <1>5

(* So there are as many tuples as there are combinations times choices     *)
(* of signs: num_tuple_all_possible_.                                      *)
LEMMA LiteralsCount ==
  ASSUME NEW b \in Nat, NEW k \in Nat, NEW m \in Nat
  PROVE  /\ IsFiniteSet(LiteralsFrom(b, k, m))
         /\ Cardinality(LiteralsFrom(b, k, m)) = nCr[m][k] * PowerOfTwo[k]
<1> DEFINE C == Combinations(k, m)
           S == [1 .. k -> {-1, 1}]
           g == [x \in C \X S |-> Signed(b, k, x[1], x[2])]
<1>1. /\ \A c \in C, s \in S : Signed(b, k, c, s) \in LiteralsFrom(b, k, m)
      /\ \A p \in LiteralsFrom(b, k, m) : \E c \in C, s \in S : p = Signed(b, k, c, s)
      /\ \A c, d \in C, s, r \in S : Signed(b, k, c, s) = Signed(b, k, d, r) => c = d /\ s = r
  <2>1. \A c \in C, s \in S : Signed(b, k, c, s) \in LiteralsFrom(b, k, m)
    BY LiteralsAre
  <2>2. \A p \in LiteralsFrom(b, k, m) : \E c \in C, s \in S : p = Signed(b, k, c, s)
    BY LiteralsAre
  <2>3. \A c, d \in C, s, r \in S : Signed(b, k, c, s) = Signed(b, k, d, r) => c = d /\ s = r
    BY LiteralsAre
  <2>4. QED  BY <2>1, <2>2, <2>3
<1>2. /\ IsFiniteSet(C) /\ Cardinality(C) = nCr[m][k]
      /\ IsFiniteSet(S) /\ Cardinality(S) = PowerOfTwo[k]
  BY CombinationsCount, SignsCount
<1> HIDE DEF C, S
<1>3. IsFiniteSet(C \X S) /\ Cardinality(C \X S) = nCr[m][k] * PowerOfTwo[k]
  BY <1>2, FS_Product
<1>4. \A c \in C, s \in S : <<c, s>> \in C \X S /\ g[<<c, s>>] = Signed(b, k, c, s)
  OBVIOUS
<1>5. \A x \in C \X S : x[1] \in C /\ x[2] \in S /\ x = <<x[1], x[2]>> /\ g[x] = Signed(b, k, x[1], x[2])
  OBVIOUS
<1> HIDE DEF g
<1>6. \A x, y \in C \X S : g[x] = g[y] => x = y
  <2> SUFFICES ASSUME NEW x \in C \X S, NEW y \in C \X S, g[x] = g[y] PROVE x = y
    OBVIOUS
  <2>1. x[1] = y[1] /\ x[2] = y[2]
    BY <1>1, <1>5
  <2>2. QED  BY <1>5, <2>1
<1>7. { g[x] : x \in C \X S } = LiteralsFrom(b, k, m)
  <2>1. ASSUME NEW x \in C \X S PROVE g[x] \in LiteralsFrom(b, k, m)
    BY <1>1, <1>5
  <2>2. ASSUME NEW p \in LiteralsFrom(b, k, m) PROVE \E x \in C \X S : g[x] = p
    <3>1. PICK c \in C, s \in S : p = Signed(b, k, c, s)
      BY <1>1
    <3>2. QED  BY <1>4, <3>1
  <2>3. QED  BY <2>1, <2>2
<1>8. QED  BY <1>3, <1>6, <1>7, ImageCount

(* The tuples that find_uncovered_tuples_pre goes through are those of     *)
(* literals whose variables ascend.                                        *)
LEMMA TuplesAre ==
  ASSUME file.vars \in Nat, NEW k \in Nat
  PROVE  TuplesOfSize(k) = LiteralsFrom(0, k, file.vars)
<1> DEFINE C == Combinations(k, file.vars)
           S == [1 .. k -> {-1, 1}]
<1>1. /\ \A c \in C, s \in S : Signed(0, k, c, s) \in LiteralsFrom(0, k, file.vars)
      /\ \A p \in LiteralsFrom(0, k, file.vars) : \E c \in C, s \in S : p = Signed(0, k, c, s)
  <2>1. 0 \in Nat
    OBVIOUS
  <2>2. QED  BY <2>1, LiteralsAre
<1>2. ASSUME NEW c \in C, NEW s \in S
      PROVE  [i \in 1 .. k |-> (c[i] + 1) * s[i]] = Signed(0, k, c, s)
  <2>1. \A i \in 1 .. k : (c[i] + 1) * s[i] = (0 + c[i] + 1) * s[i]
    BY DEF Combinations
  <2>2. QED  BY <2>1 DEF Signed
<1>3. ASSUME NEW p PROVE p \in TuplesOfSize(k) <=> \E c \in C, s \in S : p = Signed(0, k, c, s)
  <2>1. p \in TuplesOfSize(k) <=> \E c \in C, s \in S : p = [i \in 1 .. k |-> (c[i] + 1) * s[i]]
    BY DEF TuplesOfSize
  <2> HIDE DEF C, S
  <2>2. QED  BY <1>2, <2>1
<1> HIDE DEF C, S
<1>4. QED  BY <1>1, <1>3

-----------------------------------------------------------------------------
(* The file and the strength are among those the generator is given.       *)
Given == file \in Files /\ t_wise \in Strengths

(* What the assumption on the constants says of them.                      *)
LEMMA GivenIs ==
  ASSUME Given
  PROVE  /\ file.vars \in Nat \ {0} /\ t_wise \in Nat /\ t_wise >= 2 /\ t_wise <= file.vars
         /\ 0 \in Nat /\ file.vars \in Nat
         /\ file.clauses \in Seq(Seq((-file.vars .. file.vars) \ {0}))
         /\ TuplesOfSize(t_wise) = LiteralsFrom(0, t_wise, file.vars)
<1>1. /\ file.vars \in Nat \ {0} /\ t_wise \in Nat /\ t_wise >= 2 /\ t_wise <= file.vars
      /\ file.clauses \in Seq(Seq((-file.vars .. file.vars) \ {0}))
  BY SMTT(60), SamplingAssumption DEF Given
<1>2. file.vars \in Nat
  BY <1>1
<1>3. QED  BY <1>1, <1>2, TuplesAre

(* In a tuple the variables are at least as far apart as their places.     *)
LEMMA Rising ==
  ASSUME NEW b \in Nat, NEW k \in Nat, NEW m \in Nat, NEW p \in LiteralsFrom(b, k, m)
  PROVE  /\ p \in [1 .. k -> Int]
         /\ \A i \in 1 .. k : VarOf(p[i]) \in b + 1 .. b + m /\ VarOf(p[i]) \in Nat
         /\ \A i, j \in 1 .. k : i <= j => VarOf(p[i]) + (j - i) <= VarOf(p[j])
<1>1. /\ p \in [1 .. k -> Int]
      /\ \A i \in 1 .. k : VarOf(p[i]) \in b + 1 .. b + m
      /\ \A i \in 1 .. k - 1 : VarOf(p[i]) < VarOf(p[i + 1])
  BY DEF LiteralsFrom
<1>2. \A i \in 1 .. k : VarOf(p[i]) \in b + 1 .. b + m /\ VarOf(p[i]) \in Nat
  BY <1>1
<1>3. ASSUME NEW i \in 1 .. k
      PROVE  \A j \in 1 .. k : i <= j => VarOf(p[i]) + (j - i) <= VarOf(p[j])
  <2> DEFINE Good == { d \in Nat : i + d <= k => VarOf(p[i]) + d <= VarOf(p[i + d]) }
  <2>1. 0 \in Good
    BY <1>2
  <2>2. ASSUME NEW d \in 0 .. k, d \in Good PROVE d + 1 \in Good
    <3> SUFFICES ASSUME i + (d + 1) <= k PROVE VarOf(p[i]) + (d + 1) <= VarOf(p[i + (d + 1)])
      OBVIOUS
    <3>1. /\ i + d \in 1 .. k - 1 /\ i + d \in 1 .. k /\ (i + d) + 1 = i + (d + 1)
          /\ i + (d + 1) \in 1 .. k /\ d \in Nat
      OBVIOUS
    <3>2. VarOf(p[i + d]) < VarOf(p[(i + d) + 1]) /\ VarOf(p[i]) + d <= VarOf(p[i + d])
      BY <1>1, <2>2, <3>1
    <3>3. VarOf(p[i + d]) \in Nat /\ VarOf(p[i]) \in Nat /\ VarOf(p[i + (d + 1)]) \in Nat
      BY <1>2, <3>1
    <3>4. QED  BY <3>1, <3>2, <3>3
  <2>3. \A d \in 0 .. k - 1 : d \in Good => d + 1 \in Good
    BY <2>2
  <2> HIDE DEF Good
  <2>4. \A d \in 0 .. k : d \in Good
    BY <2>1, <2>3, Upward
  <2> SUFFICES ASSUME NEW j \in 1 .. k, i <= j PROVE VarOf(p[i]) + (j - i) <= VarOf(p[j])
    OBVIOUS
  <2>5. j - i \in 0 .. k /\ i + (j - i) = j /\ j <= k
    OBVIOUS
  <2>6. j - i \in Good
    BY <2>4, <2>5
  <2>7. QED  BY <2>5, <2>6 DEF Good
<1>4. QED  BY <1>1, <1>2, <1>3

-----------------------------------------------------------------------------
(* The tuples with a literal that contradicts the backbone.                *)
Clashing == { p \in TuplesOfSize(t_wise) : \E k \in 1 .. t_wise : Contradicts(p[k]) }

(* The first such literal of a tuple is its k-th.                          *)
FirstClash(p, k) == Contradicts(p[k]) /\ \A i \in 1 .. k - 1 : ~Contradicts(p[i])

(* The place of the first one.                                             *)
ClashAt(p) == CHOOSE k \in 1 .. t_wise : FirstClash(p, k)

(* The tuple up to there: where the search does not descend.               *)
CutOf(p) == [i \in 1 .. ClashAt(p) |-> p[i]]

(* What begins with q and goes on with r.                                  *)
Joint(q, r, k, t) == [i \in 1 .. t |-> IF i <= k THEN q[i] ELSE r[i - k]]

(* A tuple that clashes has one first place at which it does.              *)
LEMMA ClashIs ==
  ASSUME Given, NEW p \in Clashing
  PROVE  /\ ClashAt(p) \in 1 .. t_wise /\ FirstClash(p, ClashAt(p))
         /\ \A k \in 1 .. t_wise : FirstClash(p, k) => k = ClashAt(p)
<1> DEFINE Bad == { k \in Nat : k \in 1 .. t_wise /\ Contradicts(p[k]) }
<1>1. PICK k \in Bad : \A y \in Bad : k <= y
  <2>1. Bad # {} /\ Bad \in SUBSET Nat
    BY DEF Clashing
  <2> HIDE DEF Bad
  <2>2. QED  BY <2>1, Least
<1>2. t_wise \in Nat
  BY GivenIs
<1>3. k \in 1 .. t_wise /\ FirstClash(p, k)
  <2>1. \A i \in 1 .. k - 1 : i \in Nat /\ i \in 1 .. t_wise /\ i < k
    BY <1>2
  <2>2. QED  BY <1>1, <2>1 DEF FirstClash
<1>4. ClashAt(p) \in 1 .. t_wise /\ FirstClash(p, ClashAt(p))
  BY <1>3 DEF ClashAt
<1>5. ASSUME NEW i \in 1 .. t_wise, NEW j \in 1 .. t_wise, FirstClash(p, i), FirstClash(p, j)
      PROVE  i = j
  <2>1. i < j => i \in 1 .. j - 1
    BY <1>2
  <2>2. j < i => j \in 1 .. i - 1
    BY <1>2
  <2>3. QED  BY <1>2, <1>5, <2>1, <2>2 DEF FirstClash
<1>6. QED  BY <1>4, <1>5

(* The search comes to that beginning and cuts there: its bound on the     *)
(* column leaves room for the rest.                                        *)
LEMMA CutOfIs ==
  ASSUME Given, NEW p \in Clashing
  PROVE  CutOf(p) \in Cut(ClashAt(p))
<1> DEFINE k == ClashAt(p)
           q == CutOf(p)
           n == file.vars
           t == t_wise
<1>1. /\ k \in 1 .. t /\ FirstClash(p, k) /\ n \in Nat /\ t \in Nat /\ k \in Nat
      /\ p \in LiteralsFrom(0, t, n) /\ 0 \in Nat
  BY ClashIs, GivenIs DEF Clashing
<1> HIDE DEF k
<1>2. /\ p \in [1 .. t -> Int]
      /\ \A i \in 1 .. t : VarOf(p[i]) \in 0 + 1 .. 0 + n /\ VarOf(p[i]) \in Nat
      /\ \A i, j \in 1 .. t : i <= j => VarOf(p[i]) + (j - i) <= VarOf(p[j])
  BY <1>1, Rising
<1>3. q = [i \in 1 .. k |-> p[i]]
  BY DEF CutOf, k
<1> HIDE DEF q
<1>4. \A i \in 1 .. k : i \in 1 .. t /\ q[i] = p[i]
  BY <1>1, <1>3
<1>5. q \in LiteralsFrom(0, k, n)
  <2>1. q \in [1 .. k -> Int] /\ \A i \in 1 .. k : VarOf(q[i]) \in 0 + 1 .. 0 + n
    BY <1>2, <1>3, <1>4
  <2>2. \A i \in 1 .. k - 1 : VarOf(q[i]) < VarOf(q[i + 1])
    <3> TAKE i \in 1 .. k - 1
    <3>1. i \in 1 .. k /\ i + 1 \in 1 .. k /\ i <= i + 1
      BY <1>1
    <3>2. i \in 1 .. t /\ i + 1 \in 1 .. t /\ q[i] = p[i] /\ q[i + 1] = p[i + 1]
      BY <1>4, <3>1
    <3>3. VarOf(p[i]) + ((i + 1) - i) <= VarOf(p[i + 1]) /\ VarOf(p[i]) \in Nat /\ VarOf(p[i + 1]) \in Nat
      BY <1>2, <3>1, <3>2
    <3>4. QED  BY <3>2, <3>3
  <2>3. QED  BY <2>1, <2>2 DEF LiteralsFrom
<1>6. q \in TuplesOfSize(k)
  BY <1>1, <1>5, TuplesAre
<1>7. VarOf(q[k]) <= n - t + k
  <2>1. k \in 1 .. k /\ t \in 1 .. t /\ k <= t
    BY <1>1
  <2>2. VarOf(p[k]) + (t - k) <= VarOf(p[t]) /\ VarOf(p[t]) <= n /\ VarOf(p[k]) \in Nat
        /\ VarOf(p[t]) \in Nat
    BY <1>1, <1>2, <2>1
  <2>3. q[k] = p[k]
    BY <1>4, <2>1
  <2>4. QED  BY <1>1, <2>2, <2>3
<1>8. Contradicts(q[k]) /\ \A i \in 1 .. k - 1 : ~Contradicts(q[i])
  <2>1. k \in 1 .. k /\ \A i \in 1 .. k - 1 : i \in 1 .. k
    BY <1>1
  <2>2. q[k] = p[k] /\ \A i \in 1 .. k - 1 : q[i] = p[i]
    BY <1>4, <2>1
  <2>3. QED  BY <1>1, <2>2 DEF FirstClash
<1>9. q \in Cut(k)
  BY <1>6, <1>7, <1>8 DEF Cut
<1>10. QED  BY <1>9 DEF q, k

(* What is cut off ends in the first clash of every tuple that begins      *)
(* with it.                                                                *)
LEMMA CutIs ==
  ASSUME Given, NEW k \in 1 .. t_wise, NEW q \in Cut(k)
  PROVE  /\ k \in Nat /\ t_wise - k \in Nat /\ q \in LiteralsFrom(0, k, file.vars)
         /\ VarOf(q[k]) \in Nat /\ VarOf(q[k]) >= 1 /\ file.vars - VarOf(q[k]) \in Nat
         /\ FirstClash(q, k)
         /\ q \in Seq(Int) /\ Len(q) = k
<1>1. /\ k \in Nat /\ t_wise \in Nat /\ t_wise - k \in Nat /\ file.vars \in Nat /\ 0 \in Nat
      /\ k \in 1 .. k
  BY GivenIs
<1>2. q \in LiteralsFrom(0, k, file.vars) /\ FirstClash(q, k)
  BY <1>1, TuplesAre DEF Cut, FirstClash
<1>3. q \in [1 .. k -> Int] /\ VarOf(q[k]) \in 0 + 1 .. 0 + file.vars
  BY <1>1, <1>2 DEF LiteralsFrom
<1>4. q \in Seq(Int) /\ Len(q) = k
  BY <1>1, <1>3
<1>5. QED  BY <1>1, <1>2, <1>3, <1>4

(* What begins with a cut and goes on with any tuple of the columns        *)
(* behind clashes, and is cut there.                                       *)
LEMMA JointIs ==
  ASSUME Given, NEW k \in 1 .. t_wise, NEW q \in Cut(k),
         NEW r \in LiteralsFrom(VarOf(q[k]), t_wise - k, file.vars - VarOf(q[k]))
  PROVE  Joint(q, r, k, t_wise) \in Clashing /\ CutOf(Joint(q, r, k, t_wise)) = q
<1> DEFINE n == file.vars
           t == t_wise
           v == VarOf(q[k])
           p == Joint(q, r, k, t)
<1>1. /\ k \in Nat /\ t - k \in Nat /\ q \in LiteralsFrom(0, k, n) /\ v \in Nat /\ v >= 1
      /\ n - v \in Nat /\ FirstClash(q, k)
  BY CutIs
<1>2. t \in Nat /\ n \in Nat /\ 0 \in Nat /\ TuplesOfSize(t) = LiteralsFrom(0, t, n) /\ k <= t
      /\ k \in 1 .. t
  BY GivenIs
<1>3. /\ q \in [1 .. k -> Int]
      /\ \A i \in 1 .. k : VarOf(q[i]) \in 0 + 1 .. 0 + n
      /\ \A i \in 1 .. k - 1 : VarOf(q[i]) < VarOf(q[i + 1])
  BY <1>1 DEF LiteralsFrom
<1>4. /\ r \in [1 .. t - k -> Int]
      /\ \A i \in 1 .. t - k : VarOf(r[i]) \in v + 1 .. v + (n - v)
      /\ \A i \in 1 .. (t - k) - 1 : VarOf(r[i]) < VarOf(r[i + 1])
  BY DEF LiteralsFrom
<1>5. p = [i \in 1 .. t |-> IF i <= k THEN q[i] ELSE r[i - k]]
  BY DEF Joint
<1> HIDE DEF p
<1>6. /\ \A i \in 1 .. k : i \in 1 .. t /\ p[i] = q[i]
      /\ \A i \in 1 .. t : i > k => i - k \in 1 .. t - k /\ p[i] = r[i - k]
      /\ \A i \in 1 .. t : i <= k => i \in 1 .. k
  BY <1>1, <1>2, <1>5
<1>7. v = VarOf(q[k]) /\ k \in 1 .. k /\ k >= 1
  BY <1>1
<1> HIDE DEF v
<1>8. p \in LiteralsFrom(0, t, n)
  <2>1. \A i \in 1 .. t : p[i] \in Int /\ VarOf(p[i]) \in 0 + 1 .. 0 + n
    <3> TAKE i \in 1 .. t
    <3>1. CASE i <= k
      BY <1>3, <1>6, <3>1
    <3>2. CASE ~(i <= k)
      <4>1. i > k
        BY <1>1, <3>2
      <4>2. i - k \in 1 .. t - k /\ p[i] = r[i - k]
        BY <1>6, <4>1
      <4>3. p[i] \in Int /\ VarOf(p[i]) \in v + 1 .. v + (n - v)
        BY <1>4, <4>2
      <4>4. QED  BY <1>1, <1>2, <4>3
    <3>3. QED  BY <3>1, <3>2
  <2>2. \A i \in 1 .. t - 1 : VarOf(p[i]) < VarOf(p[i + 1])
    <3> TAKE i \in 1 .. t - 1
    <3>0. i \in 1 .. t /\ i + 1 \in 1 .. t /\ i \in Nat
      BY <1>2
    <3>1. CASE i < k
      <4>1. i \in 1 .. k /\ i + 1 \in 1 .. k /\ i \in 1 .. k - 1
        BY <1>1, <3>0, <3>1
      <4>2. QED  BY <1>3, <1>6, <4>1
    <3>2. CASE i = k
      <4>1. p[i] = q[k]
        BY <1>6, <1>7, <3>2
      <4>2. i + 1 > k /\ (i + 1) - k = 1
        BY <1>1, <3>2
      <4>3. 1 \in 1 .. t - k /\ p[i + 1] = r[1]
        BY <1>6, <3>0, <4>2
      <4>4. VarOf(r[1]) \in v + 1 .. v + (n - v)
        BY <1>4, <4>3
      <4>5. QED  BY <1>1, <1>2, <1>7, <4>1, <4>3, <4>4
    <3>3. CASE i > k
      <4>1. i + 1 > k /\ (i + 1) - k = (i - k) + 1
        BY <1>1, <3>0, <3>3
      <4>2. i - k \in 1 .. t - k /\ (i - k) + 1 \in 1 .. t - k /\ p[i] = r[i - k] /\ p[i + 1] = r[(i - k) + 1]
        BY <1>6, <3>0, <3>3, <4>1
      <4>3. i - k \in 1 .. (t - k) - 1
        BY <1>1, <1>2, <4>2
      <4>4. QED  BY <1>4, <4>2, <4>3
    <3>4. QED  BY <1>1, <3>0, <3>1, <3>2, <3>3
  <2>3. p \in [1 .. t -> Int]
    BY <1>5, <2>1
  <2>4. QED  BY <2>1, <2>2, <2>3 DEF LiteralsFrom
<1>9. FirstClash(p, k)
  <2>1. \A i \in 1 .. k - 1 : i \in 1 .. k
    BY <1>1
  <2>2. QED  BY <1>1, <1>6, <1>7, <2>1 DEF FirstClash
<1>10. p \in Clashing
  BY <1>2, <1>8, <1>9 DEF Clashing, FirstClash
<1>11. ClashAt(p) = k
  BY <1>2, <1>9, <1>10, ClashIs
<1>12. CutOf(p) = q
  <2>1. CutOf(p) = [i \in 1 .. k |-> p[i]]
    BY <1>11 DEF CutOf
  <2>2. QED  BY <1>3, <1>6, <2>1
<1>13. QED  BY <1>10, <1>12 DEF p

(* And every tuple that is cut there is of that kind.                      *)
LEMMA BelowCut ==
  ASSUME Given, NEW p \in Clashing, NEW k \in 1 .. t_wise, NEW q \in Cut(k), CutOf(p) = q
  PROVE  \E r \in LiteralsFrom(VarOf(q[k]), t_wise - k, file.vars - VarOf(q[k])) :
           p = Joint(q, r, k, t_wise)
<1> DEFINE n == file.vars
           t == t_wise
           v == VarOf(q[k])
           r == [i \in 1 .. t - k |-> p[i + k]]
<1>1. /\ k \in Nat /\ t - k \in Nat /\ v \in Nat /\ n - v \in Nat /\ q \in [1 .. k -> Int]
      /\ t \in Nat /\ n \in Nat /\ 0 \in Nat /\ k <= t /\ k \in 1 .. k /\ k >= 1
  BY CutIs, GivenIs DEF LiteralsFrom
<1>2. p \in LiteralsFrom(0, t, n)
  BY GivenIs DEF Clashing
<1>3. /\ p \in [1 .. t -> Int]
      /\ \A i \in 1 .. t : VarOf(p[i]) \in 0 + 1 .. 0 + n /\ VarOf(p[i]) \in Nat
      /\ \A i, j \in 1 .. t : i <= j => VarOf(p[i]) + (j - i) <= VarOf(p[j])
  BY <1>1, <1>2, Rising
<1>4. ClashAt(p) = k
  <2>1. ClashAt(p) \in 1 .. t
    BY ClashIs
  <2>2. DOMAIN q = 1 .. ClashAt(p) /\ DOMAIN q = 1 .. k
    BY <1>1 DEF CutOf
  <2>3. ClashAt(p) \in 1 .. k /\ k \in 1 .. ClashAt(p)
    BY <1>1, <2>1, <2>2
  <2>4. QED  BY <1>1, <2>1, <2>3
<1>5. \A i \in 1 .. k : i \in 1 .. t /\ q[i] = p[i]
  <2>1. q = [i \in 1 .. k |-> p[i]]
    BY <1>4 DEF CutOf
  <2>2. QED  BY <1>1, <2>1
<1>6. v = VarOf(p[k]) /\ k \in 1 .. t
  BY <1>1, <1>5
<1> HIDE DEF v
<1>7. \A i \in 1 .. t - k : i + k \in 1 .. t /\ k <= i + k /\ r[i] = p[i + k] /\ i >= 1 /\ i \in Nat
  BY <1>1
<1> HIDE DEF r
<1>8. r \in LiteralsFrom(v, t - k, n - v)
  <2>1. \A i \in 1 .. t - k : r[i] \in Int /\ VarOf(r[i]) \in v + 1 .. v + (n - v)
    <3> TAKE i \in 1 .. t - k
    <3>1. v + ((i + k) - k) <= VarOf(p[i + k]) /\ VarOf(p[i + k]) <= n /\ VarOf(p[i + k]) \in Nat
          /\ p[i + k] \in Int
      BY SMTT(60), <1>1, <1>3, <1>6, <1>7
    <3>2. i \in Nat /\ i >= 1 /\ r[i] = p[i + k]
      BY <1>7
    <3>3. QED  BY <1>1, <3>1, <3>2
  <2>2. \A i \in 1 .. (t - k) - 1 : VarOf(r[i]) < VarOf(r[i + 1])
    <3> TAKE i \in 1 .. (t - k) - 1
    <3>1. i \in 1 .. t - k /\ i + 1 \in 1 .. t - k
      BY <1>1
    <3>2. /\ r[i] = p[i + k] /\ r[i + 1] = p[(i + 1) + k] /\ i + k \in 1 .. t /\ (i + 1) + k \in 1 .. t
          /\ i \in Nat
      BY <1>7, <3>1
    <3>3. i + k <= (i + 1) + k /\ ((i + 1) + k) - (i + k) = 1
      BY <1>1, <3>2
    <3>4. VarOf(p[i + k]) + 1 <= VarOf(p[(i + 1) + k]) /\ VarOf(p[i + k]) \in Nat
          /\ VarOf(p[(i + 1) + k]) \in Nat
      BY <1>3, <3>2, <3>3
    <3>5. QED  BY <3>2, <3>4
  <2>3. r \in [1 .. t - k -> Int]
    BY <2>1 DEF r
  <2>4. QED  BY <2>1, <2>2, <2>3 DEF LiteralsFrom
<1>9. p = Joint(q, r, k, t)
  <2>1. ASSUME NEW i \in 1 .. t PROVE p[i] = IF i <= k THEN q[i] ELSE r[i - k]
    <3>1. CASE i <= k
      <4>1. i \in 1 .. k
        BY <1>1, <3>1
      <4>2. QED  BY <1>5, <3>1, <4>1
    <3>2. CASE ~(i <= k)
      <4>1. i - k \in 1 .. t - k /\ (i - k) + k = i
        BY <1>1, <3>2
      <4>2. r[i - k] = p[i]
        BY <1>7, <4>1
      <4>3. QED  BY <3>2, <4>2
    <3>3. QED  BY <3>1, <3>2
  <2>2. p = [i \in 1 .. t |-> p[i]]
    BY <1>3
  <2>3. QED  BY <2>1, <2>2 DEF Joint
<1>10. QED  BY <1>8, <1>9 DEF v

(* So what the search counts off at a cut, combinations of the columns     *)
(* behind times choices of values, is the number of the tuples it does     *)
(* not come to.                                                            *)
LEMMA BelowIs ==
  ASSUME Given, NEW k \in 1 .. t_wise, NEW q \in Cut(k)
  PROVE  Below(q) = Cardinality({ p \in Clashing : CutOf(p) = q })
<1> DEFINE n == file.vars
           t == t_wise
           v == VarOf(q[k])
           R == LiteralsFrom(v, t - k, n - v)
           f == [r \in R |-> Joint(q, r, k, t)]
           P == { p \in Clashing : CutOf(p) = q }
<1>1. /\ k \in Nat /\ t - k \in Nat /\ v \in Nat /\ n - v \in Nat /\ t \in Nat /\ Len(q) = k /\ k >= 1
  BY CutIs, GivenIs
<1>2. Below(q) = nCr[n - v][t - k] * PowerOfTwo[t - k]
  <2>1. Ways(t - k, n - v) = nCr[n - v][t - k]
    <3> DEFINE i == n - v
               j == t - k
    <3>1. i \in Nat /\ j \in Nat
      BY <1>1
    <3> HIDE DEF i, j
    <3>2. nCr[i][0] = 1 /\ nCr[i][1] = i /\ (j >= 2 => combnum[j][i] = nCr[i][j])
      BY <3>1, Edges, OneOrTwo, CombnumIs
    <3>3. j = 0 \/ j = 1 \/ j >= 2
      BY <3>1
    <3>4. Ways(j, i) = nCr[i][j]
      BY <3>1, <3>2, <3>3 DEF Ways
    <3>5. QED  BY <3>4 DEF i, j
  <2>2. Below(q) = Ways(t - k, n - v) * PowerOfTwo[t - k]
    BY <1>1 DEF Below
  <2>3. QED  BY <2>1, <2>2
<1>3. IsFiniteSet(R) /\ Cardinality(R) = nCr[n - v][t - k] * PowerOfTwo[t - k]
  BY <1>1, LiteralsCount
<1>4. \A r, s \in R : f[r] = f[s] => r = s
  <2> SUFFICES ASSUME NEW r \in R, NEW s \in R, f[r] = f[s] PROVE r = s
    OBVIOUS
  <2>1. r \in [1 .. t - k -> Int] /\ s \in [1 .. t - k -> Int]
    BY DEF LiteralsFrom
  <2>2. Joint(q, r, k, t) = Joint(q, s, k, t)
    OBVIOUS
  <2>3. \A i \in 1 .. t - k : r[i] = s[i]
    <3> TAKE i \in 1 .. t - k
    <3>1. i + k \in 1 .. t /\ ~(i + k <= k) /\ (i + k) - k = i
      BY <1>1
    <3>2. Joint(q, r, k, t)[i + k] = r[i] /\ Joint(q, s, k, t)[i + k] = s[i]
      BY <3>1 DEF Joint
    <3>3. QED  BY <2>2, <3>2
  <2> DEFINE m == t - k
  <2>4. r \in [1 .. m -> Int] /\ s \in [1 .. m -> Int] /\ \A i \in 1 .. m : r[i] = s[i]
    BY <2>1, <2>3
  <2> HIDE DEF R, m, f
  <2>5. r = [i \in 1 .. m |-> r[i]] /\ s = [i \in 1 .. m |-> s[i]]
    BY ONLY <2>4
  <2>6. QED  BY ONLY <2>4, <2>5
<1>5. { f[r] : r \in R } = P
  <2>1. ASSUME NEW r \in R PROVE f[r] \in P
    <3>1. Joint(q, r, k, t) \in P
      BY JointIs
    <3>2. QED  BY <3>1
  <2>2. ASSUME NEW p \in P PROVE \E r \in R : f[r] = p
    <3>1. \E r \in R : p = Joint(q, r, k, t)
      BY BelowCut
    <3> HIDE DEF R
    <3>2. QED  BY <3>1
  <2> HIDE DEF f, P, R
  <2>3. QED  BY <2>1, <2>2
<1> HIDE DEF f, R, P
<1>6. Cardinality(P) = Cardinality(R)
  BY <1>3, <1>4, <1>5, ImageCount
<1>7. QED  BY <1>2, <1>3, <1>6 DEF P

(* What is counted off in all is the number of the tuples that clash:      *)
(* none is counted off at two cuts, none is missed.                        *)
LEMMA CountedOffIs ==
  ASSUME Given
  PROVE  CountedOff = Cardinality(Clashing) /\ IsFiniteSet(Clashing)
<1> DEFINE Q == UNION { Cut(k) : k \in 1 .. t_wise }
           f == [q \in Q |-> Below(q)]
           h == [p \in Clashing |-> CutOf(p)]
<1>1. /\ file.vars \in Nat /\ t_wise \in Nat /\ 0 \in Nat
      /\ TuplesOfSize(t_wise) = LiteralsFrom(0, t_wise, file.vars)
  BY GivenIs
<1>2. IsFiniteSet(Clashing)
  <2>1. IsFiniteSet(LiteralsFrom(0, t_wise, file.vars))
    BY <1>1, LiteralsCount
  <2>2. Clashing \subseteq LiteralsFrom(0, t_wise, file.vars)
    BY <1>1 DEF Clashing
  <2>3. QED  BY <2>1, <2>2, FS_Subset
<1>3. IsFiniteSet(Q)
  <2> DEFINE g == [k \in 1 .. t_wise |-> Cut(k)]
             T == { Cut(k) : k \in 1 .. t_wise }
  <2>1. \A k \in 1 .. t_wise : IsFiniteSet(Cut(k))
    <3> TAKE k \in 1 .. t_wise
    <3>1. k \in Nat
      BY <1>1
    <3>2. TuplesOfSize(k) = LiteralsFrom(0, k, file.vars) /\ IsFiniteSet(LiteralsFrom(0, k, file.vars))
      BY <1>1, <3>1, LiteralsCount, TuplesAre
    <3>3. Cut(k) \subseteq TuplesOfSize(k)
      BY DEF Cut
    <3>4. QED  BY <3>2, <3>3, FS_Subset
  <2>2. g \in Surjection(1 .. t_wise, T)
    BY DEF Surjection
  <2>3. IsFiniteSet(1 .. t_wise)
    BY <1>1, FS_Interval
  <2> HIDE DEF g
  <2>4. IsFiniteSet(T)
    <3> HIDE DEF T
    <3>1. QED  BY <2>2, <2>3, FS_Surjection
  <2>5. \A c \in T : IsFiniteSet(c)
    BY <2>1
  <2> HIDE DEF T
  <2>6. IsFiniteSet(UNION T)
    BY <2>4, <2>5, FS_UNION
  <2>7. QED  BY <2>6 DEF T
<1>4. \A p \in Clashing : h[p] \in Q
  <2> TAKE p \in Clashing
  <2>1. CutOf(p) \in Cut(ClashAt(p)) /\ ClashAt(p) \in 1 .. t_wise
    BY CutOfIs, ClashIs
  <2>2. QED  BY <2>1
<1>5. \A q \in Q : f[q] = Cardinality({ p \in Clashing : h[p] = q })
  <2> TAKE q \in Q
  <2>1. PICK k \in 1 .. t_wise : q \in Cut(k)
    OBVIOUS
  <2>2. Below(q) = Cardinality({ p \in Clashing : CutOf(p) = q })
    BY <2>1, BelowIs
  <2>3. { p \in Clashing : h[p] = q } = { p \in Clashing : CutOf(p) = q }
    OBVIOUS
  <2>4. f[q] = Below(q)
    OBVIOUS
  <2>5. QED  BY <2>2, <2>3, <2>4
<1>6. CountedOff = SumFunctionOnSet(f, Q)
  <2>1. CountedOff = SumFunction(f)
    BY DEF CountedOff
  <2>2. DOMAIN f = Q
    OBVIOUS
  <2> HIDE DEF f, Q
  <2>3. QED  BY <2>1, <2>2 DEF SumFunction
<1> HIDE DEF f, h, Q
<1>7. SumFunctionOnSet(f, Q) = Cardinality(Clashing)
  <2> DEFINE fiber == [q \in Q |-> { p \in Clashing : h[p] = q }]
  <2>1. \A q \in Q : fiber[q] = { p \in Clashing : h[p] = q }
    OBVIOUS
  <2> HIDE DEF fiber
  <2>2. \A q \in Q : \A p : p \in fiber[q] <=> p \in Clashing /\ h[p] = q
    BY <2>1
  <2>3. \A q \in Q : f[q] = Cardinality(fiber[q])
    BY <1>5, <2>1
  <2>4. QED  BY <1>2, <1>3, <1>4, <2>2, <2>3, SumOfFibers
<1>8. QED  BY <1>2, <1>6, <1>7

-----------------------------------------------------------------------------
(* The columns of a tuple, counted from 0, and its values.                 *)
Columns(p) == [k \in DOMAIN p |-> VarOf(p[k]) - 1]

Bits(p) == [k \in DOMAIN p |-> IF p[k] > 0 THEN 1 ELSE 0]

(* GetXTupleMapIndex is given columns and values as it needs them.         *)
LEMMA TupleParts ==
  ASSUME Given, NEW p \in TuplesOfSize(t_wise)
  PROVE  /\ DOMAIN p = 1 .. t_wise
         /\ p \in [1 .. t_wise -> Int]
         /\ \A k \in 1 .. t_wise : VarOf(p[k]) \in 1 .. file.vars /\ p[k] \in Int /\ p[k] # 0
         /\ Columns(p) \in Combinations(t_wise, file.vars)
         /\ Bits(p) \in [1 .. t_wise -> {0, 1}]
         /\ PlaceOf(p) = MapIndex(file.vars, Columns(p), Bits(p))
<1> DEFINE n == file.vars
           t == t_wise
<1>1. p \in LiteralsFrom(0, t, n) /\ t \in Nat /\ n \in Nat
  BY GivenIs
<1>2. /\ p \in [1 .. t -> Int]
      /\ \A k \in 1 .. t : VarOf(p[k]) \in 0 + 1 .. 0 + n
      /\ \A k \in 1 .. t - 1 : VarOf(p[k]) < VarOf(p[k + 1])
  BY <1>1 DEF LiteralsFrom
<1>3. \A k \in 1 .. t : VarOf(p[k]) \in 1 .. n /\ p[k] \in Int /\ p[k] # 0
  BY <1>1, <1>2 DEF VarOf
<1>4. Columns(p) \in Combinations(t, n)
  <2> DEFINE c == [k \in 1 .. t |-> VarOf(p[k]) - 1]
  <2>1. Columns(p) = c
    BY <1>2 DEF Columns
  <2>2. c \in [1 .. t -> 0 .. n - 1]
    BY <1>1, <1>3
  <2>3. \A k \in 1 .. t - 1 : c[k] < c[k + 1]
    <3> TAKE k \in 1 .. t - 1
    <3>1. k \in 1 .. t /\ k + 1 \in 1 .. t
      BY <1>1
    <3>2. c[k] = VarOf(p[k]) - 1 /\ c[k + 1] = VarOf(p[k + 1]) - 1
      BY <3>1
    <3>3. VarOf(p[k]) \in Nat /\ VarOf(p[k + 1]) \in Nat
      BY <1>3, <3>1
    <3> HIDE DEF c
    <3>4. QED  BY <1>2, <3>2, <3>3
  <2> HIDE DEF c
  <2>4. QED  BY <2>1, <2>2, <2>3 DEF Combinations
<1>5. Bits(p) \in [1 .. t -> {0, 1}]
  BY <1>2 DEF Bits
<1>6. QED  BY <1>2, <1>3, <1>4, <1>5 DEF PlaceOf, Columns, Bits

(* No two tuples share a place in the bit set.                             *)
LEMMA PlaceOnce ==
  ASSUME Given, NEW p \in TuplesOfSize(t_wise), NEW q \in TuplesOfSize(t_wise),
         PlaceOf(p) = PlaceOf(q)
  PROVE  p = q
<1>1. Columns(p) = Columns(q) /\ Bits(p) = Bits(q)
  <2>1. file.vars \in Nat /\ t_wise \in Nat /\ t_wise >= 2
    BY GivenIs
  <2>2. /\ Columns(p) \in Combinations(t_wise, file.vars) /\ Columns(q) \in Combinations(t_wise, file.vars)
        /\ Bits(p) \in [1 .. t_wise -> {0, 1}] /\ Bits(q) \in [1 .. t_wise -> {0, 1}]
        /\ MapIndex(file.vars, Columns(p), Bits(p)) = MapIndex(file.vars, Columns(q), Bits(q))
    BY TupleParts
  <2>3. QED  BY <2>1, <2>2, MapIndexOnce
<1>2. /\ p \in [1 .. t_wise -> Int] /\ q \in [1 .. t_wise -> Int]
      /\ DOMAIN p = 1 .. t_wise /\ DOMAIN q = 1 .. t_wise
      /\ \A k \in 1 .. t_wise : VarOf(p[k]) \in 1 .. file.vars /\ VarOf(q[k]) \in 1 .. file.vars
  BY TupleParts
<1>3. ASSUME NEW k \in 1 .. t_wise PROVE p[k] = q[k]
  <2>1. Columns(p)[k] = Columns(q)[k] /\ Bits(p)[k] = Bits(q)[k]
    BY <1>1
  <2>2. VarOf(p[k]) - 1 = VarOf(q[k]) - 1
    BY <1>2, <2>1 DEF Columns
  <2>3. (IF p[k] > 0 THEN 1 ELSE 0) = (IF q[k] > 0 THEN 1 ELSE 0)
    BY <1>2, <2>1 DEF Bits
  <2>4. VarOf(p[k]) \in Int /\ VarOf(q[k]) \in Int /\ p[k] \in Int /\ q[k] \in Int
    BY <1>2
  <2>5. VarOf(p[k]) = VarOf(q[k]) /\ (p[k] > 0 <=> q[k] > 0)
    BY <2>2, <2>3, <2>4
  <2>6. QED  BY <2>4, <2>5 DEF VarOf
<1> DEFINE D == 1 .. t_wise
<1>4. p \in [D -> Int] /\ q \in [D -> Int] /\ \A k \in D : p[k] = q[k]
  BY <1>2, <1>3
<1> HIDE DEF D
<1>5. QED  BY <1>4, SameFunction

(* A row that the solver returns has a value for every variable and        *)
(* satisfies every clause.                                                 *)
LEMMA ModelsAre ==
  ASSUME Given, NEW row \in Models
  PROVE  /\ row \in [1 .. file.vars -> {0, 1}]
         /\ \A k \in DOMAIN file.clauses : \E l \in Range(file.clauses[k]) : Makes(row, l)
<1>1. file \in Files
  BY DEF Given
<1>2. QED  BY <1>1 DEF Models, ModelsOf

(* The tuples a row covers.                                                *)
MadeBy(row) == { p \in TuplesOfSize(t_wise) : \A k \in 1 .. t_wise : Makes(row, p[k]) }

(* UpdateXTupleInfo and get_gain go through the columns of a row, the      *)
(* end of the run through tuples of literals: both mean the same places.   *)
LEMMA PlacesAre ==
  ASSUME Given, NEW row \in Models
  PROVE  Places(row) = { PlaceOf(p) : p \in MadeBy(row) }
<1> DEFINE n == file.vars
           t == t_wise
           C == Combinations(t, n)
           at(c) == MapIndex(n, c, [k \in DOMAIN c |-> row[c[k] + 1]])
<1>1. /\ t \in Nat /\ n \in Nat /\ 0 \in Nat /\ TuplesOfSize(t) = LiteralsFrom(0, t, n)
      /\ row \in [1 .. n -> {0, 1}]
  BY GivenIs, ModelsAre
<1>2. Places(row) = { at(c) : c \in C }
  <2>1. file \in Files /\ t_wise \in Strengths /\ row \in ModelsOf[file]
    BY DEF Given, Models
  <2>2. QED  BY <2>1 DEF Places, PlacesOf
<1>3. ASSUME NEW c \in C PROVE \E p \in MadeBy(row) : PlaceOf(p) = at(c)
  <2>1. /\ c \in [1 .. t -> 0 .. n - 1] /\ DOMAIN c = 1 .. t
        /\ \A k \in 1 .. t : c[k] \in Nat /\ c[k] + 1 \in 1 .. n
    BY <1>1 DEF Combinations
  <2> DEFINE s == [k \in 1 .. t |-> IF row[c[k] + 1] = 1 THEN 1 ELSE -1]
             p == Signed(0, t, c, s)
  <2>2. s \in [1 .. t -> {-1, 1}]
    OBVIOUS
  <2>3. p \in TuplesOfSize(t)
    <3> HIDE DEF s
    <3>1. QED  BY <1>1, <2>2, LiteralsAre
  <2>4. \A k \in 1 .. t : p[k] = (0 + c[k] + 1) * s[k]
    BY DEF Signed
  <2> HIDE DEF p
  <2>5. ASSUME NEW k \in 1 .. t
        PROVE  /\ Makes(row, p[k]) /\ VarOf(p[k]) - 1 = c[k]
               /\ (IF p[k] > 0 THEN 1 ELSE 0) = row[c[k] + 1]
    <3> DEFINE v == c[k] + 1
    <3>1. v \in 1 .. n /\ v \in Nat \ {0} /\ c[k] \in Nat /\ v - 1 = c[k] /\ row[v] \in {0, 1}
      <4>1. c[k] \in Nat /\ v \in 1 .. n /\ v = c[k] + 1
        BY <2>1
      <4> HIDE DEF v
      <4>2. row[v] \in {0, 1}
        BY <1>1, <4>1
      <4>3. QED  BY <1>1, <4>1, <4>2
    <3>2. s[k] = (IF row[v] = 1 THEN 1 ELSE -1) /\ p[k] = (0 + c[k] + 1) * s[k]
      BY <2>4
    <3>3. p[k] = (IF row[v] = 1 THEN v ELSE -v)
      <4>1. 0 + c[k] + 1 = v
        BY <3>1
      <4> HIDE DEF v, s
      <4>2. QED  BY <3>1, <3>2, <4>1
    <3> HIDE DEF v, s
    <3>4. VarOf(p[k]) = v /\ Makes(row, p[k]) /\ (IF p[k] > 0 THEN 1 ELSE 0) = row[v]
      BY <3>1, <3>3 DEF VarOf, Makes
    <3>5. QED  BY <3>1, <3>4 DEF v
  <2>6. p \in MadeBy(row)
    BY <2>3, <2>5 DEF MadeBy
  <2>7. DOMAIN p = 1 .. t /\ PlaceOf(p) = MapIndex(n, Columns(p), Bits(p))
    BY <2>3, TupleParts
  <2>8. Columns(p) = c
    <3>1. Columns(p) = [k \in 1 .. t |-> VarOf(p[k]) - 1]
      BY <2>7 DEF Columns
    <3>2. QED  BY <2>1, <2>5, <3>1
  <2>9. Bits(p) = [k \in DOMAIN c |-> row[c[k] + 1]]
    <3>1. Bits(p) = [k \in 1 .. t |-> IF p[k] > 0 THEN 1 ELSE 0]
      BY <2>7 DEF Bits
    <3>2. QED  BY <2>1, <2>5, <3>1
  <2>10. QED  BY <2>6, <2>7, <2>8, <2>9
<1>4. ASSUME NEW p \in MadeBy(row) PROVE \E c \in C : at(c) = PlaceOf(p)
  <2>1. p \in TuplesOfSize(t) /\ \A k \in 1 .. t : Makes(row, p[k])
    BY DEF MadeBy
  <2>2. /\ DOMAIN p = 1 .. t /\ Columns(p) \in C
        /\ PlaceOf(p) = MapIndex(n, Columns(p), Bits(p))
        /\ \A k \in 1 .. t : VarOf(p[k]) \in 1 .. n /\ p[k] \in Int /\ p[k] # 0
    BY <2>1, TupleParts
  <2>3. Columns(p) = [k \in 1 .. t |-> VarOf(p[k]) - 1]
    BY <2>2 DEF Columns
  <2>4. ASSUME NEW k \in 1 .. t PROVE row[Columns(p)[k] + 1] = IF p[k] > 0 THEN 1 ELSE 0
    <3>1. Columns(p)[k] + 1 = VarOf(p[k])
      BY <2>2, <2>3
    <3>2. row[VarOf(p[k])] = IF p[k] > 0 THEN 1 ELSE 0
      <4>1. p[k] \in Int /\ p[k] # 0 /\ Makes(row, p[k])
        BY <2>1, <2>2
      <4>2. QED  BY <4>1 DEF Makes, VarOf
    <3>3. QED  BY <3>1, <3>2
  <2>5. Bits(p) = [k \in DOMAIN Columns(p) |-> row[Columns(p)[k] + 1]]
    <3>1. Bits(p) = [k \in 1 .. t |-> IF p[k] > 0 THEN 1 ELSE 0] /\ DOMAIN Columns(p) = 1 .. t
      BY <2>2, <2>3 DEF Bits
    <3>2. QED  BY <2>4, <3>1
  <2>6. QED  BY <2>2, <2>5
<1> HIDE DEF at, C
<1>5. QED  BY <1>2, <1>3, <1>4

(* There are finitely many tuples, so finitely many places of a row.       *)
LEMMA PlacesFinite ==
  ASSUME Given
  PROVE  /\ IsFiniteSet(TuplesOfSize(t_wise))
         /\ \A row \in Models : IsFiniteSet(Places(row))
<1>1. IsFiniteSet(TuplesOfSize(t_wise))
  BY GivenIs, LiteralsCount
<1>2. ASSUME NEW row \in Models PROVE IsFiniteSet(Places(row))
  <2> DEFINE f == [p \in MadeBy(row) |-> PlaceOf(p)]
  <2>1. IsFiniteSet(MadeBy(row)) /\ MadeBy(row) \subseteq TuplesOfSize(t_wise)
    BY <1>1, FS_Subset DEF MadeBy
  <2>2. \A p, q \in MadeBy(row) : f[p] = f[q] => p = q
    <3> TAKE p, q \in MadeBy(row)
    <3>1. p \in TuplesOfSize(t_wise) /\ q \in TuplesOfSize(t_wise)
      BY <2>1
    <3>2. QED  BY <3>1, PlaceOnce
  <2>3. { f[p] : p \in MadeBy(row) } = { PlaceOf(p) : p \in MadeBy(row) }
    OBVIOUS
  <2> HIDE DEF f
  <2>4. IsFiniteSet({ f[p] : p \in MadeBy(row) })
    BY <2>1, <2>2, ImageCount
  <2>5. Places(row) = { f[p] : p \in MadeBy(row) }
    BY <2>3, PlacesAre
  <2>6. QED  BY <2>4, <2>5
<1>3. QED  BY <1>1, <1>2

(* No row makes a literal that contradicts the backbone, since that is     *)
(* taken from a unit clause.                                               *)
LEMMA BackboneSound ==
  ASSUME Given, as_backbone = Backbone(file), NEW row \in Models,
         NEW l \in Int, l # 0, VarOf(l) \in 1 .. file.vars, Contradicts(l)
  PROVE  ~Makes(row, l)
<1> DEFINE v == VarOf(l)
           cl == file.clauses
           units == { k \in DOMAIN cl : cl[k] \in {<<v>>, <<-v>>} }
           last == Max(units)
<1>1. cl \in Seq(Seq((-file.vars .. file.vars) \ {0})) /\ v \in 1 .. file.vars /\ file.vars \in Nat
  BY GivenIs
<1>2. as_backbone[v] = IF units = {} THEN -1 ELSE IF cl[last] = <<v>> THEN 1 ELSE 0
  BY <1>1 DEF Backbone
<1>3. as_backbone[v] = IF l > 0 THEN 0 ELSE 1
  BY DEF Contradicts
<1>4. units # {}
  BY <1>2, <1>3
<1>5. last \in units
  <2>1. units \subseteq 1 .. Len(cl) /\ Len(cl) \in Nat
    BY <1>1
  <2> HIDE DEF units
  <2> DEFINE back == { d \in Nat : Len(cl) - d \in units }
  <2>2. PICK d \in back : \A e \in back : d <= e
    <3>1. PICK k \in units : TRUE
      BY <1>4
    <3>2. Len(cl) - k \in Nat /\ Len(cl) - (Len(cl) - k) = k
      BY <2>1
    <3>3. back # {} /\ back \in SUBSET Nat
      BY <3>1, <3>2
    <3> HIDE DEF back
    <3>4. QED  BY <3>3, Least
  <2>3. \A k \in units : Len(cl) - d >= k
    <3> TAKE k \in units
    <3>1. Len(cl) - k \in Nat /\ Len(cl) - (Len(cl) - k) = k /\ k \in Nat
      BY <2>1
    <3>2. Len(cl) - k \in back
      BY <3>1
    <3>3. d <= Len(cl) - k /\ d \in Nat
      BY <2>2, <3>2
    <3>4. QED  BY <2>1, <3>1, <3>3
  <2>4. Len(cl) - d \in units
    BY <2>2
  <2>5. \E x \in units : \A y \in units : x >= y
    BY <2>3, <2>4
  <2>6. QED  BY <2>5 DEF Max
<1> HIDE DEF last
<1>6. PICK k \in DOMAIN cl : k = last /\ cl[k] \in {<<v>>, <<-v>>}
  BY <1>5
<1>7. \E i \in Range(cl[k]) : Makes(row, i)
  BY ModelsAre
<1>8. row \in [1 .. file.vars -> {0, 1}] /\ v \in Nat /\ v >= 1
  BY <1>1, ModelsAre
<1> HIDE DEF v, cl, units
<1>9. CASE cl[k] = <<v>>
  <2>1. Range(cl[k]) = {v}
    BY <1>9 DEF Range
  <2>2. Makes(row, v)
    BY <1>7, <2>1
  <2>3. row[v] = 1
    BY <1>8, <2>2 DEF Makes
  <2>4. as_backbone[v] = 1
    BY <1>2, <1>4, <1>6, <1>9
  <2>5. ~(l > 0)
    BY <1>3, <2>4
  <2>6. -l = v
    BY <2>5 DEF v, VarOf
  <2>7. QED  BY <2>3, <2>5, <2>6 DEF Makes
<1>10. CASE cl[k] = <<-v>>
  <2>1. Range(cl[k]) = {-v}
    BY <1>10 DEF Range
  <2>2. Makes(row, -v)
    BY <1>7, <2>1
  <2>3. row[v] = 0
    <3>1. ~(-v > 0) /\ -(-v) = v
      BY <1>8
    <3>2. QED  BY <2>2, <3>1 DEF Makes
  <2>4. cl[k] # <<v>>
    <3>1. -v # v
      BY <1>8
    <3>2. <<-v>>[1] = -v /\ <<v>>[1] = v
      OBVIOUS
    <3>3. QED  BY <1>10, <3>1, <3>2
  <2>5. as_backbone[v] = 0
    BY <1>2, <1>4, <1>6, <2>4
  <2>6. l > 0
    BY <1>3, <2>5
  <2>7. l = v
    BY <2>6 DEF v, VarOf
  <2>8. QED  BY <2>3, <2>6, <2>7 DEF Makes
<1>11. QED  BY <1>6, <1>9, <1>10

(* So no tuple that clashes is valid: the search leaves out none that a    *)
(* row could cover.                                                        *)
LEMMA ClashingInvalid ==
  ASSUME Given, as_backbone = Backbone(file), NEW p \in Clashing
  PROVE  SolutionsWith(p) = {}
<1>1. PICK k \in 1 .. t_wise : Contradicts(p[k])
  BY DEF Clashing
<1>2. DOMAIN p = 1 .. t_wise /\ p[k] \in Int /\ p[k] # 0 /\ VarOf(p[k]) \in 1 .. file.vars
  BY TupleParts DEF Clashing
<1>3. \A row \in Models : ~Makes(row, p[k])
  BY <1>1, <1>2, BackboneSound
<1>4. QED  BY <1>2, <1>3 DEF SolutionsWith

-----------------------------------------------------------------------------
(* The order in which find_uncovered_tuples_pre comes to the literals:     *)
(* of two values 0 comes first.                                            *)
Before(a, b) == VarOf(a) < VarOf(b) \/ (a = -b /\ a < 0)

(* It is a linear order of the literals.                                   *)
LEMMA BeforeTotal ==
  /\ \A a, b \in Int : a # 0 /\ b # 0 /\ a # b => Before(a, b) \/ Before(b, a)
  /\ \A a, b, c \in Int : a # 0 /\ b # 0 /\ c # 0 /\ Before(a, b) /\ Before(b, c) => Before(a, c)
<1>1. ASSUME NEW a \in Int, NEW b \in Int, a # 0, b # 0, a # b PROVE Before(a, b) \/ Before(b, a)
  <2>1. VarOf(a) = (IF a < 0 THEN -a ELSE a) /\ VarOf(b) = (IF b < 0 THEN -b ELSE b)
    BY DEF VarOf
  <2>2. VarOf(a) < VarOf(b) \/ VarOf(b) < VarOf(a) \/ a = -b
    BY <1>1, <2>1
  <2>3. a = -b => b = -a /\ (a < 0 \/ b < 0)
    BY <1>1
  <2>4. CASE VarOf(a) < VarOf(b)
    BY <2>4, Zenon DEF Before
  <2>5. CASE VarOf(b) < VarOf(a)
    BY <2>5, Zenon DEF Before
  <2>6. CASE a = -b
    BY <2>3, <2>6, Zenon DEF Before
  <2>7. QED  BY <2>2, <2>4, <2>5, <2>6
<1>2. ASSUME NEW a \in Int, NEW b \in Int, NEW c \in Int, a # 0, b # 0, c # 0,
             Before(a, b), Before(b, c)
      PROVE  Before(a, c)
  <2>1. /\ VarOf(a) = (IF a < 0 THEN -a ELSE a) /\ VarOf(b) = (IF b < 0 THEN -b ELSE b)
        /\ VarOf(c) = (IF c < 0 THEN -c ELSE c)
    BY DEF VarOf
  <2>2. (VarOf(a) < VarOf(b) \/ (a = -b /\ a < 0)) /\ (VarOf(b) < VarOf(c) \/ (b = -c /\ b < 0))
    BY <1>2 DEF Before
  <2>3. VarOf(a) < VarOf(c) \/ (a = -c /\ a < 0)
    BY <1>2, <2>1, <2>2
  <2>4. QED  BY <2>3, Zenon DEF Before
<1>3. QED  BY <1>1, <1>2

(* Two tuples differ first at their k-th literals.                         *)
Sooner(p, q, k) ==
  /\ k \in 1 .. t_wise
  /\ \A i \in 1 .. k - 1 : p[i] = q[i]
  /\ Before(p[k], q[k])

(* The order of the tuples goes by the first difference.                   *)
LEMMA EarlierIs ==
  ASSUME Given, NEW p \in TuplesOfSize(t_wise), NEW q \in TuplesOfSize(t_wise)
  PROVE  Earlier(p, q) <=> \E k \in Nat : Sooner(p, q, k)
<1>1. /\ DOMAIN p = 1 .. t_wise /\ p \in [1 .. t_wise -> Int] /\ q \in [1 .. t_wise -> Int]
      /\ t_wise \in Nat
  BY TupleParts, GivenIs
<1>2. ASSUME NEW k \in 1 .. t_wise
      PROVE  SubSeq(p, 1, k - 1) = SubSeq(q, 1, k - 1) <=> \A i \in 1 .. k - 1 : p[i] = q[i]
  <2>1. /\ SubSeq(p, 1, k - 1) = [i \in 1 .. k - 1 |-> p[i]]
        /\ SubSeq(q, 1, k - 1) = [i \in 1 .. k - 1 |-> q[i]]
    <3>1. p \in Seq(Int) /\ q \in Seq(Int) /\ Len(p) = t_wise /\ Len(q) = t_wise
      BY <1>1
    <3>2. k - 1 \in Nat /\ k - 1 <= t_wise /\ \A i \in 1 .. k - 1 : 1 + i - 1 = i
      BY <1>1
    <3>3. /\ SubSeq(p, 1, k - 1) \in Seq(Int) /\ SubSeq(q, 1, k - 1) \in Seq(Int)
          /\ Len(SubSeq(p, 1, k - 1)) = k - 1 /\ Len(SubSeq(q, 1, k - 1)) = k - 1
          /\ \A i \in 1 .. k - 1 : SubSeq(p, 1, k - 1)[i] = p[i] /\ SubSeq(q, 1, k - 1)[i] = q[i]
      BY <3>1, <3>2
    <3>4. QED  BY <3>3
  <2>2. QED  BY <2>1
<1>3. Earlier(p, q) <=> \E k \in 1 .. t_wise : /\ SubSeq(p, 1, k - 1) = SubSeq(q, 1, k - 1)
                                               /\ Before(p[k], q[k])
  <2> DEFINE L(k) == VarOf(p[k]) < VarOf(q[k]) \/ (p[k] = -q[k] /\ p[k] < 0)
  <2>1. \A k : Before(p[k], q[k]) <=> L(k)
    BY DEF Before
  <2>2. Earlier(p, q) <=> \E k \in DOMAIN p : SubSeq(p, 1, k - 1) = SubSeq(q, 1, k - 1) /\ L(k)
    BY Zenon DEF Earlier
  <2> HIDE DEF L
  <2>3. QED  BY <1>1, <2>1, <2>2
<1>4. ASSUME NEW k PROVE Sooner(p, q, k) <=> /\ k \in 1 .. t_wise
                                             /\ SubSeq(p, 1, k - 1) = SubSeq(q, 1, k - 1)
                                             /\ Before(p[k], q[k])
  BY <1>2 DEF Sooner
<1>5. \A k \in 1 .. t_wise : k \in Nat
  BY <1>1
<1>6. QED  BY <1>3, <1>4, <1>5

(* Of the tuples that are left one comes first.                            *)
LEMMA FirstThere ==
  ASSUME Given, NEW S \in SUBSET TuplesOfSize(t_wise), S # {}
  PROVE  \E p \in S : \A q \in S \ {p} : Earlier(p, q)
<1> DEFINE T == TuplesOfSize(t_wise)
           First1(s) == \E p \in s : \A q \in s \ {p} : Earlier(p, q)
           Good == { s \in SUBSET S : s # {} => First1(s) }
<1>0. t_wise \in Nat
  BY GivenIs
<1>1. \A p \in T : p \in [1 .. t_wise -> Int] /\ \A k \in 1 .. t_wise : p[k] \in Int /\ p[k] # 0
  BY TupleParts
<1>2. ASSUME NEW p \in T, NEW q \in T, p # q PROVE Earlier(p, q) \/ Earlier(q, p)
  <2> DEFINE Bad == { k \in Nat : k \in 1 .. t_wise /\ p[k] # q[k] }
  <2>1. Bad # {} /\ Bad \in SUBSET Nat
    <3>1. \E k \in 1 .. t_wise : p[k] # q[k]
      <4> DEFINE D == 1 .. t_wise
      <4>1. p \in [D -> Int] /\ q \in [D -> Int]
        BY <1>1
      <4> HIDE DEF D, T
      <4>2. \E k \in D : p[k] # q[k]
        BY <1>2, <4>1, SameFunction
      <4>3. QED  BY <4>2 DEF D
    <3>2. QED  BY <1>0, <3>1
  <2>2. PICK k \in Bad : \A y \in Bad : k <= y
    <3> HIDE DEF Bad
    <3>1. QED  BY <2>1, Least
  <2>3. k \in 1 .. t_wise /\ k \in Nat /\ p[k] # q[k]
    BY <2>2
  <2>4. \A i \in 1 .. k - 1 : p[i] = q[i]
    <3> TAKE i \in 1 .. k - 1
    <3>1. i \in Nat /\ i \in 1 .. t_wise /\ ~(k <= i)
      BY <1>0, <2>3
    <3>2. QED  BY <2>2, <3>1
  <2>5. Before(p[k], q[k]) \/ Before(q[k], p[k])
    <3>1. p[k] \in Int /\ q[k] \in Int /\ p[k] # 0 /\ q[k] # 0
      BY <1>1, <2>3
    <3>2. QED  BY <2>3, <3>1, BeforeTotal
  <2>6. Sooner(p, q, k) \/ Sooner(q, p, k)
    BY <2>3, <2>4, <2>5 DEF Sooner
  <2>7. QED  BY <2>3, <2>6, EarlierIs
<1>3. ASSUME NEW p \in T, NEW q \in T, NEW r \in T, Earlier(p, q), Earlier(q, r) PROVE Earlier(p, r)
  <2>1. PICK k \in Nat : Sooner(p, q, k)
    BY <1>3, EarlierIs
  <2>2. PICK j \in Nat : Sooner(q, r, j)
    BY <1>3, EarlierIs
  <2>3. \A i \in 1 .. t_wise : p[i] \in Int /\ q[i] \in Int /\ r[i] \in Int
                               /\ p[i] # 0 /\ q[i] # 0 /\ r[i] # 0
    BY <1>1
  <2>4. CASE k < j
    <3>1. /\ \A i \in 1 .. k - 1 : i \in 1 .. j - 1
          /\ k \in 1 .. j - 1
      BY <2>1, <2>4 DEF Sooner
    <3>2. Sooner(p, r, k)
      BY <2>1, <2>2, <3>1 DEF Sooner
    <3>3. QED  BY <3>2, EarlierIs
  <2>5. CASE j < k
    <3>1. /\ \A i \in 1 .. j - 1 : i \in 1 .. k - 1
          /\ j \in 1 .. k - 1
      BY <2>2, <2>5 DEF Sooner
    <3>2. Sooner(p, r, j)
      BY <2>1, <2>2, <3>1 DEF Sooner
    <3>3. QED  BY <3>2, EarlierIs
  <2>6. CASE j = k
    <3>1. Before(p[k], r[k])
      <4>1. Before(p[k], q[k]) /\ Before(q[k], r[k]) /\ k \in 1 .. t_wise
        BY <2>1, <2>2, <2>6 DEF Sooner
      <4>2. p[k] \in Int /\ q[k] \in Int /\ r[k] \in Int /\ p[k] # 0 /\ q[k] # 0 /\ r[k] # 0
        BY <2>3, <4>1
      <4>3. QED  BY <4>1, <4>2, BeforeTotal
    <3>2. Sooner(p, r, k)
      BY <2>1, <2>2, <2>6, <3>1 DEF Sooner
    <3>3. QED  BY <3>2, EarlierIs
  <2>7. QED  BY <2>4, <2>5, <2>6
<1> HIDE DEF T
<1>4. ASSUME NEW s \in SUBSET S, \A x \in s : s \ {x} \in Good PROVE s \in Good
  <2> SUFFICES ASSUME s # {} PROVE First1(s)
    OBVIOUS
  <2>0. \A x \in s : x \in T
    BY DEF T
  <2>1. PICK x \in s : TRUE
    OBVIOUS
  <2>2. CASE s \ {x} = {}
    <3>1. \A q \in s \ {x} : Earlier(x, q)
      BY <2>2
    <3>2. QED  BY <3>1
  <2>3. CASE s \ {x} # {}
    <3>1. PICK p \in s \ {x} : \A q \in (s \ {x}) \ {p} : Earlier(p, q)
      BY <1>4, <2>3
    <3>2. p # x /\ p \in T /\ x \in T
      BY <2>0
    <3>3. CASE Earlier(p, x)
      <4>1. \A q \in s \ {p} : Earlier(p, q)
        BY <3>1, <3>3
      <4>2. QED  BY <4>1
    <3>4. CASE Earlier(x, p)
      <4>1. \A q \in s \ {x} : Earlier(x, q)
        <5> TAKE q \in s \ {x}
        <5>1. CASE q = p
          BY <3>4, <5>1
        <5>2. CASE q # p
          <6>1. Earlier(p, q) /\ q \in T
            BY <2>0, <3>1, <5>2
          <6>2. QED  BY <1>3, <3>2, <3>4, <6>1
        <5>3. QED  BY <5>1, <5>2
      <4>2. QED  BY <4>1
    <3>5. QED  BY <1>2, <3>2, <3>3, <3>4
  <2>4. QED  BY <2>2, <2>3
<1>5. \A s \in SUBSET S : s \in Good
  <2>1. IsFiniteSet(S)
    BY PlacesFinite, FS_Subset
  <2> HIDE DEF Good
  <2>2. QED  BY <1>4, <2>1, SubsetInduction
<1>6. S \in Good
  BY <1>5
<1>7. QED  BY <1>6

-----------------------------------------------------------------------------
(* The inductive invariant, in four parts. The rows: every one is a row    *)
(* the solver returned, and they are as many as are counted.               *)
RowsRight ==
  /\ Given /\ as_backbone = Backbone(file)
  /\ testcase_set \in Seq(Models) /\ num_generated = Len(testcase_set) /\ num_generated > 0
  /\ pc \in {"update", "generate", "final", "find", "done"}

(* The bit set holds what the rows that have been counted cover, and the   *)
(* counter its size.                                                       *)
CountsRight ==
  /\ IsFiniteSet(already)
  /\ already = UNION { Places(testcase_set[k]) : k \in 1 .. Counted }
  /\ num_tuple = Cardinality(already)

(* In the loop: the sampling counts are those of the rows counted; every   *)
(* candidate carries what it would newly cover, before the last row is     *)
(* counted if that is still to come; and what was selected is what that    *)
(* row newly covers. clear_pq needs the last part: it takes off the        *)
(* selected places alone.                                                  *)
CandidatesRight ==
  pc \in {"update", "generate"} =>
    /\ appearance = [v \in 1 .. file.vars |->
                       Cardinality({ k \in 1 .. Counted : testcase_set[k][v] = 1 })]
    /\ \A c \in BagToSet(pq) : c.row \in Models /\ c = Candidate(c.row)
    /\ pc = "update" => IF num_generated = 1 THEN pq = EmptyBag
                        ELSE selected = Places(testcase_set[num_generated]) \ already

(* At the end: the count of the valid tuples is still too large by the     *)
(* invalid ones the search has not come to; every uncovered tuple found    *)
(* goes with a row that makes it; and every valid tuple is covered,        *)
(* still to come or among those found.                                     *)
EndRight ==
  /\ pc \in {"update", "generate", "final"} => pending = {} /\ uncovered = <<>> /\ solutions = <<>>
  /\ pc \in {"find", "done"} =>
       /\ pending \subseteq TuplesOfSize(t_wise)
       /\ exact = Cardinality(Valid) + Cardinality(pending \ Valid)
       /\ uncovered \in Seq(TuplesOfSize(t_wise)) /\ solutions \in Seq(Models)
       /\ Len(uncovered) = Len(solutions)
       /\ \A i \in 1 .. Len(uncovered) : solutions[i] \in SolutionsWith(uncovered[i])
       /\ \A p \in Valid : PlaceOf(p) \in already \/ p \in pending \/ p \in Range(uncovered)
  /\ pc = "done" => pending = {} /\ uncovered = <<>>

IInv == RowsRight /\ CountsRight /\ CandidatesRight /\ EndRight

(* A row adds to the counter what it adds to the bit set.                  *)
LEMMA CountGrows ==
  ASSUME Given, IsFiniteSet(already), num_tuple = Cardinality(already), NEW row \in Models
  PROVE  /\ IsFiniteSet(already \cup Places(row))
         /\ num_tuple + Cardinality(Places(row) \ already) = Cardinality(already \cup Places(row))
<1> DEFINE a == already
           b == Places(row) \ already
<1>1. IsFiniteSet(a) /\ IsFiniteSet(b) /\ a \cap b = {} /\ a \cup b = already \cup Places(row)
  <2>1. IsFiniteSet(Places(row))
    BY PlacesFinite
  <2>2. IsFiniteSet(b)
    BY <2>1, FS_Subset
  <2>3. QED  BY <2>2
<1> HIDE DEF a, b
<1>2. /\ IsFiniteSet(a \cup b)
      /\ Cardinality(a \cup b) = Cardinality(a) + Cardinality(b) - Cardinality(a \cap b)
  BY <1>1, FS_Union
<1>3. Cardinality(a \cap b) = 0 /\ Cardinality(a) \in Nat /\ Cardinality(b) \in Nat
  BY <1>1, FS_EmptySet, FS_CardinalityType
<1>4. Cardinality(a \cup b) = Cardinality(a) + Cardinality(b)
  BY <1>2, <1>3
<1>5. QED  BY <1>1, <1>2, <1>4 DEF a, b

(* Counting ones step by step counts them; what is left are zeros.         *)
LEMMA OnesCount ==
  ASSUME NEW n \in Nat, NEW x
  PROVE  /\ IsFiniteSet({ k \in 1 .. n : x[k] = 1 })
         /\ Cardinality({ k \in 1 .. n : x[k] = 1 }) \in Nat
         /\ x[n + 1] \in {0, 1} =>
              Cardinality({ k \in 1 .. n + 1 : x[k] = 1 })
                = Cardinality({ k \in 1 .. n : x[k] = 1 }) + x[n + 1]
         /\ (\A k \in 1 .. n : x[k] \in {0, 1}) =>
              Cardinality({ k \in 1 .. n : x[k] = 0 })
                = n - Cardinality({ k \in 1 .. n : x[k] = 1 })
<1> DEFINE D == { k \in 1 .. n : x[k] = 1 }
           Z == { k \in 1 .. n : x[k] = 0 }
           E == { k \in 1 .. n + 1 : x[k] = 1 }
<1>1. IsFiniteSet(1 .. n) /\ Cardinality(1 .. n) = n
  <2>1. n \in Int /\ 1 \in Int
    OBVIOUS
  <2>2. QED  BY <2>1, FS_Interval
<1>2. IsFiniteSet(D) /\ IsFiniteSet(Z) /\ Cardinality(D) \in Nat /\ Cardinality(Z) \in Nat
  <2>1. D \subseteq 1 .. n /\ Z \subseteq 1 .. n
    OBVIOUS
  <2> HIDE DEF D, Z
  <2>2. QED  BY <1>1, <2>1, FS_Subset, FS_CardinalityType
<1>3. ASSUME x[n + 1] \in {0, 1} PROVE Cardinality(E) = Cardinality(D) + x[n + 1]
  <2>1. CASE x[n + 1] = 0
    <3>1. E = D
      BY <2>1
    <3> HIDE DEF D, E
    <3>2. QED  BY <1>2, <2>1, <3>1
  <2>2. CASE x[n + 1] = 1
    <3>1. E = D \cup {n + 1} /\ n + 1 \notin D
      BY <2>2
    <3> DEFINE m == n + 1
    <3>2. E = D \cup {m} /\ m \notin D
      BY <3>1
    <3> HIDE DEF D, E, m
    <3>3. Cardinality(D \cup {m}) = Cardinality(D) + 1
      BY <1>2, <3>2, FS_AddElement
    <3>4. QED  BY <2>2, <3>2, <3>3
  <2>3. QED  BY <1>3, <2>1, <2>2
<1>4. ASSUME \A k \in 1 .. n : x[k] \in {0, 1} PROVE Cardinality(Z) = n - Cardinality(D)
  <2> DEFINE K == 1 .. n
  <2>1. D \cup Z = K /\ D \cap Z = {} /\ Cardinality(K) = n
    BY <1>1, <1>4
  <2> HIDE DEF D, Z, K
  <2>2. Cardinality(D \cup Z) = Cardinality(D) + Cardinality(Z) - Cardinality(D \cap Z)
    BY <1>2, FS_Union
  <2>3. Cardinality(D \cap Z) = 0
    BY <2>1, FS_EmptySet
  <2> DEFINE d == Cardinality(D)
             z == Cardinality(Z)
  <2>4. n = d + z - 0 /\ d \in Nat /\ z \in Nat
    <3>1. Cardinality(D \cup Z) = n
      BY <2>1
    <3>2. QED  BY <1>2, <2>2, <2>3, <3>1
  <2> HIDE DEF d, z
  <2>5. z = n - d
    BY <2>4
  <2>6. QED  BY <2>5 DEF d, z
<1>5. QED  BY <1>2, <1>3, <1>4

-----------------------------------------------------------------------------
(* The first row is not counted yet, and nothing else is there.            *)
LEMMA InitRight == Init => IInv
<1> SUFFICES ASSUME Init PROVE IInv
  OBVIOUS
<1>1. PICK row \in Models : testcase_set = <<row>>
  BY DEF Init
<1>2. Given /\ as_backbone = Backbone(file) /\ pc = "update" /\ num_generated = 1
      /\ already = {} /\ num_tuple = 0 /\ pq = EmptyBag
      /\ pending = {} /\ uncovered = <<>> /\ solutions = <<>>
      /\ appearance = [v \in 1 .. file.vars |-> 0]
  BY DEF Init, Given
<1>3. RowsRight
  BY <1>1, <1>2 DEF RowsRight
<1>4. 1 .. Counted = {}
  BY <1>2 DEF Counted
<1>5. CountsRight
  <2>1. UNION { Places(testcase_set[k]) : k \in {} } = {}
    OBVIOUS
  <2>2. QED  BY <1>2, <1>4, <2>1, FS_EmptySet DEF CountsRight
<1>6. CandidatesRight
  <2>1. BagToSet(pq) = {}
    BY <1>2 DEF BagToSet, EmptyBag, SetToBag
  <2>2. \A v : { k \in 1 .. Counted : testcase_set[k][v] = 1 } = {}
    BY <1>4
  <2>3. \A v : Cardinality({ k \in 1 .. Counted : testcase_set[k][v] = 1 }) = 0
    BY <2>2, FS_EmptySet
  <2>4. appearance = [v \in 1 .. file.vars |->
                       Cardinality({ k \in 1 .. Counted : testcase_set[k][v] = 1 })]
    BY <1>2, <2>3
  <2>5. QED  BY <1>2, <2>1, <2>4 DEF CandidatesRight
<1>7. EndRight
  BY <1>2 DEF EndRight
<1>8. QED  BY <1>3, <1>5, <1>6, <1>7 DEF IInv

(* The file and the strength do not change, nor what depends on them       *)
(* alone.                                                                  *)
LEMMA Remaining ==
  ASSUME UNCHANGED given
  PROVE  /\ file' = file /\ t_wise' = t_wise /\ as_backbone' = as_backbone
         /\ Given' <=> Given
         /\ Models' = Models
         /\ TuplesOfSize(t_wise)' = TuplesOfSize(t_wise)
         /\ Valid' = Valid
BY DEF given, Given, Models, TuplesOfSize, Valid, SolutionsWith

(* Every row that is counted is one the solver returned.                   *)
LEMMA RowsAre ==
  ASSUME RowsRight
  PROVE  /\ Given /\ num_generated \in Nat /\ num_generated >= 1
         /\ \A k \in 1 .. num_generated : testcase_set[k] \in Models
BY DEF RowsRight

(* At the head of the loop the last row is counted, and what it covers     *)
(* is taken off the gains of the candidates that stay.                     *)
LEMMA UpdateRight == IInv /\ Update => IInv'
<1> SUFFICES ASSUME IInv, Update PROVE IInv'
  OBVIOUS
<1> DEFINE n == num_generated
           row == testcase_set[n]
<1>1. /\ pc = "update" /\ UNCHANGED given /\ testcase_set' = testcase_set
      /\ num_generated' = num_generated /\ UNCHANGED finalVars
      /\ pc' \in {"generate", "final"}
  BY DEF Update
<1>2. RowsRight /\ CountsRight /\ CandidatesRight /\ EndRight
  BY DEF IInv
<1>3. n \in Nat /\ n >= 1 /\ row \in Models /\ Given /\ Counted = n - 1 /\ Counted' = n
  <2>1. n \in Nat /\ n >= 1 /\ Given
    BY <1>2, RowsAre
  <2>2. row \in Models
    BY <1>2, <2>1, RowsAre
  <2>3. QED  BY <1>1, <2>1, <2>2 DEF Counted
<1>4. /\ already' = already \cup Places(row)
      /\ num_tuple' = num_tuple + Cardinality(Places(row) \ already)
  BY <1>1 DEF Update, UpdateTupleInfo, Places, given
<1>5. RowsRight'
  BY <1>1, <1>2, Remaining DEF RowsRight
<1>6. CountsRight'
  <2>1. IsFiniteSet(already') /\ num_tuple' = Cardinality(already')
    BY <1>2, <1>3, <1>4, CountGrows DEF CountsRight
  <2>2. already' = UNION { Places(testcase_set[k]) : k \in 1 .. n }
    <3>1. already = UNION { Places(testcase_set[k]) : k \in 1 .. n - 1 }
      BY <1>2, <1>3 DEF CountsRight
    <3>2. 1 .. n = (1 .. n - 1) \cup {n}
      BY <1>3
    <3>3. QED  BY <1>4, <3>1, <3>2
  <2>3. QED  BY <1>1, <1>3, <2>1, <2>2, Remaining DEF CountsRight, Places
<1>7. CandidatesRight'
  <2> SUFFICES ASSUME pc' = "generate" PROVE CandidatesRight'
    BY <1>1 DEF CandidatesRight
  <2>1. appearance' = [v \in 1 .. file.vars |->
                         Cardinality({ k \in 1 .. n : testcase_set[k][v] = 1 })]
    <3>1. appearance = [v \in 1 .. file.vars |->
                          Cardinality({ k \in 1 .. n - 1 : testcase_set[k][v] = 1 })]
      BY <1>1, <1>2, <1>3 DEF CandidatesRight
    <3>2. appearance' = [v \in DOMAIN appearance |-> appearance[v] + row[v]]
      BY DEF Update
    <3>3. ASSUME NEW v \in 1 .. file.vars
          PROVE  Cardinality({ k \in 1 .. n - 1 : testcase_set[k][v] = 1 }) + row[v]
                   = Cardinality({ k \in 1 .. n : testcase_set[k][v] = 1 })
      <4> DEFINE x == [k \in 1 .. n |-> testcase_set[k][v]]
                 m == n - 1
      <4>1. m \in Nat /\ m + 1 = n /\ n \in 1 .. n /\ \A k \in 1 .. m : k \in 1 .. n
        BY <1>3
      <4>2. x[n] = row[v] /\ row[v] \in {0, 1}
        BY <1>3, <4>1, ModelsAre
      <4>3. { k \in 1 .. m : x[k] = 1 } = { k \in 1 .. m : testcase_set[k][v] = 1 }
        BY <4>1
      <4>4. { k \in 1 .. n : x[k] = 1 } = { k \in 1 .. n : testcase_set[k][v] = 1 }
        OBVIOUS
      <4> HIDE DEF x, m
      <4>5. Cardinality({ k \in 1 .. m + 1 : x[k] = 1 })
              = Cardinality({ k \in 1 .. m : x[k] = 1 }) + x[m + 1]
        BY <4>1, <4>2, OnesCount
      <4>6. QED  BY <4>1, <4>2, <4>3, <4>4, <4>5 DEF m
    <3>4. QED  BY <3>1, <3>2, <3>3
  <2>2. \A c \in BagToSet(pq') : /\ c.row \in Models
                                 /\ c = [row |-> c.row, gain |-> Places(c.row) \ already']
    <3>1. clear_pq
      BY DEF Update
    <3>2. CASE n = 1
      <4>1. pq = EmptyBag /\ pq' = pq
        BY <1>1, <1>2, <3>1, <3>2 DEF CandidatesRight, clear_pq
      <4>2. BagToSet(pq') = {}
        BY <4>1 DEF BagToSet, EmptyBag, SetToBag
      <4>3. QED  BY <4>2
    <3>3. CASE n # 1
      <4>1. selected = Places(row) \ already
        BY <1>1, <1>2, <3>3 DEF CandidatesRight
      <4>2. pq' \in Best(Useful)
        BY <3>1, <3>3 DEF clear_pq
      <4>3. BagToSet(pq') \subseteq BagToSet(Useful)
        BY <4>2 DEF Best, BagToSet
      <4>4. BagToSet(Useful) \subseteq BagToSet(Reduced)
        BY DEF Useful, BagToSet
      <4>5. BagToSet(Reduced) = { [c EXCEPT !.gain = @ \ selected] : c \in BagToSet(pq) }
        BY DEF Reduced, BagOfAll, BagToSet
      <4>6. ASSUME NEW c \in BagToSet(pq')
            PROVE  /\ c.row \in Models
                   /\ c = [row |-> c.row, gain |-> Places(c.row) \ already']
        <5>1. PICK d \in BagToSet(pq) : c = [d EXCEPT !.gain = @ \ selected]
          BY <4>3, <4>4, <4>5
        <5>2. d.row \in Models /\ d = [row |-> d.row, gain |-> Places(d.row) \ already]
          BY <1>1, <1>2 DEF CandidatesRight, Candidate, get_gain
        <5>3. c = [row |-> d.row, gain |-> (Places(d.row) \ already) \ selected]
          BY <5>1, <5>2
        <5>4. (Places(d.row) \ already) \ selected = Places(d.row) \ already'
          BY <1>4, <4>1
        <5>5. QED  BY <5>2, <5>3, <5>4
      <4>7. QED  BY <4>6
    <3>4. QED  BY <3>2, <3>3
  <2>3. QED
    <3>1. BagToSet(pq)' = BagToSet(pq') /\ pc' # "update"
      BY DEF BagToSet
    <3>2. QED  BY <1>1, <1>3, <2>1, <2>2, <3>1, Remaining DEF CandidatesRight, Candidate, get_gain, Places
<1>8. EndRight'
  <2>1. pc' \notin {"find", "done"} /\ pending' = {} /\ uncovered' = <<>> /\ solutions' = <<>>
    BY <1>1, <1>2 DEF EndRight, finalVars
  <2>2. QED  BY <2>1 DEF EndRight
<1>9. QED  BY <1>5, <1>6, <1>7, <1>8 DEF IInv

(* A new row is not counted yet; its gain is what was selected.            *)
LEMMA GenerateRight == IInv /\ Generate => IInv'
<1> SUFFICES ASSUME IInv, Generate PROVE IInv'
  OBVIOUS
<1> DEFINE n == num_generated
<1>1. /\ pc = "generate" /\ UNCHANGED given /\ UNCHANGED finalVars
      /\ already' = already /\ num_tuple' = num_tuple /\ appearance' = appearance
  BY DEF Generate
<1>2. RowsRight /\ CountsRight /\ CandidatesRight /\ EndRight
  BY DEF IInv
<1>3. n \in Nat /\ n >= 1 /\ Given /\ Counted = n /\ testcase_set \in Seq(Models)
      /\ n = Len(testcase_set) /\ \A k \in 1 .. n : testcase_set[k] \in Models
  BY <1>1, <1>2, RowsAre DEF Counted, RowsRight
<1>4. \A c \in BagToSet(pq') : /\ c.row \in Models
                               /\ c = [row |-> c.row, gain |-> Places(c.row) \ already]
  <2>1. PICK drawn \in [1 .. CandidateSetSize -> Models] :
          pq' = pq (+) BagOfAll(Candidate, ToBag(drawn))
    BY DEF Generate
  <2>2. BagToSet(pq') = BagToSet(pq) \cup { Candidate(r) : r \in Range(drawn) }
    BY <2>1 DEF BagToSet, BagOfAll, ToBag, (+)
  <2>3. \A r \in Range(drawn) : r \in Models
    BY DEF Range
  <2>4. ASSUME NEW c \in BagToSet(pq')
        PROVE  c.row \in Models /\ c = [row |-> c.row, gain |-> Places(c.row) \ already]
    <3>1. CASE c \in BagToSet(pq)
      BY <1>1, <1>2, <3>1 DEF CandidatesRight, Candidate, get_gain
    <3>2. CASE c \in { Candidate(r) : r \in Range(drawn) }
      BY <2>3, <3>2 DEF Candidate, get_gain
    <3>3. QED  BY <2>2, <3>1, <3>2
  <2>5. QED  BY <2>4
<1>5. PICK c \in BagToSet(pq') :
         /\ selected' = c.gain
         /\ testcase_set' = IF selected' = {} THEN testcase_set ELSE Append(testcase_set, c.row)
  BY DEF Generate
<1>6. c.row \in Models /\ selected' = Places(c.row) \ already
  BY <1>4, <1>5
<1>7. CASE selected' = {}
  <2>1. pc' = "final" /\ num_generated' = n /\ testcase_set' = testcase_set
    BY <1>5, <1>7 DEF Generate
  <2>2. Counted' = n
    BY <2>1 DEF Counted
  <2>3. RowsRight'
    BY <1>1, <1>2, <2>1, Remaining DEF RowsRight
  <2>4. CountsRight'
    BY <1>1, <1>2, <1>3, <2>1, <2>2, Remaining DEF CountsRight, Places
  <2>5. CandidatesRight'
    BY <2>1 DEF CandidatesRight
  <2>6. EndRight'
    BY <1>1, <1>2, <2>1 DEF EndRight, finalVars
  <2>7. QED  BY <2>3, <2>4, <2>5, <2>6 DEF IInv
<1>8. CASE selected' # {}
  <2>1. pc' = "update" /\ num_generated' = n + 1 /\ testcase_set' = Append(testcase_set, c.row)
    BY <1>5, <1>8 DEF Generate
  <2>2. Counted' = n
    BY <1>3, <2>1 DEF Counted
  <2>3. /\ testcase_set' \in Seq(Models) /\ Len(testcase_set') = n + 1
        /\ testcase_set'[n + 1] = c.row
        /\ \A k \in 1 .. n : testcase_set'[k] = testcase_set[k]
    BY <1>3, <1>6, <2>1
  <2>4. RowsRight'
    BY <1>1, <1>2, <1>3, <2>1, <2>3, Remaining DEF RowsRight
  <2>5. CountsRight'
    <3>1. already = UNION { Places(testcase_set[k]) : k \in 1 .. n }
      BY <1>2, <1>3 DEF CountsRight
    <3>2. { Places(testcase_set[k]) : k \in 1 .. n } = { Places(testcase_set'[k]) : k \in 1 .. n }
      BY <2>3
    <3>3. QED  BY ZenonT(60), <1>1, <1>2, <2>2, <3>1, <3>2, Remaining DEF CountsRight, Places
  <2>6. CandidatesRight'
    <3>1. appearance' = [v \in 1 .. file.vars |->
                           Cardinality({ k \in 1 .. n : testcase_set'[k][v] = 1 })]
      <4>1. appearance = [v \in 1 .. file.vars |->
                            Cardinality({ k \in 1 .. n : testcase_set[k][v] = 1 })]
        BY <1>1, <1>2, <1>3 DEF CandidatesRight
      <4>2. \A v : { k \in 1 .. n : testcase_set[k][v] = 1 } = { k \in 1 .. n : testcase_set'[k][v] = 1 }
        BY <2>3
      <4>3. QED  BY <1>1, <4>1, <4>2
    <3>2. BagToSet(pq)' = BagToSet(pq') /\ num_generated' # 1
      BY <1>3, <2>1 DEF BagToSet
    <3>3. selected' = Places(testcase_set'[n + 1]) \ already
      BY <1>6, <2>3
    <3>4. QED  BY <1>1, <1>4, <2>1, <2>2, <3>1, <3>2, <3>3, Remaining
               DEF CandidatesRight, Candidate, get_gain, Places
  <2>7. EndRight'
    BY <1>1, <1>2, <2>1 DEF EndRight, finalVars
  <2>8. QED  BY <2>4, <2>5, <2>6, <2>7 DEF IInv
<1>9. QED  BY <1>7, <1>8

(* What is covered are valid tuples only, and a tuple whose place is       *)
(* covered is valid.                                                       *)
LEMMA CoveredValid ==
  ASSUME RowsRight, CountsRight
  PROVE  /\ \A x \in already : \E p \in Valid : x = PlaceOf(p)
         /\ \A p \in TuplesOfSize(t_wise) : PlaceOf(p) \in already => p \in Valid
<1>1. ASSUME NEW x \in already PROVE \E p \in Valid : x = PlaceOf(p)
  <2>1. PICK k \in 1 .. Counted : x \in Places(testcase_set[k])
    BY DEF CountsRight
  <2>2. k \in 1 .. num_generated /\ Given /\ testcase_set[k] \in Models
    BY RowsAre DEF Counted
  <2> DEFINE row == testcase_set[k]
  <2>3. row \in Models
    BY <2>2
  <2>4. PICK p \in MadeBy(row) : x = PlaceOf(p)
    BY <2>1, <2>2, PlacesAre
  <2>5. /\ p \in TuplesOfSize(t_wise) /\ DOMAIN p = 1 .. t_wise
        /\ \A i \in 1 .. t_wise : Makes(row, p[i])
    BY <2>2, TupleParts DEF MadeBy
  <2> HIDE DEF row
  <2>6. p \in Valid
    BY <2>3, <2>5 DEF Valid, SolutionsWith
  <2>7. QED  BY <2>4, <2>6
<1>2. ASSUME NEW p \in TuplesOfSize(t_wise), PlaceOf(p) \in already PROVE p \in Valid
  <2>1. PICK q \in Valid : PlaceOf(p) = PlaceOf(q)
    BY <1>1, <1>2
  <2>2. q \in TuplesOfSize(t_wise) /\ Given
    BY RowsAre DEF Valid
  <2>3. p = q
    BY <2>1, <2>2, PlaceOnce
  <2>4. QED  BY <2>3
<1>3. QED  BY <1>1, <1>2

(* When the search for what is left begins: of all tuples those that       *)
(* clash have been counted off, and of the others every one that is not    *)
(* valid is still to come.                                                 *)
LEMMA FinalRight == IInv /\ Final => IInv'
<1> SUFFICES ASSUME IInv, Final PROVE IInv'
  OBVIOUS
<1> DEFINE T == TuplesOfSize(t_wise)
           n == file.vars
           t == t_wise
<1>1. /\ pc = "final" /\ pc' = "find" /\ UNCHANGED given /\ UNCHANGED loopVars
      /\ testcase_set' = testcase_set /\ uncovered' = uncovered /\ solutions' = solutions
  BY DEF Final
<1>2. RowsRight /\ CountsRight /\ CandidatesRight /\ EndRight
  BY DEF IInv
<1>3. Given /\ as_backbone = Backbone(file) /\ uncovered = <<>> /\ solutions = <<>>
  BY <1>1, <1>2 DEF RowsRight, EndRight
<1>4. RowsRight'
  BY <1>1, <1>2, Remaining DEF RowsRight, loopVars
<1>5. CountsRight'
  <2>1. Counted' = Counted
    BY <1>1 DEF Counted, loopVars
  <2>2. QED  BY <1>1, <1>2, <2>1, Remaining DEF CountsRight, Places, loopVars
<1>6. CandidatesRight'
  BY <1>1 DEF CandidatesRight
<1>7. pending' = { p \in T : p \notin Clashing /\ PlaceOf(p) \notin already }
  <2>1. \A p \in T : (\A k \in DOMAIN p : ~Contradicts(p[k])) <=> p \notin Clashing
    <3> TAKE p \in T
    <3>1. DOMAIN p = 1 .. t_wise
      BY <1>3, TupleParts
    <3>2. QED  BY <3>1 DEF Clashing
  <2>2. pending' = { p \in T : /\ \A k \in DOMAIN p : ~Contradicts(p[k])
                               /\ PlaceOf(p) \notin already }
    BY DEF Final
  <2> HIDE DEF T
  <2>3. QED  BY <2>1, <2>2
<1>8. Clashing \subseteq T /\ Valid \subseteq T /\ Clashing \cap Valid = {}
  <2>1. \A p \in Clashing : SolutionsWith(p) = {}
    BY <1>3, ClashingInvalid
  <2>2. QED  BY <2>1 DEF Clashing, Valid
<1>9. pending' \ Valid = (T \ Clashing) \ Valid
  <2>1. \A p \in T : PlaceOf(p) \in already => p \in Valid
    BY <1>2, CoveredValid
  <2> HIDE DEF T
  <2>2. QED  BY <1>7, <2>1
<1>10. exact' = Cardinality(Valid) + Cardinality(pending' \ Valid)
  <2> DEFINE C == Clashing
             V == Valid
             W == (T \ C) \ V
  <2>1. IsFiniteSet(T) /\ IsFiniteSet(C) /\ IsFiniteSet(V) /\ IsFiniteSet(W)
    <3>1. IsFiniteSet(T)
      BY <1>3, PlacesFinite
    <3>2. C \subseteq T /\ V \subseteq T /\ W \subseteq T
      BY <1>8
    <3> HIDE DEF T, C, V, W
    <3>3. QED  BY <3>1, <3>2, FS_Subset
  <2>2. Cardinality(T) = nCr[n][t] * PowerOfTwo[t]
    <3>1. n \in Nat /\ t \in Nat /\ 0 \in Nat /\ T = LiteralsFrom(0, t, n)
      BY <1>3, GivenIs
    <3>2. QED  BY <3>1, LiteralsCount
  <2>3. exact' = combnum[t][n] * PowerOfTwo[t] - CountedOff
    BY DEF Final
  <2>4. combnum[t][n] = nCr[n][t]
    <3>1. n \in Nat /\ t \in Nat /\ t >= 2
      BY <1>3, GivenIs
    <3>2. QED  BY <3>1, CombnumIs
  <2>5. CountedOff = Cardinality(C)
    BY <1>3, CountedOffIs
  <2>6. exact' = Cardinality(T) - Cardinality(C)
    BY <2>2, <2>3, <2>4, <2>5
  <2>7. T = C \cup (V \cup W) /\ C \cap (V \cup W) = {} /\ V \cap W = {}
    BY <1>8
  <2>8. pending' \ Valid = W
    BY <1>9
  <2> HIDE DEF T, C, V, W
  <2>9. IsFiniteSet(V \cup W) /\ Cardinality(V \cup W) = Cardinality(V) + Cardinality(W) - Cardinality(V \cap W)
    BY <2>1, FS_Union
  <2>10. Cardinality(C \cup (V \cup W)) = Cardinality(C) + Cardinality(V \cup W) - Cardinality(C \cap (V \cup W))
    <3> DEFINE U == V \cup W
    <3>1. IsFiniteSet(U)
      BY <2>9
    <3> HIDE DEF U
    <3>2. Cardinality(C \cup U) = Cardinality(C) + Cardinality(U) - Cardinality(C \cap U)
      BY <2>1, <3>1, FS_Union
    <3>3. QED  BY <3>2 DEF U
  <2>11. Cardinality(V \cap W) = 0 /\ Cardinality(C \cap (V \cup W)) = 0
    BY <2>7, FS_EmptySet
  <2>12. Cardinality(C) \in Nat /\ Cardinality(V) \in Nat /\ Cardinality(W) \in Nat
    BY <2>1, FS_CardinalityType
  <2>13. exact' = Cardinality(V) + Cardinality(W)
    BY <2>6, <2>7, <2>9, <2>10, <2>11, <2>12
  <2>14. QED  BY <2>8, <2>13 DEF V
<1>11. \A p \in Valid : PlaceOf(p) \in already \/ p \in pending'
  BY <1>7, <1>8
<1>12. already' = already /\ Valid' = Valid /\ TuplesOfSize(t_wise)' = T /\ Models' = Models
       /\ pending' \subseteq T /\ uncovered' = <<>> /\ solutions' = <<>>
  BY <1>1, <1>3, <1>7, Remaining DEF loopVars
<1>13. EndRight'
  <2>1. <<>> \in Seq(T) /\ <<>> \in Seq(Models) /\ Len(<<>>) = 0
    OBVIOUS
  <2>2. ASSUME NEW p \in Valid PROVE PlaceOf(p)' \in already' \/ p \in pending'
    <3>1. PlaceOf(p)' = PlaceOf(p)
      BY <1>1, Remaining DEF PlaceOf
    <3>2. QED  BY <1>11, <1>12, <3>1
  <2> HIDE DEF T
  <2>3. QED  BY <1>1, <1>10, <1>12, <2>1, <2>2 DEF EndRight
<1>14. QED  BY <1>4, <1>5, <1>6, <1>13 DEF IInv

(* The solver decides one tuple: it is counted off, or found with a row.   *)
LEMMA FindRight == IInv /\ Find => IInv'
<1> SUFFICES ASSUME IInv, Find PROVE IInv'
  OBVIOUS
<1> DEFINE T == TuplesOfSize(t_wise)
           p0 == First
<1>1. /\ pc = "find" /\ pc' = "find" /\ UNCHANGED given /\ UNCHANGED loopVars
      /\ testcase_set' = testcase_set /\ pending # {} /\ pending' = pending \ {p0}
  BY DEF Find
<1>2. RowsRight /\ CountsRight /\ CandidatesRight /\ EndRight
  BY DEF IInv
<1>3. /\ Given /\ pending \subseteq T
      /\ exact = Cardinality(Valid) + Cardinality(pending \ Valid)
      /\ uncovered \in Seq(T) /\ solutions \in Seq(Models)
      /\ Len(uncovered) = Len(solutions)
      /\ \A i \in 1 .. Len(uncovered) : solutions[i] \in SolutionsWith(uncovered[i])
      /\ \A p \in Valid : PlaceOf(p) \in already \/ p \in pending \/ p \in Range(uncovered)
  BY <1>1, <1>2 DEF RowsRight, EndRight
<1>4. RowsRight'
  BY <1>1, <1>2, Remaining DEF RowsRight, loopVars
<1>5. CountsRight'
  <2>1. Counted' = Counted
    BY <1>1 DEF Counted, loopVars
  <2>2. QED  BY <1>1, <1>2, <2>1, Remaining DEF CountsRight, Places, loopVars
<1>6. CandidatesRight'
  BY <1>1 DEF CandidatesRight
<1>7. p0 \in pending
  <2>1. \E p \in pending : \A q \in pending \ {p} : Earlier(p, q)
    BY <1>1, <1>3, FirstThere
  <2>2. QED  BY <2>1 DEF First
<1>8. already' = already /\ Valid' = Valid /\ TuplesOfSize(t_wise)' = T /\ Models' = Models
      /\ pending' \subseteq T
  BY <1>1, <1>3, Remaining DEF loopVars
<1>9. /\ \A p : PlaceOf(p)' = PlaceOf(p)
      /\ \A p : SolutionsWith(p)' = SolutionsWith(p)
  BY <1>1, Remaining DEF PlaceOf, SolutionsWith
<1> HIDE DEF T, p0
<1>10. CASE SolutionsWith(p0) = {} /\ exact' = exact - 1 /\ uncovered' = uncovered /\ solutions' = solutions
  <2>1. p0 \notin Valid
    BY <1>10 DEF Valid
  <2>2. exact' = Cardinality(Valid) + Cardinality(pending' \ Valid)
    <3> DEFINE A == pending \ Valid
               V == Valid
    <3>1. IsFiniteSet(A) /\ IsFiniteSet(V)
      <4>1. IsFiniteSet(T) /\ A \subseteq T /\ V \subseteq T
        BY <1>3, PlacesFinite DEF T, Valid
      <4> HIDE DEF A, V
      <4>2. QED  BY <4>1, FS_Subset
    <3>2. pending' \ Valid = A \ {p0} /\ p0 \in A
      BY <1>1, <1>7, <2>1 DEF p0
    <3>3. exact = Cardinality(V) + Cardinality(A)
      BY <1>3
    <3> HIDE DEF A, V
    <3>4. Cardinality(A \ {p0}) = Cardinality(A) - 1
      BY <3>1, <3>2, FS_RemoveElement
    <3>5. Cardinality(V) \in Nat /\ Cardinality(A) \in Nat
      BY <3>1, FS_CardinalityType
    <3> DEFINE a == Cardinality(A)
               v == Cardinality(V)
    <3>6. exact' = (v + a) - 1 /\ Cardinality(pending' \ Valid) = a - 1 /\ a \in Nat /\ v \in Nat
      BY <1>10, <3>2, <3>3, <3>4, <3>5
    <3> HIDE DEF a, v
    <3>7. exact' = v + Cardinality(pending' \ Valid)
      BY <3>6
    <3>8. QED  BY <3>7 DEF v, V
  <2>3. \A p \in Valid : PlaceOf(p) \in already \/ p \in pending' \/ p \in Range(uncovered)
    BY <1>1, <1>3, <2>1 DEF p0
  <2>4. EndRight'
    BY <1>1, <1>3, <1>8, <1>9, <1>10, <2>2, <2>3 DEF EndRight
  <2>5. QED  BY <1>4, <1>5, <1>6, <2>4 DEF IInv
<1>11. ASSUME NEW row \in SolutionsWith(p0), solutions' = Append(solutions, row),
              uncovered' = Append(uncovered, p0), exact' = exact
       PROVE  IInv'
  <2>1. p0 \in T
    BY <1>3, <1>7
  <2>2. p0 \in Valid /\ row \in Models
    BY <2>1, <1>11 DEF Valid, SolutionsWith, T
  <2>3. pending' \ Valid = pending \ Valid
    BY <1>1, <2>2 DEF p0
  <2>4. /\ uncovered' \in Seq(T) /\ solutions' \in Seq(Models)
        /\ Len(uncovered') = Len(uncovered) + 1 /\ Len(solutions') = Len(uncovered) + 1
        /\ Len(uncovered) \in Nat
    BY <1>3, <1>11, <2>1, <2>2
  <2>5. \A i \in 1 .. Len(uncovered') : solutions'[i] \in SolutionsWith(uncovered'[i])
    <3> TAKE i \in 1 .. Len(uncovered')
    <3>1. CASE i \in 1 .. Len(uncovered)
      <4>1. solutions'[i] = solutions[i] /\ uncovered'[i] = uncovered[i]
        BY <1>3, <1>11, <3>1
      <4>2. QED  BY <1>3, <3>1, <4>1
    <3>2. CASE i = Len(uncovered) + 1
      <4>1. solutions'[i] = row /\ uncovered'[i] = p0
        BY <1>3, <1>11, <3>2
      <4>2. QED  BY <1>11, <4>1
    <3>3. QED  BY <2>4, <3>1, <3>2
  <2>6. Range(uncovered') = Range(uncovered) \cup {p0}
    BY <1>3, <1>11, <2>1, ListAppend
  <2>7. \A p \in Valid : PlaceOf(p) \in already \/ p \in pending' \/ p \in Range(uncovered')
    BY <1>1, <1>3, <2>6 DEF p0
  <2>8. /\ (\A i \in 1 .. Len(uncovered) : solutions[i] \in SolutionsWith(uncovered[i]))'
        /\ Range(uncovered)' = Range(uncovered')
    <3>1. (\A i \in 1 .. Len(uncovered) : solutions[i] \in SolutionsWith(uncovered[i]))'
      BY <1>8, <2>5 DEF SolutionsWith
    <3>2. QED  BY <3>1 DEF Range
  <2>9. EndRight'
    BY <1>1, <1>3, <1>8, <1>9, <1>11, <2>3, <2>4, <2>7, <2>8 DEF EndRight
  <2>10. QED  BY <1>4, <1>5, <1>6, <2>9 DEF IInv
<1>12. \/ SolutionsWith(p0) = {} /\ exact' = exact - 1 /\ uncovered' = uncovered /\ solutions' = solutions
       \/ \E row \in SolutionsWith(p0) : /\ solutions' = Append(solutions, row)
                                         /\ uncovered' = Append(uncovered, p0)
                                         /\ exact' = exact
  BY DEF Find, p0
<1>13. QED  BY <1>10, <1>11, <1>12

(* One of the tuples found is covered, by its own row or by one before.    *)
LEMMA ChooseRight == IInv /\ Choose => IInv'
<1> SUFFICES ASSUME IInv, Choose PROVE IInv'
  OBVIOUS
<1> DEFINE T == TuplesOfSize(t_wise)
           n == num_generated
           p0 == Head(uncovered)
           row == Head(solutions)
<1>1. /\ pc = "find" /\ pc' = "find" /\ UNCHANGED given /\ pending = {} /\ pending' = {}
      /\ uncovered # <<>> /\ uncovered' = Tail(uncovered) /\ solutions' = Tail(solutions)
      /\ exact' = exact
  BY DEF Choose
<1>2. RowsRight /\ CountsRight /\ CandidatesRight /\ EndRight
  BY DEF IInv
<1>3. /\ Given /\ exact = Cardinality(Valid) + Cardinality(pending \ Valid)
      /\ uncovered \in Seq(T) /\ solutions \in Seq(Models)
      /\ Len(uncovered) = Len(solutions)
      /\ \A i \in 1 .. Len(uncovered) : solutions[i] \in SolutionsWith(uncovered[i])
      /\ \A p \in Valid : PlaceOf(p) \in already \/ p \in pending \/ p \in Range(uncovered)
  BY <1>1, <1>2 DEF RowsRight, EndRight
<1>4. /\ n \in Nat /\ n >= 1 /\ n = Len(testcase_set) /\ testcase_set \in Seq(Models)
      /\ Counted = n /\ Counted' = num_generated'
  BY <1>1, <1>2, RowsAre DEF Counted, RowsRight
<1>5. Valid' = Valid /\ TuplesOfSize(t_wise)' = T /\ Models' = Models
  BY <1>1, Remaining
<1>6. /\ \A p : PlaceOf(p)' = PlaceOf(p)
      /\ \A p : SolutionsWith(p)' = SolutionsWith(p)
  BY <1>1, Remaining DEF PlaceOf, SolutionsWith
<1>7. /\ Len(uncovered) \in Nat /\ Len(uncovered) >= 1 /\ p0 = uncovered[1] /\ row = solutions[1]
      /\ p0 \in T /\ row \in SolutionsWith(p0)
      /\ uncovered' \in Seq(T) /\ solutions' \in Seq(Models)
      /\ Len(uncovered') = Len(uncovered) - 1 /\ Len(solutions') = Len(uncovered) - 1
      /\ \A i \in 1 .. Len(uncovered) - 1 : /\ uncovered'[i] = uncovered[i + 1]
                                            /\ solutions'[i] = solutions[i + 1]
                                            /\ i + 1 \in 1 .. Len(uncovered)
  <2> HIDE DEF T
  <2>1. solutions # <<>> /\ Len(uncovered) \in Nat /\ Len(uncovered) >= 1 /\ 1 \in 1 .. Len(uncovered)
    BY <1>1, <1>3
  <2>2. p0 = uncovered[1] /\ row = solutions[1] /\ p0 \in T /\ row \in SolutionsWith(p0)
    BY <1>1, <1>3, <2>1
  <2>3. /\ uncovered' \in Seq(T) /\ solutions' \in Seq(Models)
        /\ Len(uncovered') = Len(uncovered) - 1 /\ Len(solutions') = Len(uncovered) - 1
        /\ \A i \in 1 .. Len(uncovered) - 1 : /\ uncovered'[i] = uncovered[i + 1]
                                              /\ solutions'[i] = solutions[i + 1]
                                              /\ i + 1 \in 1 .. Len(uncovered)
    BY <1>1, <1>3, <2>1
  <2>4. QED  BY <2>1, <2>2, <2>3
<1>8. row \in Models /\ PlaceOf(p0) \in Places(row)
  <2>1. row \in Models /\ \A k \in DOMAIN p0 : Makes(row, p0[k])
    BY <1>7 DEF SolutionsWith
  <2>2. DOMAIN p0 = 1 .. t_wise
    BY <1>3, <1>7, TupleParts
  <2>3. p0 \in MadeBy(row)
    BY <1>7, <2>1, <2>2 DEF MadeBy
  <2>4. QED  BY <1>3, <2>1, <2>3, PlacesAre
<1>9. /\ RowsRight' /\ CountsRight' /\ already \subseteq already' /\ PlaceOf(p0) \in already'
  <2>1. CASE PlaceOf(p0) \in already /\ UNCHANGED <<testcase_set, loopVars>>
    <3>1. RowsRight'
      BY <1>1, <1>2, <2>1, Remaining DEF RowsRight, loopVars
    <3>2. CountsRight'
      <4>1. Counted' = Counted
        BY <1>1, <2>1 DEF Counted, loopVars
      <4>2. QED  BY <1>1, <1>2, <2>1, <4>1, Remaining DEF CountsRight, Places, loopVars
    <3>3. QED  BY <2>1, <3>1, <3>2 DEF loopVars
  <2>2. CASE /\ testcase_set' = Append(testcase_set, row) /\ num_generated' = n + 1 /\ UpdateTupleInfo
    <3>1. /\ testcase_set' \in Seq(Models) /\ Len(testcase_set') = n + 1
          /\ testcase_set'[n + 1] = row
          /\ \A k \in 1 .. n : testcase_set'[k] = testcase_set[k]
      BY <1>4, <1>8, <2>2
    <3>2. /\ already' = already \cup Places(row)
          /\ num_tuple' = num_tuple + Cardinality(Places(row) \ already)
      BY <1>1, <2>2, <3>1 DEF UpdateTupleInfo, Places, given
    <3>3. RowsRight'
      BY <1>1, <1>2, <1>4, <2>2, <3>1, Remaining DEF RowsRight
    <3>4. CountsRight'
      <4>1. IsFiniteSet(already') /\ num_tuple' = Cardinality(already')
        BY <1>2, <1>3, <1>8, <3>2, CountGrows DEF CountsRight
      <4>2. already' = UNION { Places(testcase_set'[k]) : k \in 1 .. n + 1 }
        <5>1. already = UNION { Places(testcase_set[k]) : k \in 1 .. n }
          BY <1>2, <1>4 DEF CountsRight
        <5>2. { Places(testcase_set[k]) : k \in 1 .. n } = { Places(testcase_set'[k]) : k \in 1 .. n }
          BY <3>1
        <5>3. 1 .. n + 1 = (1 .. n) \cup {n + 1}
          BY <1>4
        <5>4. QED  BY <3>1, <3>2, <5>1, <5>2, <5>3
      <4>3. QED  BY <1>1, <1>4, <2>2, <4>1, <4>2, Remaining DEF CountsRight, Places
    <3>5. QED  BY <1>8, <3>2, <3>3, <3>4
  <2>3. QED  BY <2>1, <2>2 DEF Choose
<1>10. CandidatesRight'
  BY <1>1 DEF CandidatesRight
<1>11. EndRight'
  <2> HIDE DEF T, p0, row
  <2>1. \A i \in 1 .. Len(uncovered') : solutions'[i] \in SolutionsWith(uncovered'[i])
    <3> TAKE i \in 1 .. Len(uncovered')
    <3>1. i \in 1 .. Len(uncovered) - 1
      BY <1>7
    <3>2. QED  BY <1>3, <1>7, <3>1
  <2>2. \A p \in Valid : PlaceOf(p) \in already' \/ p \in pending' \/ p \in Range(uncovered')
    <3> TAKE p \in Valid
    <3>1. CASE PlaceOf(p) \in already
      BY <1>9, <3>1
    <3>2. CASE p \in Range(uncovered)
      <4>1. PICK i \in 1 .. Len(uncovered) : p = uncovered[i]
        BY <1>3, <3>2 DEF Range
      <4>2. CASE i = 1
        BY <1>7, <1>9, <4>1, <4>2
      <4>3. CASE i # 1
        <5>1. i - 1 \in 1 .. Len(uncovered) - 1 /\ (i - 1) + 1 = i
          BY <1>7, <4>3
        <5>2. uncovered'[i - 1] = p /\ i - 1 \in DOMAIN uncovered'
          BY <1>7, <4>1, <5>1
        <5>3. QED  BY <5>2 DEF Range
      <4>4. QED  BY <4>2, <4>3
    <3>3. QED  BY <1>1, <1>3, <3>1, <3>2
  <2>3. /\ (\A i \in 1 .. Len(uncovered) : solutions[i] \in SolutionsWith(uncovered[i]))'
        /\ Range(uncovered)' = Range(uncovered')
    <3>1. (\A i \in 1 .. Len(uncovered) : solutions[i] \in SolutionsWith(uncovered[i]))'
      BY <1>5, <2>1 DEF SolutionsWith
    <3>2. QED  BY <3>1 DEF Range
  <2>4. exact' = Cardinality(Valid) + Cardinality(pending' \ Valid)
    BY <1>1, <1>3
  <2>5. Len(uncovered') = Len(solutions') /\ pending' \subseteq T
    BY <1>1, <1>7
  <2>6. QED  BY <1>1, <1>5, <1>6, <1>7, <2>2, <2>3, <2>4, <2>5 DEF EndRight
<1>12. QED  BY <1>9, <1>10, <1>11 DEF IInv

(* The end changes nothing.                                                *)
LEMMA DoneRight == IInv /\ Done => IInv'
<1> SUFFICES ASSUME IInv, Done PROVE IInv'
  OBVIOUS
<1>1. /\ pc = "find" /\ pc' = "done" /\ pending = {} /\ uncovered = <<>>
      /\ UNCHANGED <<given, testcase_set, loopVars, finalVars>>
  BY DEF Done
<1>2. RowsRight /\ CountsRight /\ EndRight
  BY DEF IInv
<1>3. RowsRight'
  BY <1>1, <1>2, Remaining DEF RowsRight, loopVars
<1>4. CountsRight'
  <2>1. Counted' = Counted
    BY <1>1 DEF Counted, loopVars
  <2>2. QED  BY <1>1, <1>2, <2>1, Remaining DEF CountsRight, Places, loopVars
<1>5. CandidatesRight'
  BY <1>1 DEF CandidatesRight
<1>6. EndRight'
  <2>1. /\ already' = already /\ Valid' = Valid
        /\ TuplesOfSize(t_wise)' = TuplesOfSize(t_wise) /\ Models' = Models
        /\ pending' = pending /\ uncovered' = uncovered /\ solutions' = solutions /\ exact' = exact
    BY <1>1, Remaining DEF loopVars, finalVars
  <2>2. /\ \A p : PlaceOf(p)' = PlaceOf(p)
        /\ \A p : SolutionsWith(p)' = SolutionsWith(p)
    BY <1>1, Remaining DEF PlaceOf, SolutionsWith
  <2>3. Range(uncovered)' = Range(uncovered)
    BY <2>1 DEF Range
  <2>4. QED  BY <1>1, <1>2, <2>1, <2>2, <2>3 DEF EndRight
<1>7. QED  BY <1>3, <1>4, <1>5, <1>6 DEF IInv

(* Nor does a step that changes no variable.                               *)
LEMMA StutterRight == IInv /\ UNCHANGED vars => IInv'
<1> SUFFICES ASSUME IInv, UNCHANGED vars PROVE IInv'
  OBVIOUS
<1>1. /\ UNCHANGED <<given, testcase_set, loopVars, finalVars>>
      /\ pc' = pc /\ appearance' = appearance /\ pq' = pq /\ selected' = selected
  BY DEF vars
<1>2. RowsRight /\ CountsRight /\ CandidatesRight /\ EndRight
  BY DEF IInv
<1>3. Counted' = Counted
  BY <1>1 DEF Counted, loopVars
<1>4. RowsRight'
  BY <1>1, <1>2, Remaining DEF RowsRight, loopVars
<1>5. CountsRight'
  BY <1>1, <1>2, <1>3, Remaining DEF CountsRight, Places, loopVars
<1>6. CandidatesRight'
  BY <1>1, <1>2, <1>3, Remaining DEF CandidatesRight, Candidate, get_gain, Places, BagToSet, loopVars
<1>7. EndRight'
  <2>1. /\ already' = already /\ Valid' = Valid
        /\ TuplesOfSize(t_wise)' = TuplesOfSize(t_wise) /\ Models' = Models
        /\ pending' = pending /\ uncovered' = uncovered /\ solutions' = solutions /\ exact' = exact
    BY <1>1, Remaining DEF loopVars, finalVars
  <2>2. /\ \A p : PlaceOf(p)' = PlaceOf(p)
        /\ \A p : SolutionsWith(p)' = SolutionsWith(p)
    BY <1>1, Remaining DEF PlaceOf, SolutionsWith
  <2>3. Range(uncovered)' = Range(uncovered)
    BY <2>1 DEF Range
  <2>4. QED  BY <1>1, <1>2, <2>1, <2>2, <2>3 DEF EndRight
<1>8. QED  BY <1>4, <1>5, <1>6, <1>7 DEF IInv

-----------------------------------------------------------------------------
(* The invariant holds for every set of files and strengths.               *)
THEOREM SamplingSafe == Spec => []IInv
<1>1. IInv /\ [Next]_vars => IInv'
  BY UpdateRight, GenerateRight, FinalRight, FindRight, ChooseRight, DoneRight, StutterRight DEF Next
<1>2. QED  BY <1>1, InitRight, PTL DEF Spec

(* The counter, the bit set, the sampling counts and the gains agree       *)
(* with the rows, whatever the solver returns and whichever candidates     *)
(* are kept.                                                               *)
THEOREM CountsHold == Spec => []CountsExact
<1>1. IInv => CountsExact
  <2> SUFFICES ASSUME IInv PROVE CountsExact
    OBVIOUS
  <2> DEFINE n == num_generated
  <2>1. RowsRight /\ CountsRight /\ CandidatesRight
    BY DEF IInv
  <2>2. /\ already = UNION { Places(testcase_set[k]) : k \in 1 .. Counted }
        /\ num_tuple = Cardinality(already) /\ num_generated = Len(testcase_set)
    BY <2>1 DEF RowsRight, CountsRight
  <2>3. ASSUME pc = "generate"
        PROVE  /\ \A c \in BagToSet(pq) : c.gain = get_gain(c.row)
               /\ \A v \in DOMAIN appearance :
                    SampleProb[v] = << Cardinality({ k \in 1 .. n : testcase_set[k][v] = 0 }),
                                       Cardinality({ k \in 1 .. n : testcase_set[k][v] = 1 }) >>
    <3>1. /\ appearance = [v \in 1 .. file.vars |-> Cardinality({ k \in 1 .. n : testcase_set[k][v] = 1 })]
          /\ \A c \in BagToSet(pq) : c = Candidate(c.row)
      BY <2>1, <2>3 DEF CandidatesRight, Counted
    <3>2. \A c \in BagToSet(pq) : c.gain = get_gain(c.row)
      BY <3>1 DEF Candidate
    <3>3. ASSUME NEW v \in 1 .. file.vars
          PROVE  n - appearance[v] = Cardinality({ k \in 1 .. n : testcase_set[k][v] = 0 })
      <4> DEFINE x == [k \in 1 .. n |-> testcase_set[k][v]]
      <4>1. n \in Nat /\ \A k \in 1 .. n : x[k] \in {0, 1}
        BY <2>1, RowsAre, ModelsAre
      <4>2. /\ { k \in 1 .. n : x[k] = 1 } = { k \in 1 .. n : testcase_set[k][v] = 1 }
            /\ { k \in 1 .. n : x[k] = 0 } = { k \in 1 .. n : testcase_set[k][v] = 0 }
        OBVIOUS
      <4> HIDE DEF x
      <4>3. Cardinality({ k \in 1 .. n : x[k] = 0 }) = n - Cardinality({ k \in 1 .. n : x[k] = 1 })
        BY <4>1, OnesCount
      <4>4. QED  BY <3>1, <4>2, <4>3
    <3>4. DOMAIN appearance = 1 .. file.vars
      BY <3>1
    <3>5. QED  BY <3>1, <3>2, <3>3, <3>4 DEF SampleProb
  <2>4. QED  BY <2>2, <2>3 DEF CountsExact
<1>2. QED  BY <1>1, SamplingSafe, PTL

(* When the generator ends, exactly the valid tuples are covered, and      *)
(* the number that the coverage is measured by is theirs.                  *)
THEOREM CompleteHolds == Spec => []CompleteAtEnd
<1>1. IInv => CompleteAtEnd
  <2> SUFFICES ASSUME IInv, pc = "done"
               PROVE  /\ already = { PlaceOf(p) : p \in Valid }
                      /\ num_tuple = exact
                      /\ exact = Cardinality(Valid)
                      /\ Range(testcase_set) \subseteq Models
    BY DEF CompleteAtEnd
  <2>1. RowsRight /\ CountsRight /\ EndRight /\ Given
    BY DEF IInv, RowsRight
  <2>2. /\ pending = {} /\ uncovered = <<>>
        /\ exact = Cardinality(Valid) + Cardinality(pending \ Valid)
        /\ \A p \in Valid : PlaceOf(p) \in already \/ p \in pending \/ p \in Range(uncovered)
    BY <2>1 DEF EndRight
  <2>3. Range(uncovered) = {}
    BY <2>2 DEF Range
  <2>4. already = { PlaceOf(p) : p \in Valid }
    <3>1. \A x \in already : \E p \in Valid : x = PlaceOf(p)
      BY <2>1, CoveredValid
    <3>2. \A p \in Valid : PlaceOf(p) \in already
      BY <2>2, <2>3
    <3>3. QED  BY <3>1, <3>2
  <2>5. IsFiniteSet(Valid) /\ Valid \subseteq TuplesOfSize(t_wise)
    <3>1. Valid \subseteq TuplesOfSize(t_wise)
      BY DEF Valid
    <3>2. QED  BY <2>1, <3>1, PlacesFinite, FS_Subset
  <2>6. Cardinality(already) = Cardinality(Valid)
    <3> DEFINE f == [p \in Valid |-> PlaceOf(p)]
    <3>1. \A p, q \in Valid : f[p] = f[q] => p = q
      BY <2>1, <2>5, PlaceOnce
    <3>2. { f[p] : p \in Valid } = { PlaceOf(p) : p \in Valid }
      OBVIOUS
    <3> HIDE DEF f
    <3>3. Cardinality({ f[p] : p \in Valid }) = Cardinality(Valid)
      BY <2>5, <3>1, ImageCount
    <3>4. QED  BY <2>4, <3>2, <3>3
  <2>7. exact = Cardinality(Valid)
    <3>1. pending \ Valid = {}
      BY <2>2
    <3>2. Cardinality(pending \ Valid) = 0 /\ Cardinality(Valid) \in Nat
      BY <2>5, <3>1, FS_EmptySet, FS_CardinalityType
    <3>3. QED  BY <2>2, <3>2
  <2>8. Range(testcase_set) \subseteq Models
    BY <2>1 DEF RowsRight, Range
  <2>9. QED  BY <2>1, <2>4, <2>6, <2>7, <2>8 DEF CountsRight
<1>2. QED  BY <1>1, SamplingSafe, PTL

(* Every row that is added after the first covers a tuple that none        *)
(* before it covers.                                                       *)
THEOREM RowsNotInVain == Spec => RowsEarnTheirPlace
<1> DEFINE Earns == Len(testcase_set') > Len(testcase_set) =>
                      ~(Places(testcase_set'[Len(testcase_set')])
                          \subseteq UNION { Places(testcase_set[k]) : k \in DOMAIN testcase_set })
<1>1. IInv /\ [Next]_vars => [Earns]_vars
  <2> SUFFICES ASSUME IInv, Next, Len(testcase_set') > Len(testcase_set)
               PROVE  ~(Places(testcase_set'[Len(testcase_set')])
                          \subseteq UNION { Places(testcase_set[k]) : k \in DOMAIN testcase_set })
    OBVIOUS
  <2> DEFINE n == Len(testcase_set)
             row == testcase_set'[Len(testcase_set')]
  <2>1. RowsRight /\ CountsRight /\ CandidatesRight /\ EndRight
    BY DEF IInv
  <2>2. /\ Given /\ testcase_set \in Seq(Models) /\ n \in Nat /\ n = num_generated
        /\ DOMAIN testcase_set = 1 .. n
    BY <2>1 DEF RowsRight
  <2>3. ~(n > n) /\ testcase_set' # testcase_set
    BY <2>2
  <2>4. SUFFICES ASSUME pc # "update" PROVE \E x \in Places(row) : x \notin already
    <3>1. pc # "update"
      BY <2>3 DEF Next, Update, Generate, Final, Find, Choose, Done
    <3>2. already = UNION { Places(testcase_set[k]) : k \in DOMAIN testcase_set }
      BY <2>1, <2>2, <3>1 DEF CountsRight, Counted
    <3>3. QED  BY <2>4, <3>1, <3>2
  <2>5. CASE Generate
    <3>1. PICK drawn \in [1 .. CandidateSetSize -> Models] :
            pq' = pq (+) BagOfAll(Candidate, ToBag(drawn))
      BY <2>5 DEF Generate
    <3>2. BagToSet(pq') = BagToSet(pq) \cup { Candidate(r) : r \in Range(drawn) }
      BY <3>1 DEF BagToSet, BagOfAll, ToBag, (+)
    <3>3. pc = "generate" /\ \A c \in BagToSet(pq) : c = Candidate(c.row)
      BY <2>1, <2>5 DEF Generate, CandidatesRight
    <3>4. PICK c \in BagToSet(pq') :
             /\ selected' = c.gain
             /\ testcase_set' = IF selected' = {} THEN testcase_set ELSE Append(testcase_set, c.row)
      BY <2>5 DEF Generate
    <3>5. c.gain = Places(c.row) \ already
      BY <3>2, <3>3 DEF Candidate, get_gain
    <3>6. selected' # {} /\ testcase_set' = Append(testcase_set, c.row)
      BY <2>3, <3>4
    <3>7. row = c.row
      BY <2>2, <3>6
    <3>8. QED  BY <3>4, <3>5, <3>6, <3>7
  <2>6. CASE Choose
    <3>1. /\ pc = "find" /\ uncovered # <<>> /\ PlaceOf(Head(uncovered)) \notin already
          /\ testcase_set' = Append(testcase_set, Head(solutions))
      BY <2>3, <2>6 DEF Choose
    <3> DEFINE p0 == Head(uncovered)
               r0 == Head(solutions)
    <3>2. /\ uncovered \in Seq(TuplesOfSize(t_wise)) /\ solutions \in Seq(Models)
          /\ Len(uncovered) = Len(solutions)
          /\ \A i \in 1 .. Len(uncovered) : solutions[i] \in SolutionsWith(uncovered[i])
      BY <2>1, <3>1 DEF EndRight
    <3>3. p0 \in TuplesOfSize(t_wise) /\ r0 \in SolutionsWith(p0)
      <4> DEFINE T == TuplesOfSize(t_wise)
      <4>1. uncovered \in Seq(T)
        BY <3>2
      <4> HIDE DEF T
      <4>2. solutions # <<>> /\ 1 \in 1 .. Len(uncovered)
        BY <3>1, <3>2, <4>1
      <4>3. p0 = uncovered[1] /\ r0 = solutions[1] /\ p0 \in T
        BY <3>1, <3>2, <4>1, <4>2
      <4>4. QED  BY <3>2, <4>2, <4>3 DEF T
    <3> HIDE DEF p0, r0
    <3>4. r0 \in Models /\ PlaceOf(p0) \in Places(r0)
      <4>1. r0 \in Models /\ \A k \in DOMAIN p0 : Makes(r0, p0[k])
        BY <3>3 DEF SolutionsWith
      <4>2. DOMAIN p0 = 1 .. t_wise
        BY <2>2, <3>3, TupleParts
      <4>3. p0 \in MadeBy(r0)
        BY <3>3, <4>1, <4>2 DEF MadeBy
      <4>4. QED  BY <2>2, <4>1, <4>3, PlacesAre
    <3>5. row = r0
      <4>1. testcase_set' = Append(testcase_set, r0)
        BY <3>1 DEF r0
      <4>2. QED  BY <2>2, <3>4, <4>1
    <3>6. QED  BY <3>1, <3>4, <3>5 DEF p0
  <2>7. QED  BY <2>3, <2>4, <2>5, <2>6 DEF Next, Update, Final, Find, Done
<1>2. QED  BY <1>1, SamplingSafe, PTL DEF Spec, RowsEarnTheirPlace

=============================================================================
