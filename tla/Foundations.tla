---------------------------- MODULE Foundations ----------------------------
(***************************************************************************)
(* Lemmas that the proofs of several modules rest on: induction, recursion *)
(* over the numbers, sums over finite sets, lists without repetition; the  *)
(* loops of Loops; the stacks of SwapStack, over any set: the two          *)
(* operations keep every noted place right, and change nothing but what    *)
(* they should; and Rescan: how threads share a scan, for any number of    *)
(* threads and of things to scan, and the order of the combinations of     *)
(* columns, for any number of columns.                                     *)
(***************************************************************************)
EXTENDS Integers, FiniteSets, Functions, SwapStack, Loops, Rescan,
        FiniteSetTheorems, SequenceTheorems, NaturalsInduction, WellFoundedInduction, TLAPS

-----------------------------------------------------------------------------
(* Numbers have a least one among them, which is how the inductions here   *)
(* go: there is no least number for which the claim fails.                 *)
LEMMA Least ==
  ASSUME NEW S \in SUBSET Nat, S # {}
  PROVE  \E x \in S : \A y \in S : x <= y
<1>1. IsWellFoundedOn(OpToRel(<, Nat), Nat)
  BY NatLessThanWellFounded
<1>2. PICK x \in S : \A y \in S : ~ (<<y, x>> \in OpToRel(<, Nat))
  BY <1>1, WFMin
<1>3. \A y \in S : ~ (y < x)
  BY <1>2 DEF OpToRel
<1>4. QED  BY <1>3

-----------------------------------------------------------------------------
(* A recursion over the numbers defines a function.                        *)
Follows(g, S, first, step) ==
  /\ g \in [Nat -> S]
  /\ g[0] = first
  /\ \A n \in Nat : g[n + 1] = step[n][g[n]]

(* Such a function exists: its beginnings do, by induction, and they agree.*)
LEMMA Recursion ==
  ASSUME NEW S, NEW first \in S, NEW step \in [Nat -> [S -> S]]
  PROVE  \E g : Follows(g, S, first, step)
<1> DEFINE Good(m, g) == /\ g[0] = first
                         /\ \A n \in 0 .. m - 1 : g[n + 1] = step[n][g[n]]
           Part(m) == { g \in [0 .. m -> S] : Good(m, g) }
           Bad == { m \in Nat : Part(m) = {} }
<1>1. Bad = {}
  <2> SUFFICES ASSUME Bad # {} PROVE FALSE
    OBVIOUS
  <2>1. PICK m \in Bad : \A y \in Bad : m <= y
    <3> HIDE DEF Bad
    <3>1. Bad \in SUBSET Nat
      BY DEF Bad
    <3>2. QED  BY <3>1, Least
  <2>2. m # 0
    <3>1. [n \in 0 .. 0 |-> first] \in Part(0)
      OBVIOUS
    <3>2. Part(0) # {}
      BY <3>1
    <3>3. QED  BY <3>2
  <2>3. m - 1 \in Nat /\ m \in Nat /\ m - 1 \notin Bad
    <3>1. m \in Nat /\ m - 1 \in Nat
      BY <2>2
    <3>2. m - 1 \in Bad => m <= m - 1
      BY <2>1
    <3>3. QED  BY <3>1, <3>2
  <2>4. PICK g \in [0 .. m - 1 -> S] : Good(m - 1, g)
    BY <2>3
  <2> DEFINE h == [n \in 0 .. m |-> IF n = m THEN step[m - 1][g[m - 1]] ELSE g[n]]
  <2>5. g[m - 1] \in S /\ \A n \in 0 .. m - 1 : g[n] \in S
    BY <2>3, <2>4
  <2>6. h \in [0 .. m -> S]
    BY <2>3, <2>5
  <2>7. h[0] = first
    BY <2>2, <2>3, <2>4
  <2>8. ASSUME NEW n \in 0 .. m - 1
        PROVE  h[n + 1] = step[n][h[n]]
    <3>1. h[n] = g[n]
      BY <2>3
    <3>2. CASE n = m - 1
      <4>1. n + 1 = m /\ m \in 0 .. m
        BY <2>3, <3>2
      <4>2. h[n + 1] = step[m - 1][g[m - 1]]
        BY <4>1
      <4>3. QED  BY <3>1, <3>2, <4>2
    <3>3. CASE n # m - 1
      <4>1. n \in 0 .. (m - 1) - 1 /\ n + 1 \in 0 .. m /\ n + 1 # m
        BY <2>3, <3>3
      <4>2. h[n + 1] = g[n + 1] /\ g[n + 1] = step[n][g[n]]
        BY <2>4, <4>1
      <4>3. QED  BY <3>1, <4>2
    <3>4. QED  BY <3>2, <3>3
  <2>9. h \in Part(m)
    BY <2>6, <2>7, <2>8
  <2>10. QED  BY <2>9
<1>2. ASSUME NEW m \in Nat, NEW n \in Nat, NEW g \in Part(m), NEW h \in Part(n)
      PROVE  \A i \in Nat : i <= m /\ i <= n => g[i] = h[i]
  <2> DEFINE Differ == { i \in Nat : i <= m /\ i <= n /\ g[i] # h[i] }
  <2> SUFFICES ASSUME Differ # {} PROVE FALSE
    OBVIOUS
  <2>1. PICK i \in Differ : \A y \in Differ : i <= y
    <3> HIDE DEF Differ
    <3>1. Differ \in SUBSET Nat
      BY DEF Differ
    <3>2. QED  BY <3>1, Least
  <2>2. i # 0
    OBVIOUS
  <2>3. i - 1 \in Nat /\ i - 1 \in 0 .. m - 1 /\ i - 1 \in 0 .. n - 1 /\ (i - 1) + 1 = i
    BY <2>2
  <2>4. i - 1 \in Differ => i <= i - 1
    BY <2>1
  <2>5. g[i - 1] = h[i - 1]
    BY <2>3, <2>4
  <2>6. g[(i - 1) + 1] = step[i - 1][g[i - 1]] /\ h[(i - 1) + 1] = step[i - 1][h[i - 1]]
    BY <2>3
  <2>7. g[i] = h[i]
    BY <2>3, <2>5, <2>6
  <2>8. QED  BY <2>7
<1>3. \A m \in Nat : \E g : g \in Part(m)
  <2> HIDE DEF Part
  <2>1. QED  BY <1>1
<1> DEFINE pick == [m \in Nat |-> CHOOSE g : g \in Part(m)]
           all == [m \in Nat |-> pick[m][m]]
<1>4. \A m \in Nat : pick[m] \in Part(m)
  BY <1>3
<1> HIDE DEF pick
<1>5. all \in [Nat -> S]
  <2> SUFFICES ASSUME NEW m \in Nat PROVE pick[m][m] \in S
    OBVIOUS
  <2>1. pick[m] \in [0 .. m -> S] /\ m \in 0 .. m
    BY <1>4
  <2>2. QED  BY <2>1
<1>6. all[0] = first
  <2>1. pick[0] \in Part(0)
    BY <1>4
  <2>2. QED  BY <2>1
<1>7. ASSUME NEW n \in Nat
      PROVE  all[n + 1] = step[n][all[n]]
  <2>1. n + 1 \in Nat /\ n \in 0 .. (n + 1) - 1 /\ n <= n + 1 /\ n <= n
    OBVIOUS
  <2>2. pick[n] \in Part(n) /\ pick[n + 1] \in Part(n + 1)
    BY <1>4, <2>1
  <2>3. pick[n][n] = pick[n + 1][n]
    BY ZenonT(60), <1>2, <2>1, <2>2
  <2>4. pick[n + 1][n + 1] = step[n][pick[n + 1][n]]
    BY <2>1, <2>2
  <2>5. QED  BY <2>1, <2>3, <2>4
<1>8. Follows(all, S, first, step)
  BY <1>5, <1>6, <1>7 DEF Follows
<1>9. QED  BY <1>8

-----------------------------------------------------------------------------
(* Induction over the subsets of a finite set, by a set of good ones.      *)
LEMMA SubsetInduction ==
  ASSUME NEW S, IsFiniteSet(S), NEW Good,
         \A s \in SUBSET S : (\A x \in s : s \ {x} \in Good) => s \in Good
  PROVE  \A s \in SUBSET S : s \in Good
<1> DEFINE Bad == { n \in Nat : \E s \in SUBSET S : Cardinality(s) = n /\ s \notin Good }
<1>1. ASSUME NEW s \in SUBSET S
      PROVE  /\ IsFiniteSet(s) /\ Cardinality(s) \in Nat
             /\ \A x \in s : Cardinality(s \ {x}) < Cardinality(s) /\ Cardinality(s \ {x}) \in Nat
  <2>1. IsFiniteSet(s) /\ Cardinality(s) \in Nat
    BY FS_Subset, FS_CardinalityType
  <2>2. \A x \in s : Cardinality(s \ {x}) = Cardinality(s) - 1 /\ IsFiniteSet(s \ {x})
    BY <2>1, FS_RemoveElement
  <2>3. \A x \in s : Cardinality(s \ {x}) \in Nat
    BY <2>2, FS_CardinalityType
  <2>4. QED  BY <2>1, <2>2, <2>3
<1>2. Bad = {}
  <2> SUFFICES ASSUME Bad # {} PROVE FALSE
    OBVIOUS
  <2>1. PICK n \in Bad : \A m \in Bad : n <= m
    <3>1. Bad \in SUBSET Nat
      OBVIOUS
    <3> HIDE DEF Bad
    <3>2. QED  BY <3>1, Least
  <2>2. PICK s \in SUBSET S : Cardinality(s) = n /\ s \notin Good
    OBVIOUS
  <2>3. PICK x \in s : s \ {x} \notin Good
    BY <2>2
  <2>4. Cardinality(s \ {x}) \in Bad
    BY <1>1, <2>3
  <2>5. n <= Cardinality(s \ {x})
    BY <2>1, <2>4
  <2>6. QED  BY <1>1, <2>2, <2>5
<1>3. QED  BY <1>1, <1>2

(* The recursion by which SumFunctionOnSet is defined, and a function that *)
(* satisfies it.                                                           *)
Adds(f, S, g) ==
  g = [s \in SUBSET S |-> IF s = {} THEN 0
                          ELSE f[CHOOSE x \in s : TRUE] + g[s \ {CHOOSE x \in s : TRUE}]]

(* Every finite set has a function that adds up over its subsets.          *)
LEMMA AddsExists ==
  ASSUME NEW S, IsFiniteSet(S), NEW f, \A x \in S : f[x] \in Int
  PROVE  \E g : Adds(f, S, g)
<1> DEFINE pick(s) == CHOOSE x \in s : TRUE
           F(g) == [s \in SUBSET S |-> IF s = {} THEN 0 ELSE f[pick(s)] + g[s \ {pick(s)}]]
           T == [SUBSET S -> Int]
           first == [s \in SUBSET S |-> 0]
           step == [n \in Nat |-> [g \in T |-> F(g)]]
<1>1. \A s \in SUBSET S : s # {} => pick(s) \in s
  OBVIOUS
<1> HIDE DEF pick
<1>2. ASSUME NEW g \in T PROVE F(g) \in T
  <2> SUFFICES ASSUME NEW s \in SUBSET S, s # {} PROVE f[pick(s)] + g[s \ {pick(s)}] \in Int
    OBVIOUS
  <2>1. pick(s) \in S /\ s \ {pick(s)} \in SUBSET S
    BY <1>1
  <2>2. QED  BY <2>1
<1>3. PICK h : Follows(h, T, first, step)
  <2>1. first \in T
    OBVIOUS
  <2>2. step \in [Nat -> [T -> T]]
    BY <1>2
  <2> HIDE DEF T, first, step
  <2>3. QED  BY <2>1, <2>2, Recursion
<1>4. h \in [Nat -> T] /\ \A n \in Nat : h[n + 1] = F(h[n])
  <2>1. h \in [Nat -> T] /\ \A n \in Nat : h[n + 1] = step[n][h[n]]
    BY <1>3 DEF Follows
  <2>2. ASSUME NEW n \in Nat PROVE step[n][h[n]] = F(h[n])
    <3>1. h[n] \in T
      BY <2>1
    <3> HIDE DEF T
    <3>2. QED  BY <3>1
  <2>3. QED  BY <2>1, <2>2
<1> DEFINE Good == { s \in SUBSET S : \A n \in Nat : Cardinality(s) <= n => h[n + 1][s] = h[n][s] }
<1>5. ASSUME NEW s \in SUBSET S
      PROVE  /\ IsFiniteSet(s) /\ Cardinality(s) \in Nat
             /\ \A x \in s : Cardinality(s \ {x}) = Cardinality(s) - 1
             /\ s # {} => Cardinality(s) > 0
  <2>1. IsFiniteSet(s) /\ Cardinality(s) \in Nat
    BY FS_Subset, FS_CardinalityType
  <2>2. QED  BY <2>1, FS_RemoveElement, FS_EmptySet
<1>6. ASSUME NEW s \in SUBSET S, \A x \in s : s \ {x} \in Good
      PROVE  s \in Good
  <2> SUFFICES ASSUME NEW n \in Nat, Cardinality(s) <= n PROVE h[n + 1][s] = h[n][s]
    OBVIOUS
  <2>1. h[n + 1] = F(h[n])
    BY <1>4
  <2>2. CASE s = {}
    <3>1. h[n + 1][s] = 0
      BY <2>1, <2>2
    <3>2. CASE n = 0
      <4>1. h[0] = first
        BY <1>3 DEF Follows
      <4>2. QED  BY <2>2, <3>1, <3>2, <4>1
    <3>3. CASE n # 0
      <4>1. n - 1 \in Nat /\ (n - 1) + 1 = n
        BY <3>3
      <4>2. h[n] = F(h[n - 1])
        BY <1>4, <4>1
      <4>3. QED  BY <2>2, <3>1, <4>2
    <3>4. QED  BY <3>2, <3>3
  <2>3. CASE s # {}
    <3>1. n - 1 \in Nat /\ (n - 1) + 1 = n /\ Cardinality(s) - 1 <= n - 1
      BY <1>5, <2>3
    <3>2. h[n] = F(h[n - 1])
      BY <1>4, <3>1
    <3> DEFINE u == s \ {pick(s)}
    <3>3. u \in Good /\ Cardinality(u) <= n - 1
      BY <1>1, <1>5, <1>6, <2>3, <3>1
    <3>4. h[n][u] = h[n - 1][u]
      <4>1. h[(n - 1) + 1][u] = h[n - 1][u]
        BY <3>1, <3>3
      <4>2. QED  BY <3>1, <4>1
    <3>5. h[n + 1][s] = f[pick(s)] + h[n][u] /\ h[n][s] = f[pick(s)] + h[n - 1][u]
      BY <2>1, <2>3, <3>2
    <3>6. QED  BY <3>4, <3>5
  <2>4. QED  BY <2>2, <2>3
<1>7. \A s \in SUBSET S : s \in Good
  <2> HIDE DEF Good
  <2>1. QED  BY <1>6, SubsetInduction
<1> DEFINE N == Cardinality(S)
           g == h[N]
<1>8. N \in Nat /\ g \in T
  BY <1>4, <1>5
<1>9. ASSUME NEW s \in SUBSET S
      PROVE  g[s] = F(g)[s]
  <2>1. Cardinality(s) <= N
    BY FS_Subset
  <2>2. h[N + 1][s] = h[N][s]
    BY <1>7, <1>8, <2>1
  <2>3. h[N + 1] = F(h[N])
    BY <1>4, <1>8
  <2>4. QED  BY <2>2, <2>3
<1>10. g = F(g)
  <2>1. F(g) \in T
    BY <1>2, <1>8
  <2> DEFINE k == F(g)
  <2>2. k \in T /\ \A s \in SUBSET S : g[s] = k[s]
    BY <1>9, <2>1
  <2> HIDE DEF k, g
  <2>3. g = k
    BY <1>8, <2>2
  <2>4. QED  BY <2>3 DEF k
<1> HIDE DEF g
<1>11. Adds(f, S, g)
  BY <1>10 DEF Adds, pick
<1>12. QED  BY <1>11

(* Two such functions agree where both are defined.                        *)
LEMMA AddsUnique ==
  ASSUME NEW S, IsFiniteSet(S), NEW R, S \subseteq R, NEW f, NEW e, \A x \in S : e[x] = f[x],
         NEW g, Adds(f, S, g), NEW h, Adds(e, R, h)
  PROVE  \A s \in SUBSET S : g[s] = h[s]
<1> DEFINE pick(s) == CHOOSE x \in s : TRUE
           Good == { s \in SUBSET S : g[s] = h[s] }
<1>1. \A s \in SUBSET S : s # {} => pick(s) \in s
  OBVIOUS
<1>2. \A s \in SUBSET S : g[s] = IF s = {} THEN 0 ELSE f[pick(s)] + g[s \ {pick(s)}]
  BY DEF Adds
<1>3. \A s \in SUBSET R : h[s] = IF s = {} THEN 0 ELSE e[pick(s)] + h[s \ {pick(s)}]
  BY DEF Adds
<1> HIDE DEF pick
<1>4. ASSUME NEW s \in SUBSET S, \A x \in s : s \ {x} \in Good
      PROVE  s \in Good
  <2>1. CASE s = {}
    BY <1>2, <1>3, <2>1
  <2>2. CASE s # {}
    <3>1. pick(s) \in s /\ g[s \ {pick(s)}] = h[s \ {pick(s)}]
      BY <1>1, <1>4, <2>2
    <3>2. s \in SUBSET R /\ f[pick(s)] = e[pick(s)]
      BY <3>1
    <3>3. QED  BY <1>2, <1>3, <2>2, <3>1, <3>2
  <2>3. QED  BY <2>1, <2>2
<1>5. \A s \in SUBSET S : s \in Good
  <2> HIDE DEF Good
  <2>1. QED  BY <1>4, SubsetInduction
<1>6. QED  BY <1>5

(* The sum is taken by taking out some element.                            *)
LEMMA SumUnfolds ==
  ASSUME NEW S, IsFiniteSet(S), NEW f, \A x \in S : f[x] \in Int
  PROVE  /\ \E g : Adds(f, S, g) /\ SumFunctionOnSet(f, S) = g[S]
         /\ S = {} => SumFunctionOnSet(f, S) = 0
<1>1. SumFunctionOnSet(f, S) = (CHOOSE g : Adds(f, S, g))[S]
  BY DEF SumFunctionOnSet, FoldFunctionOnSet, MapThenFoldSet, Adds
<1> DEFINE g == CHOOSE g : Adds(f, S, g)
<1>2. Adds(f, S, g)
  BY AddsExists
<1> HIDE DEF g
<1>3. SumFunctionOnSet(f, S) = g[S]
  BY <1>1 DEF g
<1>4. S = {} => g[S] = 0
  BY <1>2 DEF Adds
<1>5. QED  BY <1>2, <1>3, <1>4

(* One function has the sums over all subsets.                             *)
LEMMA SumTable ==
  ASSUME NEW S, IsFiniteSet(S), NEW f, \A x \in S : f[x] \in Int
  PROVE  \E g : Adds(f, S, g) /\ \A s \in SUBSET S : SumFunctionOnSet(f, s) = g[s]
<1>1. PICK g : Adds(f, S, g)
  BY AddsExists
<1>2. ASSUME NEW s \in SUBSET S
      PROVE  SumFunctionOnSet(f, s) = g[s]
  <2>1. IsFiniteSet(s) /\ \A x \in s : f[x] \in Int
    BY FS_Subset
  <2>2. PICK h : Adds(f, s, h) /\ SumFunctionOnSet(f, s) = h[s]
    BY <2>1, SumUnfolds
  <2>3. \A r \in SUBSET s : h[r] = g[r]
    <3>1. Adds(f, s, h) /\ Adds(f, S, g) /\ s \subseteq S /\ IsFiniteSet(s) /\ \A x \in s : f[x] = f[x]
      BY <1>1, <2>1, <2>2
    <3>2. QED  BY <3>1, AddsUnique
  <2>4. QED  BY <2>2, <2>3
<1>3. QED  BY <1>1, <1>2

(* Any element can be taken out first.                                     *)
LEMMA SumTakeOut ==
  ASSUME NEW S, IsFiniteSet(S), NEW f, \A x \in S : f[x] \in Int
  PROVE  /\ SumFunctionOnSet(f, S) \in Int
         /\ \A x \in S : SumFunctionOnSet(f, S) = f[x] + SumFunctionOnSet(f, S \ {x})
<1> DEFINE pick(s) == CHOOSE x \in s : TRUE
<1>1. \A s \in SUBSET S : s # {} => pick(s) \in s
  OBVIOUS
<1>2. PICK g : Adds(f, S, g) /\ \A s \in SUBSET S : SumFunctionOnSet(f, s) = g[s]
  BY SumTable
<1>3. \A s \in SUBSET S : g[s] = IF s = {} THEN 0 ELSE f[pick(s)] + g[s \ {pick(s)}]
  BY <1>2 DEF Adds
<1> HIDE DEF pick
<1> DEFINE Whole == { s \in SUBSET S : g[s] \in Int }
           Good == { s \in SUBSET S : \A x \in s : g[s] = f[x] + g[s \ {x}] }
<1>4. \A s \in SUBSET S : g[s] \in Int
  <2>1. ASSUME NEW s \in SUBSET S, \A x \in s : s \ {x} \in Whole
        PROVE  s \in Whole
    <3>1. CASE s = {}
      <4>1. g[s] = 0
        BY <1>3, <3>1
      <4>2. QED  BY <4>1
    <3>2. CASE s # {}
      <4>1. pick(s) \in s /\ g[s] = f[pick(s)] + g[s \ {pick(s)}]
        BY <1>1, <1>3, <3>2
      <4>2. g[s \ {pick(s)}] \in Int /\ f[pick(s)] \in Int
        BY <2>1, <4>1
      <4>3. QED  BY <4>1, <4>2
    <3>3. QED  BY <3>1, <3>2
  <2>2. \A s \in SUBSET S : s \in Whole
    <3> HIDE DEF Whole
    <3>1. QED  BY <2>1, SubsetInduction
  <2>3. QED  BY <2>2
<1>5. ASSUME NEW s \in SUBSET S, \A x \in s : s \ {x} \in Good, NEW x \in s
      PROVE  g[s] = f[x] + g[s \ {x}]
  <2> DEFINE p == pick(s)
  <2>1. p \in s /\ g[s] = f[p] + g[s \ {p}] /\ f[p] \in Int /\ f[x] \in Int
    BY <1>1, <1>3
  <2> HIDE DEF p
  <2>2. CASE x = p
    BY <2>1, <2>2
  <2>3. CASE x # p
    <3> DEFINE rest == s \ {p, x}
    <3>1. x \in s \ {p} /\ p \in s \ {x} /\ (s \ {p}) \ {x} = rest /\ (s \ {x}) \ {p} = rest
      BY <2>1, <2>3
    <3>2. g[s \ {p}] = f[x] + g[rest] /\ g[s \ {x}] = f[p] + g[rest]
      <4>1. s \ {p} \in Good /\ s \ {x} \in Good
        BY <1>5, <2>1
      <4>2. QED  BY <3>1, <4>1
    <3>3. g[rest] \in Int
      BY <1>4
    <3> HIDE DEF rest
    <3>4. QED  BY <2>1, <3>2, <3>3
  <2>4. QED  BY <2>2, <2>3
<1>6. \A s \in SUBSET S : s \in Good
  <2>1. ASSUME NEW s \in SUBSET S, \A x \in s : s \ {x} \in Good
        PROVE  s \in Good
    <3>1. \A x \in s : g[s] = f[x] + g[s \ {x}]
      <4> HIDE DEF Good
      <4>1. QED  BY <1>5, <2>1
    <3>2. QED  BY <3>1
  <2> HIDE DEF Good
  <2>2. QED  BY <2>1, SubsetInduction
<1>7. QED  BY ZenonT(60), <1>2, <1>4, <1>6

(* Sums with the same terms are the same.                                  *)
LEMMA SumSame ==
  ASSUME NEW S, IsFiniteSet(S), NEW f, NEW e, \A x \in S : f[x] \in Int /\ e[x] = f[x]
  PROVE  SumFunctionOnSet(e, S) = SumFunctionOnSet(f, S)
<1>1. PICK g : Adds(f, S, g) /\ SumFunctionOnSet(f, S) = g[S]
  BY SumUnfolds
<1>2. PICK h : Adds(e, S, h) /\ SumFunctionOnSet(e, S) = h[S]
  BY SumUnfolds
<1>3. \A s \in SUBSET S : g[s] = h[s]
  BY <1>1, <1>2, AddsUnique
<1>4. QED  BY <1>1, <1>2, <1>3

(* The sum over a set in two parts.                                        *)
LEMMA SumSplit ==
  ASSUME NEW S, IsFiniteSet(S), NEW f, \A x \in S : f[x] \in Int,
         NEW A \in SUBSET S, NEW B \in SUBSET S, A \cap B = {}
  PROVE  SumFunctionOnSet(f, A \cup B) = SumFunctionOnSet(f, A) + SumFunctionOnSet(f, B)
<1> DEFINE sum(s) == SumFunctionOnSet(f, s)
           Good == { s \in SUBSET B : sum(A \cup s) = sum(A) + sum(s) }
<1>1. ASSUME NEW s \in SUBSET S
      PROVE  sum(s) \in Int /\ \A x \in s : sum(s) = f[x] + sum(s \ {x})
  <2>1. IsFiniteSet(s) /\ \A x \in s : f[x] \in Int
    BY FS_Subset
  <2>2. QED  BY <2>1, SumTakeOut
<1>2. sum({}) = 0
  BY FS_EmptySet, SumUnfolds
<1> HIDE DEF sum
<1>3. ASSUME NEW s \in SUBSET B, \A x \in s : s \ {x} \in Good
      PROVE  s \in Good
  <2>1. CASE s = {}
    BY <1>1, <1>2, <2>1
  <2>2. CASE s # {}
    <3>1. PICK x : x \in s
      BY <2>2
    <3>2. sum(A \cup (s \ {x})) = sum(A) + sum(s \ {x})
      BY <1>3, <3>1
    <3>3. A \cup (s \ {x}) = (A \cup s) \ {x}
      BY <3>1
    <3> DEFINE m == sum((A \cup s) \ {x})
               k == sum(s \ {x})
    <3>4. A \cup s \in SUBSET S /\ s \in SUBSET S /\ x \in A \cup s /\ s \ {x} \in SUBSET S
      BY <3>1
    <3>5. sum(A \cup s) = f[x] + sum((A \cup s) \ {x}) /\ sum(s) = f[x] + sum(s \ {x})
      BY <1>1, <3>1, <3>4
    <3>6. sum(A) \in Int /\ sum(s \ {x}) \in Int /\ f[x] \in Int
      BY <1>1, <3>1, <3>4
    <3>7. m = sum(A) + k /\ sum(A \cup s) = f[x] + m /\ sum(s) = f[x] + k /\ k \in Int
      BY <3>2, <3>3, <3>5, <3>6
    <3> HIDE DEF m, k
    <3>8. sum(A \cup s) = sum(A) + sum(s)
      BY <3>6, <3>7
    <3>9. QED  BY <3>8
  <2>3. QED  BY <2>1, <2>2
<1>4. IsFiniteSet(B)
  BY FS_Subset
<1>5. \A s \in SUBSET B : s \in Good
  <2> HIDE DEF Good
  <2>1. QED  BY <1>3, <1>4, SubsetInduction
<1>6. QED  BY <1>5 DEF sum

(* The sum of two functions.                                               *)
LEMMA SumPlus ==
  ASSUME NEW S, IsFiniteSet(S), NEW f, NEW e, NEW h,
         \A x \in S : f[x] \in Int /\ e[x] \in Int /\ h[x] = f[x] + e[x]
  PROVE  SumFunctionOnSet(h, S) = SumFunctionOnSet(f, S) + SumFunctionOnSet(e, S)
<1> DEFINE F(s) == SumFunctionOnSet(f, s)
           E(s) == SumFunctionOnSet(e, s)
           H(s) == SumFunctionOnSet(h, s)
           Good == { s \in SUBSET S : H(s) = F(s) + E(s) }
<1>1. ASSUME NEW s \in SUBSET S
      PROVE  /\ F(s) \in Int /\ \A x \in s : F(s) = f[x] + F(s \ {x})
             /\ E(s) \in Int /\ \A x \in s : E(s) = e[x] + E(s \ {x})
             /\ H(s) \in Int /\ \A x \in s : H(s) = h[x] + H(s \ {x})
  <2>1. IsFiniteSet(s)
    BY FS_Subset
  <2>2. \A x \in s : f[x] \in Int /\ e[x] \in Int /\ h[x] \in Int
    OBVIOUS
  <2>3. QED  BY <2>1, <2>2, SumTakeOut
<1>2. F({}) = 0 /\ E({}) = 0 /\ H({}) = 0
  BY FS_EmptySet, SumUnfolds
<1> HIDE DEF F, E, H
<1>3. ASSUME NEW s \in SUBSET S, \A x \in s : s \ {x} \in Good
      PROVE  s \in Good
  <2>1. CASE s = {}
    BY <1>2, <2>1
  <2>2. CASE s # {}
    <3>1. PICK x : x \in s
      BY <2>2
    <3>2. H(s \ {x}) = F(s \ {x}) + E(s \ {x}) /\ s \ {x} \in SUBSET S
      BY <1>3, <3>1
    <3>3. /\ F(s) = f[x] + F(s \ {x}) /\ E(s) = e[x] + E(s \ {x}) /\ H(s) = h[x] + H(s \ {x})
          /\ F(s \ {x}) \in Int /\ E(s \ {x}) \in Int
      BY <1>1, <3>1, <3>2
    <3>4. f[x] \in Int /\ e[x] \in Int /\ h[x] = f[x] + e[x]
      BY <3>1
    <3>5. QED  BY <3>2, <3>3, <3>4
  <2>3. QED  BY <2>1, <2>2
<1>4. \A s \in SUBSET S : s \in Good
  <2> HIDE DEF Good
  <2>1. QED  BY <1>3, SubsetInduction
<1>5. QED  BY <1>4 DEF F, E, H

(* Terms that are not negative, none, and all 1.                           *)
LEMMA SumNatural ==
  ASSUME NEW S, IsFiniteSet(S), NEW f, \A x \in S : f[x] \in Nat
  PROVE  /\ SumFunctionOnSet(f, S) \in Nat
         /\ \A x \in S : f[x] <= SumFunctionOnSet(f, S)
         /\ (\A x \in S : f[x] = 0) => SumFunctionOnSet(f, S) = 0
         /\ (\A x \in S : f[x] = 1) => SumFunctionOnSet(f, S) = Cardinality(S)
<1> DEFINE F(s) == SumFunctionOnSet(f, s)
           Good == { s \in SUBSET S :
                       /\ F(s) \in Nat
                       /\ (\A x \in S : f[x] = 0) => F(s) = 0
                       /\ (\A x \in S : f[x] = 1) => F(s) = Cardinality(s) }
<1>1. ASSUME NEW s \in SUBSET S
      PROVE  IsFiniteSet(s) /\ F(s) \in Int /\ \A x \in s : F(s) = f[x] + F(s \ {x})
  <2>1. IsFiniteSet(s)
    BY FS_Subset
  <2>2. \A x \in s : f[x] \in Int
    OBVIOUS
  <2>3. QED  BY <2>1, <2>2, SumTakeOut
<1>2. F({}) = 0 /\ Cardinality({}) = 0
  BY FS_EmptySet, SumUnfolds
<1> HIDE DEF F
<1>3. ASSUME NEW s \in SUBSET S, \A x \in s : s \ {x} \in Good
      PROVE  s \in Good
  <2>1. CASE s = {}
    BY <1>2, <2>1
  <2>2. CASE s # {}
    <3>1. PICK x : x \in s
      BY <2>2
    <3>2. s \ {x} \in Good /\ F(s) = f[x] + F(s \ {x}) /\ f[x] \in Nat /\ x \in S
      BY <1>1, <1>3, <3>1
    <3>3. Cardinality(s \ {x}) = Cardinality(s) - 1 /\ Cardinality(s) \in Nat
      BY <1>1, <3>1, FS_RemoveElement, FS_CardinalityType
    <3>4. QED  BY <3>2, <3>3
  <2>3. QED  BY <2>1, <2>2
<1>4. \A s \in SUBSET S : s \in Good
  <2> HIDE DEF Good
  <2>1. QED  BY <1>3, SubsetInduction
<1>5. ASSUME NEW x \in S PROVE f[x] <= F(S)
  <2>1. F(S) = f[x] + F(S \ {x}) /\ F(S \ {x}) \in Nat /\ f[x] \in Nat
    BY <1>1, <1>4
  <2>2. QED  BY <2>1
<1>6. QED  BY <1>4, <1>5 DEF F

(* A sum with at most one term that is not 0.                              *)
LEMMA SumSingle ==
  ASSUME NEW S, IsFiniteSet(S), NEW f, NEW u,
         \A x \in S : f[x] \in Int, \A x \in S \ {u} : f[x] = 0
  PROVE  SumFunctionOnSet(f, S) = IF u \in S THEN f[u] ELSE 0
<1> DEFINE R == S \ {u}
<1>1. IsFiniteSet(R) /\ \A x \in R : f[x] \in Nat /\ f[x] = 0
  BY FS_Subset
<1> HIDE DEF R
<1>2. SumFunctionOnSet(f, R) = 0
  BY <1>1, SumNatural
<1> USE DEF R
<1>3. CASE u \in S
  <2>1. SumFunctionOnSet(f, S) = f[u] + SumFunctionOnSet(f, S \ {u}) /\ f[u] \in Int
    BY <1>3, SumTakeOut
  <2>2. QED  BY <1>2, <1>3, <2>1
<1>4. CASE u \notin S
  <2>1. R = S
    BY <1>4
  <2>2. QED  BY <1>2, <1>4, <2>1
<1>5. QED  BY <1>3, <1>4

(* Upward along the numbers to m.                                          *)
LEMMA Upward ==
  ASSUME NEW m \in Nat, NEW Good, 0 \in Good, \A n \in 0 .. m - 1 : n \in Good => n + 1 \in Good
  PROVE  \A n \in 0 .. m : n \in Good
<1> DEFINE Bad == { n \in Nat : n <= m /\ n \notin Good }
<1> SUFFICES ASSUME Bad # {} PROVE FALSE
  OBVIOUS
<1>1. PICK n \in Bad : \A y \in Bad : n <= y
  <2> HIDE DEF Bad
  <2>1. Bad \in SUBSET Nat
    BY DEF Bad
  <2>2. QED  BY <2>1, Least
<1>2. n \in Nat /\ n # 0 /\ n <= m /\ n - 1 \in Nat
  OBVIOUS
<1>3. n - 1 \in Good
  BY <1>1, <1>2
<1>4. (n - 1) + 1 \in Good
  BY <1>2, <1>3
<1>5. QED  BY <1>2, <1>4

(* A recursion over the numbers to m.                                      *)
FollowsTo(g, S, m, first, step) ==
  /\ g \in [0 .. m -> S]
  /\ g = [n \in 0 .. m |-> IF n = 0 THEN first ELSE step[n - 1][g[n - 1]]]

(* A recursion up to a number has a solution.                              *)
LEMMA RecursionTo ==
  ASSUME NEW S, NEW first \in S, NEW m \in Nat, NEW step \in [Nat -> [S -> S]]
  PROVE  \E g : FollowsTo(g, S, m, first, step)
<1>1. PICK h : Follows(h, S, first, step)
  BY Recursion
<1> DEFINE g == [n \in 0 .. m |-> h[n]]
<1>2. h \in [Nat -> S] /\ h[0] = first /\ \A n \in Nat : h[n + 1] = step[n][h[n]]
  BY <1>1 DEF Follows
<1>3. g \in [0 .. m -> S]
  BY <1>2
<1>4. ASSUME NEW n \in 0 .. m
      PROVE  g[n] = IF n = 0 THEN first ELSE step[n - 1][g[n - 1]]
  <2>1. CASE n = 0
    BY <1>2, <2>1
  <2>2. CASE n # 0
    <3>1. n - 1 \in Nat /\ n - 1 \in 0 .. m /\ (n - 1) + 1 = n
      BY <2>2
    <3>2. h[(n - 1) + 1] = step[n - 1][h[n - 1]]
      BY <1>2, <3>1
    <3>3. QED  BY <2>2, <3>1, <3>2
  <2>3. QED  BY <2>1, <2>2
<1> HIDE DEF g
<1>5. g = [n \in 0 .. m |-> IF n = 0 THEN first ELSE step[n - 1][g[n - 1]]]
  BY <1>3, <1>4
<1>6. FollowsTo(g, S, m, first, step)
  BY <1>3, <1>5 DEF FollowsTo
<1>7. QED  BY <1>6

-----------------------------------------------------------------------------
(* Lists that hold each of their elements once.                            *)
LEMMA ListLength ==
  ASSUME NEW S, NEW list \in Seq(S), IsInjective(list)
  PROVE  IsFiniteSet(Range(list)) /\ Cardinality(Range(list)) = Len(list)
<1> DEFINE D == 1 .. Len(list)
<1>1. IsFiniteSet(D) /\ Cardinality(D) = Len(list)
  <2> DEFINE n == Len(list)
  <2>1. n \in Nat /\ n \in Int /\ 1 \in Int
    OBVIOUS
  <2> HIDE DEF n
  <2>2. IsFiniteSet(1 .. n) /\ Cardinality(1 .. n) = IF 1 > n THEN 0 ELSE n - 1 + 1
    BY <2>1, FS_Interval
  <2>3. Cardinality(1 .. n) = n
    BY <2>1, <2>2
  <2>4. QED  BY <2>2, <2>3 DEF n
<1>2. list \in Surjection(D, Range(list)) /\ list \in Injection(D, Range(list))
  BY DEF Surjection, Injection, IsInjective, Range
<1>3. QED  BY <1>1, <1>2, FS_Surjection

(* One element more at the end of a list.                                  *)
LEMMA ListAppend ==
  ASSUME NEW S, NEW list \in Seq(S), NEW x \in S
  PROVE  /\ Append(list, x) \in Seq(S)
         /\ Range(Append(list, x)) = Range(list) \cup {x}
         /\ IsInjective(list) /\ x \notin Range(list) => IsInjective(Append(list, x))
<1> DEFINE a == Append(list, x)
<1>1. /\ a \in Seq(S) /\ Len(a) = Len(list) + 1 /\ a[Len(list) + 1] = x
      /\ \A i \in 1 .. Len(list) : a[i] = list[i]
      /\ Len(list) \in Nat /\ DOMAIN a = 1 .. Len(list) + 1 /\ DOMAIN list = 1 .. Len(list)
  OBVIOUS
<1> HIDE DEF a
<1>2. Range(a) = Range(list) \cup {x}
  <2>1. Range(a) \subseteq Range(list) \cup {x}
    <3>1. ASSUME NEW i \in DOMAIN a PROVE a[i] \in Range(list) \cup {x}
      <4>1. i = Len(list) + 1 \/ i \in 1 .. Len(list)
        BY <1>1
      <4>2. QED  BY <1>1, <4>1 DEF Range
    <3>2. QED  BY <3>1 DEF Range
  <2>2. x \in Range(a)
    <3>1. Len(list) + 1 \in DOMAIN a
      BY <1>1
    <3>2. QED  BY <1>1, <3>1 DEF Range
  <2>3. Range(list) \subseteq Range(a)
    <3>1. ASSUME NEW i \in DOMAIN list PROVE list[i] \in Range(a)
      <4>1. i \in DOMAIN a /\ a[i] = list[i]
        BY <1>1
      <4>2. QED  BY <4>1 DEF Range
    <3>2. QED  BY <3>1 DEF Range
  <2>4. QED  BY <2>1, <2>2, <2>3
<1>3. ASSUME IsInjective(list), x \notin Range(list) PROVE IsInjective(a)
  <2>1. ASSUME NEW i \in DOMAIN a, NEW j \in DOMAIN a, a[i] = a[j] PROVE i = j
    <3>1. (i = Len(list) + 1 \/ i \in DOMAIN list) /\ (j = Len(list) + 1 \/ j \in DOMAIN list)
      BY <1>1
    <3>2. \A k \in DOMAIN list : a[k] = list[k] /\ list[k] # x
      BY <1>1, <1>3 DEF Range
    <3>3. a[Len(list) + 1] = x
      BY <1>1
    <3>4. QED  BY <1>3, <2>1, <3>1, <3>2, <3>3 DEF IsInjective
  <2>2. QED  BY <2>1 DEF IsInjective
<1>4. QED  BY <1>1, <1>2, <1>3 DEF a

(* Two lists, one behind the other.                                        *)
LEMMA ListConcat ==
  ASSUME NEW S, NEW a \in Seq(S), NEW b \in Seq(S)
  PROVE  /\ a \o b \in Seq(S) /\ Len(a \o b) = Len(a) + Len(b)
         /\ Range(a \o b) = Range(a) \cup Range(b)
         /\ IsInjective(a) /\ IsInjective(b) /\ Range(a) \cap Range(b) = {} => IsInjective(a \o b)
<1> DEFINE c == a \o b
           m == Len(a)
           n == Len(b)
<1>1. /\ c \in Seq(S) /\ Len(c) = m + n /\ m \in Nat /\ n \in Nat
      /\ \A i \in 1 .. m : c[i] = a[i]
      /\ \A i \in 1 .. n : c[m + i] = b[i]
      /\ DOMAIN c = 1 .. m + n /\ DOMAIN a = 1 .. m /\ DOMAIN b = 1 .. n
  OBVIOUS
<1> HIDE DEF c, m, n
<1>2. ASSUME NEW i \in DOMAIN c
      PROVE  \/ i \in DOMAIN a /\ c[i] = a[i]
             \/ i - m \in DOMAIN b /\ c[i] = b[i - m]
  <2>1. CASE i <= m
    BY <1>1, <2>1
  <2>2. CASE i > m
    <3>1. i - m \in 1 .. n /\ m + (i - m) = i
      BY <1>1, <2>2
    <3>2. QED  BY <1>1, <3>1
  <2>3. QED  BY <1>1, <2>1, <2>2
<1>3. \A i \in DOMAIN a : i \in DOMAIN c /\ c[i] = a[i]
  BY <1>1
<1>4. \A i \in DOMAIN b : m + i \in DOMAIN c /\ c[m + i] = b[i]
  BY <1>1
<1>5. Range(c) = Range(a) \cup Range(b)
  BY <1>2, <1>3, <1>4 DEF Range
<1>6. ASSUME IsInjective(a), IsInjective(b), Range(a) \cap Range(b) = {} PROVE IsInjective(c)
  <2>1. ASSUME NEW i \in DOMAIN c, NEW j \in DOMAIN c, c[i] = c[j] PROVE i = j
    <3>1. CASE i \in DOMAIN a /\ c[i] = a[i] /\ j \in DOMAIN a /\ c[j] = a[j]
      BY <1>6, <2>1, <3>1 DEF IsInjective
    <3>2. CASE i - m \in DOMAIN b /\ c[i] = b[i - m] /\ j - m \in DOMAIN b /\ c[j] = b[j - m]
      <4>1. i - m = j - m
        BY <1>6, <2>1, <3>2 DEF IsInjective
      <4>2. QED  BY <1>1, <4>1
    <3>3. CASE i \in DOMAIN a /\ c[i] = a[i] /\ j - m \in DOMAIN b /\ c[j] = b[j - m]
      BY <1>6, <2>1, <3>3 DEF Range
    <3>4. CASE i - m \in DOMAIN b /\ c[i] = b[i - m] /\ j \in DOMAIN a /\ c[j] = a[j]
      BY <1>6, <2>1, <3>4 DEF Range
    <3>5. QED  BY <1>2, <3>1, <3>2, <3>3, <3>4
  <2>2. QED  BY <2>1 DEF IsInjective
<1>7. QED  BY <1>1, <1>5, <1>6 DEF c, m, n

-----------------------------------------------------------------------------
(* Loops.                                                                  *)

(* A recursion whose turns stay in given sets has a solution.              *)
Turns(g, n, first, turn) == g = [k \in 0 .. n |-> IF k = 0 THEN first ELSE turn[k][g[k - 1]]]

LEMMA Stepwise ==
  ASSUME NEW n \in Nat, NEW X, NEW first \in X[0], NEW turn,
         \A k \in 1 .. n : \A x \in X[k - 1] : turn[k][x] \in X[k]
  PROVE  \E g : Turns(g, n, first, turn) /\ \A k \in 0 .. n : g[k] \in X[k]
<1> DEFINE U == UNION { X[k] : k \in 0 .. n }
           at == [k \in Nat |-> [x \in U |->
                    IF k + 1 \in 1 .. n /\ x \in X[k] THEN turn[k + 1][x] ELSE first]]
<1>1. \A k \in 0 .. n : X[k] \subseteq U
  OBVIOUS
<1>2. first \in U
  BY <1>1
<1>3. at \in [Nat -> [U -> U]]
  <2>1. ASSUME NEW k \in Nat, NEW x \in U, k + 1 \in 1 .. n, x \in X[k]
        PROVE  turn[k + 1][x] \in U
    <3>1. (k + 1) - 1 = k /\ k + 1 \in 0 .. n
      BY <2>1
    <3>2. turn[k + 1][x] \in X[k + 1]
      BY <2>1, <3>1
    <3>3. QED  BY <1>1, <3>1, <3>2
  <2> HIDE DEF U
  <2>2. QED  BY <1>2, <2>1
<1> HIDE DEF at, U
<1>4. PICK g : FollowsTo(g, U, n, first, at)
  BY <1>2, <1>3, RecursionTo
<1>5. /\ DOMAIN g = 0 .. n /\ g = [k \in DOMAIN g |-> g[k]]
      /\ \A k \in 0 .. n : g[k] = IF k = 0 THEN first ELSE at[k - 1][g[k - 1]]
  BY <1>4 DEF FollowsTo
<1>6. \A k \in 0 .. n : g[k] \in X[k]
  <2> DEFINE Good == { k \in 0 .. n : g[k] \in X[k] }
  <2>1. 0 \in Good
    BY <1>5
  <2>2. ASSUME NEW k \in 0 .. n - 1, k \in Good PROVE k + 1 \in Good
    <3>1. k \in Nat /\ k \in 0 .. n /\ k + 1 \in 1 .. n /\ k + 1 \in 0 .. n /\ (k + 1) - 1 = k /\ k + 1 # 0
      OBVIOUS
    <3>2. g[k + 1] = at[k][g[k]] /\ g[k] \in X[k] /\ g[k] \in U
      BY <1>1, <1>5, <2>2, <3>1
    <3>3. at[k][g[k]] = turn[k + 1][g[k]]
      BY <3>1, <3>2 DEF at
    <3>4. turn[k + 1][g[k]] \in X[k + 1]
      BY <3>1, <3>2
    <3>5. QED  BY <3>1, <3>2, <3>3, <3>4
  <2> HIDE DEF Good
  <2>3. \A k \in 0 .. n : k \in Good
    BY <2>1, <2>2, Upward
  <2>4. QED  BY <2>3 DEF Good
<1>7. ASSUME NEW k \in 0 .. n
      PROVE  g[k] = IF k = 0 THEN first ELSE turn[k][g[k - 1]]
  <2>1. CASE k = 0
    BY <1>5, <2>1
  <2>2. CASE k # 0
    <3>1. k - 1 \in Nat /\ k - 1 \in 0 .. n /\ (k - 1) + 1 = k /\ k \in 1 .. n
      BY <2>2
    <3>2. g[k - 1] \in X[k - 1] /\ g[k - 1] \in U
      BY <1>1, <1>6, <3>1
    <3>3. at[k - 1][g[k - 1]] = turn[k][g[k - 1]]
      BY <3>1, <3>2 DEF at
    <3>4. QED  BY <1>5, <2>2, <3>3
  <2>3. QED  BY <2>1, <2>2
<1>8. Turns(g, n, first, turn)
  BY <1>5, <1>7 DEF Turns
<1>9. QED  BY <1>6, <1>8

(* A run whose turns stay in given sets is in the last of them.            *)
LEMMA RunStays ==
  ASSUME NEW n \in Nat, NEW X, NEW run, run[0] \in X[0],
         \A k \in 1 .. n : run[k - 1] \in X[k - 1] => run[k] \in X[k]
  PROVE  /\ \A k \in 0 .. n : run[k] \in X[k]
         /\ run[n] \in X[n]
<1> DEFINE Good == { k \in 0 .. n : run[k] \in X[k] }
<1>1. 0 \in Good
  OBVIOUS
<1>2. ASSUME NEW k \in 0 .. n - 1, k \in Good PROVE k + 1 \in Good
  <2>1. k + 1 \in 1 .. n /\ k + 1 \in 0 .. n /\ (k + 1) - 1 = k
    OBVIOUS
  <2>2. QED  BY <1>2, <2>1
<1> HIDE DEF Good
<1>3. \A k \in 0 .. n : k \in Good
  BY <1>1, <1>2, Upward
<1>4. QED  BY <1>3 DEF Good

(* Only keeps what is in the set, in order.                                *)
LEMMA OnlyIs ==
  ASSUME NEW S, NEW seq \in Seq(S), NEW set
  PROVE  /\ Only(seq, set) \in Seq(S)
         /\ Range(Only(seq, set)) = Range(seq) \cap set
         /\ IsInjective(seq) => IsInjective(Only(seq, set))
<1> DEFINE n == Len(seq)
           Seen(k) == { seq[i] : i \in 1 .. k }
           Part(k, x) == Range(x) = Seen(k) \cap set /\ (IsInjective(seq) => IsInjective(x))
           X == [k \in 0 .. n |-> { x \in Seq(S) : Part(k, x) }]
           turn == [k \in 1 .. n |-> [x \in X[k - 1] |->
                      IF seq[k] \in set THEN Append(x, seq[k]) ELSE x]]
           Is(g) == g = [k \in 0 .. n |-> IF k = 0 THEN <<>>
                           ELSE IF seq[k] \in set THEN Append(g[k - 1], seq[k]) ELSE g[k - 1]]
           run == CHOOSE g : Is(g)
<1>1. n \in Nat /\ DOMAIN seq = 1 .. n /\ \A i \in 1 .. n : seq[i] \in S
  OBVIOUS
<1>2. Only(seq, set) = run[n]
  BY DEF Only, Loop
<1> HIDE DEF n, Part
<1>3. \A k \in 0 .. n : \A x : x \in X[k] <=> x \in Seq(S) /\ Part(k, x)
  OBVIOUS
<1> HIDE DEF X
<1> USE DEF Part
<1>4. <<>> \in X[0]
  <2>1. Range(<<>>) = {} /\ <<>> \in Seq(S) /\ IsInjective(<<>>)
    BY DEF Range, IsInjective
  <2>2. Seen(0) = {}
    OBVIOUS
  <2>3. 0 \in 0 .. n
    BY <1>1
  <2>4. Part(0, <<>>)
    BY <2>1, <2>2
  <2> HIDE DEF Part
  <2>5. QED  BY <1>3, <2>1, <2>3, <2>4
<1>5. ASSUME NEW k \in 1 .. n, NEW x \in X[k - 1]
      PROVE  (IF seq[k] \in set THEN Append(x, seq[k]) ELSE x) \in X[k]
  <2>1. /\ x \in Seq(S) /\ Range(x) = Seen(k - 1) \cap set
        /\ IsInjective(seq) => IsInjective(x)
    <3>1. k - 1 \in 0 .. n
      BY <1>1
    <3>2. QED  BY <1>3, <3>1
  <2>2. Seen(k) = Seen(k - 1) \cup {seq[k]} /\ seq[k] \in S
    <3>1. 1 .. k = (1 .. (k - 1)) \cup {k}
      BY <1>1
    <3>2. QED  BY <1>1, <3>1
  <2>3. IsInjective(seq) => seq[k] \notin Seen(k - 1)
    <3>1. ASSUME IsInjective(seq), NEW i \in 1 .. (k - 1), seq[i] = seq[k] PROVE FALSE
      <4>1. i \in DOMAIN seq /\ k \in DOMAIN seq /\ i # k
        BY <1>1
      <4>2. QED  BY <3>1, <4>1 DEF IsInjective
    <3>2. QED  BY <3>1
  <2>4. k \in 0 .. n
    BY <1>1
  <2> HIDE DEF Seen
  <2>5. CASE seq[k] \in set
    <3>1. /\ Append(x, seq[k]) \in Seq(S) /\ Range(Append(x, seq[k])) = Range(x) \cup {seq[k]}
          /\ IsInjective(x) /\ seq[k] \notin Range(x) => IsInjective(Append(x, seq[k]))
      BY <2>1, <2>2, ListAppend
    <3>2. Part(k, Append(x, seq[k]))
      BY <2>1, <2>2, <2>3, <2>5, <3>1
    <3> HIDE DEF Part
    <3>3. QED  BY <1>3, <2>5, <2>4, <3>1, <3>2
  <2>6. CASE seq[k] \notin set
    <3>1. Part(k, x)
      BY <2>1, <2>2, <2>6
    <3> HIDE DEF Part
    <3>2. QED  BY <1>3, <2>1, <2>6, <2>4, <3>1
  <2>7. QED  BY <2>5, <2>6
<1>6. \A k \in 1 .. n : \A x \in X[k - 1] :
        turn[k][x] \in X[k] /\ turn[k][x] = IF seq[k] \in set THEN Append(x, seq[k]) ELSE x
  BY <1>5
<1> HIDE DEF turn, Is
<1>7. PICK g : Turns(g, n, <<>>, turn) /\ \A k \in 0 .. n : g[k] \in X[k]
  <2>1. n \in Nat
    BY <1>1
  <2>2. \A k \in 1 .. n : \A x \in X[k - 1] : turn[k][x] \in X[k]
    BY <1>6
  <2> DEFINE first == <<>>
  <2>3. first \in X[0]
    BY <1>4
  <2> HIDE DEF first
  <2>4. \E g : Turns(g, n, first, turn) /\ \A k \in 0 .. n : g[k] \in X[k]
    BY <2>1, <2>2, <2>3, Stepwise
  <2>5. QED  BY <2>4 DEF first
<1> USE DEF Is
<1>8. Is(g)
  <2>1. ASSUME NEW k \in 1 .. n PROVE k - 1 \in 0 .. n /\ k \in 0 .. n /\ k # 0
    BY <1>1
  <2>2. \A k \in 1 .. n : g[k] = IF seq[k] \in set THEN Append(g[k - 1], seq[k]) ELSE g[k - 1]
    BY <1>6, <1>7, <2>1 DEF Turns
  <2>3. DOMAIN g = 0 .. n /\ g = [k \in DOMAIN g |-> g[k]]
    BY <1>7 DEF Turns
  <2>4. g[0] = <<>> /\ \A k \in 0 .. n : k # 0 => k \in 1 .. n
    BY <1>1, <1>7 DEF Turns
  <2>5. QED  BY <2>2, <2>3, <2>4
<1>9. Is(run)
  BY <1>8
<1> HIDE DEF run
<1>10. run[n] \in X[n]
  <2>1. run[0] \in X[0]
    BY <1>1, <1>4, <1>9
  <2>2. ASSUME NEW k \in 1 .. n, run[k - 1] \in X[k - 1] PROVE run[k] \in X[k]
    <3>1. k \in 0 .. n /\ k # 0
      BY <1>1
    <3>2. run[k] = IF seq[k] \in set THEN Append(run[k - 1], seq[k]) ELSE run[k - 1]
      BY <1>9, <3>1
    <3>3. QED  BY <1>6, <2>2, <3>2
  <2>3. QED  BY <1>1, <2>1, <2>2, RunStays
<1>11. Seen(n) = Range(seq)
  BY <1>1 DEF Range
<1>12. QED
  <2>1. n \in 0 .. n
    BY <1>1
  <2>2. /\ run[n] \in Seq(S) /\ Range(run[n]) = Range(seq) \cap set
        /\ IsInjective(seq) => IsInjective(run[n])
    <3> HIDE DEF Seen, Is
    <3>1. QED  BY <1>3, <1>10, <1>11, <2>1
  <2>3. QED  BY <1>2, <2>2

-----------------------------------------------------------------------------
(* A function that takes no value twice has as many values as arguments.   *)
LEMMA ImageCount ==
  ASSUME NEW A, IsFiniteSet(A), NEW f, \A x, y \in A : f[x] = f[y] => x = y
  PROVE  /\ IsFiniteSet({ f[x] : x \in A })
         /\ Cardinality({ f[x] : x \in A }) = Cardinality(A)
<1> DEFINE g == [x \in A |-> f[x]]
           B == { f[x] : x \in A }
<1>1. g \in Bijection(A, B)
  <2>1. g \in [A -> B]
    OBVIOUS
  <2>2. IsInjective(g)
    BY DEF IsInjective
  <2>3. \A b \in B : \E x \in A : g[x] = b
    OBVIOUS
  <2> HIDE DEF g, B
  <2>4. QED  BY <2>1, <2>2, <2>3 DEF Bijection, Injection, Surjection
<1> HIDE DEF g, B
<1>2. ExistsBijection(A, B)
  BY <1>1 DEF ExistsBijection
<1>3. QED  BY <1>2, FS_Bijection DEF B

(* Where every element of U is sent to one of Q, the sizes of what is      *)
(* sent to each add up to the size of U.                                   *)
LEMMA SumOfFibers ==
  ASSUME NEW U, IsFiniteSet(U), NEW Q, IsFiniteSet(Q), NEW h, NEW f, NEW fiber,
         \A p \in U : h[p] \in Q,
         \A q \in Q : \A p : p \in fiber[q] <=> p \in U /\ h[p] = q,
         \A q \in Q : f[q] = Cardinality(fiber[q])
  PROVE  SumFunctionOnSet(f, Q) = Cardinality(U)
<1> DEFINE In(s) == { p \in U : h[p] \in s }
           At(q) == { p \in U : h[p] = q }
           Good == { s \in SUBSET Q : SumFunctionOnSet(f, s) = Cardinality(In(s)) }
<1>1. \A s : IsFiniteSet(In(s)) /\ Cardinality(In(s)) \in Nat
  BY FS_Subset, FS_CardinalityType
<1>2. \A q : IsFiniteSet(At(q)) /\ Cardinality(At(q)) \in Nat
  BY FS_Subset, FS_CardinalityType
<1>3. \A q \in Q : f[q] \in Int
  <2>1. \A q \in Q : f[q] = Cardinality(At(q))
    <3> TAKE q \in Q
    <3>1. fiber[q] = At(q)
      OBVIOUS
    <3> HIDE DEF At
    <3>2. QED  BY <3>1
  <2> HIDE DEF At
  <2>2. QED  BY <1>2, <2>1
<1>4. ASSUME NEW s \in SUBSET Q, \A x \in s : s \ {x} \in Good
      PROVE  s \in Good
  <2>0. IsFiniteSet(s)
    BY FS_Subset
  <2>1. CASE s = {}
    <3>1. SumFunctionOnSet(f, s) = 0
      BY <1>3, <2>0, <2>1, SumUnfolds
    <3>2. In(s) = {}
      BY <2>1
    <3>3. QED  BY <3>1, <3>2, FS_EmptySet
  <2>2. ASSUME NEW x \in s PROVE SumFunctionOnSet(f, s) = Cardinality(In(s))
    <3>1. SumFunctionOnSet(f, s) = f[x] + SumFunctionOnSet(f, s \ {x})
      BY <1>3, <2>0, SumTakeOut
    <3>2. SumFunctionOnSet(f, s \ {x}) = Cardinality(In(s \ {x}))
      BY <1>4, <2>2
    <3>3. In(s) = At(x) \cup In(s \ {x}) /\ At(x) \cap In(s \ {x}) = {}
      OBVIOUS
    <3>4. f[x] = Cardinality(At(x))
      <4>1. fiber[x] = At(x)
        BY <2>2
      <4> HIDE DEF At
      <4>2. QED  BY <2>2, <4>1
    <3> HIDE DEF In, At
    <3>5. Cardinality(In(s)) = Cardinality(At(x)) + Cardinality(In(s \ {x}))
      <4>1. IsFiniteSet(At(x)) /\ IsFiniteSet(In(s \ {x})) /\ Cardinality(At(x)) \in Nat
            /\ Cardinality(In(s \ {x})) \in Nat
        BY <1>1, <1>2
      <4>2. Cardinality(At(x) \cup In(s \ {x}))
              = Cardinality(At(x)) + Cardinality(In(s \ {x})) - Cardinality(At(x) \cap In(s \ {x}))
        BY ONLY <4>1, FS_Union
      <4>3. Cardinality(At(x) \cap In(s \ {x})) = 0
        BY <3>3, FS_EmptySet
      <4>4. QED  BY <3>3, <4>1, <4>2, <4>3
    <3>6. QED  BY <3>1, <3>2, <3>4, <3>5
  <2>3. QED  BY <2>1, <2>2
<1>5. \A s \in SUBSET Q : s \in Good
  <2> HIDE DEF Good
  <2>1. QED  BY <1>4, SubsetInduction
<1>6. In(Q) = U
  OBVIOUS
<1>7. QED  BY <1>5, <1>6

(* Functions that agree everywhere are the same.                           *)
LEMMA SameFunction ==
  ASSUME NEW A, NEW B, NEW f \in [A -> B], NEW g \in [A -> B], \A x \in A : f[x] = g[x]
  PROVE  f = g
OBVIOUS

-----------------------------------------------------------------------------
(* A stack over a set, whose noted places are right.                       *)
StackOver(S, s) ==
  /\ s = [stack |-> s.stack, index |-> s.index]
  /\ s.stack \in Seq(S)
  /\ s.index \in [S -> Nat]
  /\ StackExact(s)

(* An empty stack is exact.                                                *)
THEOREM EmptyExact ==
  ASSUME NEW S
  PROVE  StackOver(S, EmptyStack(S)) /\ OnStack(EmptyStack(S)) = {}
BY DEF StackOver, EmptyStack, StackExact, OnStack

(* Pushing an element that is not on the stack puts it there, and no other *)
(* place changes.                                                          *)
THEOREM PushedExact ==
  ASSUME NEW S, NEW s, StackOver(S, s), NEW e \in S, e \notin OnStack(s)
  PROVE  StackOver(S, Pushed(s, e)) /\ OnStack(Pushed(s, e)) = OnStack(s) \cup {e}
<1> DEFINE n == Len(s.stack)
           p == Pushed(s, e)
<1>1. /\ s.stack \in Seq(S) /\ n \in Nat /\ s.index \in [S -> Nat]
      /\ \A i \in 1 .. n : s.stack[i] \in S /\ s.index[s.stack[i]] = i
  BY DEF StackOver, StackExact
<1>2. /\ p = [stack |-> p.stack, index |-> p.index]
      /\ p.stack = Append(s.stack, e) /\ p.index = [s.index EXCEPT ![e] = n + 1]
  BY DEF Pushed
<1> HIDE DEF p
<1>3. /\ p.stack \in Seq(S) /\ Len(p.stack) = n + 1 /\ p.stack[n + 1] = e
      /\ \A i \in 1 .. n : p.stack[i] = s.stack[i]
  BY <1>1, <1>2
<1>4. \A i \in 1 .. n : s.stack[i] # e
  BY DEF OnStack
<1> HIDE DEF n
<1>5. p.index \in [S -> Nat] /\ p.index[e] = n + 1
  BY <1>1, <1>2
<1>6. ASSUME NEW i \in 1 .. (n + 1)
      PROVE  p.index[p.stack[i]] = i
  <2>1. CASE i = n + 1
    BY <1>3, <1>5, <2>1
  <2>2. CASE i \in 1 .. n
    BY <1>1, <1>2, <1>3, <1>4, <2>2
  <2>3. QED  BY <1>1, <2>1, <2>2
<1>7. StackOver(S, p)
  BY <1>2, <1>3, <1>5, <1>6 DEF StackOver, StackExact
<1>8. OnStack(p) = OnStack(s) \cup {e}
  <2>1. 1 .. (n + 1) = (1 .. n) \cup {n + 1}
    BY <1>1
  <2>2. OnStack(p) = { p.stack[i] : i \in 1 .. (n + 1) }
    BY <1>3 DEF OnStack
  <2>3. OnStack(s) = { s.stack[i] : i \in 1 .. n }
    BY DEF OnStack, n
  <2>4. QED  BY <1>3, <2>1, <2>2, <2>3
<1>9. QED  BY <1>7, <1>8 DEF p

(* Taking an element off moves the top to its place; when the element is   *)
(* the top itself, nothing else moves.                                     *)
THEOREM TakenExact ==
  ASSUME NEW S, NEW s, StackOver(S, s), NEW e \in OnStack(s)
  PROVE  StackOver(S, Taken(s, e)) /\ OnStack(Taken(s, e)) = OnStack(s) \ {e}
<1> DEFINE n == Len(s.stack)
           k == s.index[e]
           last == s.stack[n]
           p == Taken(s, e)
<1>1. /\ s.stack \in Seq(S) /\ n \in Nat /\ s.index \in [S -> Nat]
      /\ \A i \in 1 .. n : s.stack[i] \in S /\ s.index[s.stack[i]] = i
  BY DEF StackOver, StackExact
<1>2. PICK i \in 1 .. n : s.stack[i] = e
  BY DEF OnStack
<1>3. k \in 1 .. n /\ s.stack[k] = e /\ n # 0 /\ e \in S /\ last \in S
  BY <1>1, <1>2
<1>4. /\ p = [stack |-> p.stack, index |-> p.index]
      /\ p.stack = [j \in 1 .. (n - 1) |-> IF j = k THEN last ELSE s.stack[j]]
      /\ p.index = [s.index EXCEPT ![last] = k]
  BY DEF Taken
<1> HIDE DEF p
<1>5. p.stack \in Seq(S) /\ Len(p.stack) = n - 1 /\ n - 1 \in Nat
  BY <1>1, <1>3, <1>4
<1>6. p.index \in [S -> Nat]
  BY <1>1, <1>3, <1>4
<1>7. ASSUME NEW j \in 1 .. (n - 1)
      PROVE  p.index[p.stack[j]] = j
  <2>1. CASE j = k
    BY <1>1, <1>3, <1>4, <2>1
  <2>2. CASE j # k
    <3>1. j \in 1 .. n /\ p.stack[j] = s.stack[j] /\ s.index[s.stack[j]] = j
      BY <1>1, <1>4, <2>2
    <3>2. s.index[last] = n /\ j # n
      BY SMTT(30), <1>1, <1>3
    <3>3. s.stack[j] # last
      BY <3>1, <3>2
    <3>4. QED  BY <1>1, <1>3, <1>4, <3>1, <3>3
  <2>3. QED  BY <2>1, <2>2
<1>8. StackOver(S, p)
  BY <1>4, <1>5, <1>6, <1>7 DEF StackOver, StackExact
<1>9. OnStack(p) = { p.stack[j] : j \in 1 .. (n - 1) }
  BY <1>5 DEF OnStack
<1>10. OnStack(s) = { s.stack[j] : j \in 1 .. n }
  BY DEF OnStack
<1>11. ASSUME NEW j \in 1 .. (n - 1)
       PROVE  p.stack[j] \in OnStack(s) /\ p.stack[j] # e
  <2>1. j \in 1 .. n /\ n \in 1 .. n /\ j # n
    BY <1>1, <1>3
  <2>2. CASE j = k
    <3>1. p.stack[j] = last /\ last # e
      BY <1>1, <1>3, <1>4, <2>1, <2>2
    <3>2. QED  BY <1>10, <2>1, <3>1
  <2>3. CASE j # k
    <3>1. p.stack[j] = s.stack[j] /\ s.stack[j] # e
      BY ZenonT(60), <1>1, <1>3, <1>4, <2>1, <2>3
    <3>2. QED  BY <1>10, <2>1, <3>1
  <2>4. QED  BY <2>2, <2>3
<1>12. ASSUME NEW j \in 1 .. n, s.stack[j] # e
       PROVE  s.stack[j] \in OnStack(p)
  <2>1. j # k
    BY <1>3, <1>12
  <2>2. CASE j = n
    <3>1. k \in 1 .. (n - 1) /\ p.stack[k] = s.stack[j]
      BY <1>1, <1>3, <1>4, <2>1, <2>2
    <3>2. QED  BY <1>9, <3>1
  <2>3. CASE j # n
    <3>1. j \in 1 .. (n - 1) /\ p.stack[j] = s.stack[j]
      BY <1>1, <1>4, <2>1, <2>3
    <3>2. QED  BY <1>9, <3>1
  <2>4. QED  BY <2>2, <2>3
<1>13. OnStack(p) = OnStack(s) \ {e}
  BY <1>9, <1>10, <1>11, <1>12
<1>14. QED  BY <1>8, <1>13 DEF p

-----------------------------------------------------------------------------
(* Where the ranges start: at the first place, one after the other, and    *)
(* the range behind the last thread starts behind the last place.          *)
LEMMA Starting ==
  ASSUME NEW n \in Nat, NEW threads \in Nat \ {0}, NEW id \in Nat
  PROVE  /\ Start(id, n, threads) \in Nat
         /\ Start(id, n, threads) <= Start(id + 1, n, threads)
         /\ Start(0, n, threads) = 0
         /\ Start(threads, n, threads) = n
<1> DEFINE q == n \div threads
           r == n % threads
           a == q * id
<1>1. q \in Nat /\ r \in Nat /\ r < threads /\ n = threads * q + r
  OBVIOUS
<1>2. \A i : Start(i, n, threads) = q * i + IF i < r THEN i ELSE r
  BY DEF Start
<1> HIDE DEF q, r
<1>3. q * (id + 1) = q * id + q /\ q * id \in Nat /\ q * 0 = 0 /\ q * threads = threads * q
  BY <1>1
<1>4. a \in Nat /\ q * id = a
  BY <1>3
<1>5. Start(0, n, threads) = 0 /\ Start(threads, n, threads) = n
  BY <1>1, <1>2, <1>3
<1> HIDE DEF a
<1>6. Start(id, n, threads) = a + IF id < r THEN id ELSE r
  BY <1>2, <1>4
<1>7. Start(id + 1, n, threads) = a + q + IF id + 1 < r THEN id + 1 ELSE r
  BY <1>2, <1>3, <1>4
<1>8. QED  BY <1>1, <1>4, <1>5, <1>6, <1>7

(* A later thread starts where an earlier one has ended, or behind that.   *)
LEMMA StartingLater ==
  ASSUME NEW n \in Nat, NEW threads \in Nat \ {0}, NEW i \in Nat, NEW j \in Nat, i < j
  PROVE  Start(i + 1, n, threads) <= Start(j, n, threads)
<1> DEFINE Wrong == { k \in Nat : i < k /\ ~(Start(i + 1, n, threads) <= Start(k, n, threads)) }
<1> SUFFICES ASSUME Wrong # {} PROVE FALSE
  OBVIOUS
<1>1. PICK k \in Wrong : \A y \in Wrong : k <= y
  BY Least
<1>2. /\ k \in Nat /\ i < k /\ k # i + 1 /\ k - 1 \in Nat /\ i < k - 1 /\ k = (k - 1) + 1
      /\ Start(i + 1, n, threads) \in Nat
  <2>1. i + 1 \in Nat
    OBVIOUS
  <2>2. Start(i + 1, n, threads) \in Nat
    BY <2>1, Starting
  <2>3. k \in Nat /\ i < k /\ ~(Start(i + 1, n, threads) <= Start(k, n, threads))
    OBVIOUS
  <2>4. k # i + 1
    BY <2>2, <2>3
  <2>5. QED  BY <2>2, <2>3, <2>4
<1>3. Start(i + 1, n, threads) <= Start(k - 1, n, threads)
  <2>1. k - 1 \in Wrong => k <= k - 1
    BY <1>1
  <2>2. k - 1 \notin Wrong
    BY <1>2, <2>1
  <2>3. QED  BY <1>2, <2>2
<1>4. /\ Start(k - 1, n, threads) \in Nat /\ Start(k, n, threads) \in Nat
      /\ Start(k - 1, n, threads) <= Start(k, n, threads)
  BY <1>2, Starting
<1>5. QED  BY <1>1, <1>2, <1>3, <1>4

(* However many places there are, and however many threads: each place is  *)
(* in the range of exactly one of them.                                    *)
THEOREM RangesPartition ==
  ASSUME NEW n \in Nat, NEW threads \in Nat \ {0}
  PROVE  /\ UNION { RangeOf(id, n, threads) : id \in 0 .. threads - 1 } = 0 .. n - 1
         /\ \A i, j \in 0 .. threads - 1 :
              i # j => RangeOf(i, n, threads) \cap RangeOf(j, n, threads) = {}
<1>1. ASSUME NEW id \in 0 .. threads - 1
      PROVE  /\ Start(id, n, threads) \in Nat /\ Start(id + 1, n, threads) \in Nat
             /\ Start(id + 1, n, threads) <= n
  <2>1. /\ id \in Nat /\ id + 1 \in Nat /\ id < threads
        /\ Start(id, n, threads) \in Nat /\ Start(id + 1, n, threads) \in Nat
    <3>1. id \in Nat /\ id + 1 \in Nat /\ id < threads
      OBVIOUS
    <3>2. QED  BY <3>1, Starting
  <2>2. Start(id + 1, n, threads) <= Start(threads, n, threads)
    <3>1. threads \in Nat
      OBVIOUS
    <3>2. QED  BY <2>1, <3>1, StartingLater, SMT
  <2>3. QED  BY <2>1, <2>2, Starting
<1>2. ASSUME NEW id \in 0 .. threads - 1, NEW place \in RangeOf(id, n, threads)
      PROVE  place \in 0 .. n - 1
  BY <1>1 DEF RangeOf
<1>3. ASSUME NEW place \in 0 .. n - 1
      PROVE  \E id \in 0 .. threads - 1 : place \in RangeOf(id, n, threads)
  <2> DEFINE Beyond == { k \in Nat : place < Start(k, n, threads) }
  <2>1. threads \in Beyond
    BY Starting
  <2>2. PICK k \in Beyond : \A y \in Beyond : k <= y
    BY <2>1, Least
  <2>3. k # 0 /\ k \in Nat /\ k <= threads /\ place < Start(k, n, threads)
    BY <2>1, <2>2, Starting
  <2>4. k - 1 \in 0 .. threads - 1 /\ (k - 1) + 1 = k /\ k - 1 \in Nat
    BY <2>3
  <2>5. ~(place < Start(k - 1, n, threads))
    BY <2>2, <2>4
  <2>6. Start(k - 1, n, threads) \in Nat /\ Start(k, n, threads) \in Nat
    BY <2>3, <2>4, Starting
  <2>7. place \in RangeOf(k - 1, n, threads)
    BY <2>3, <2>4, <2>5, <2>6 DEF RangeOf
  <2>8. QED  BY <2>4, <2>7
<1>4. ASSUME NEW i \in 0 .. threads - 1, NEW j \in 0 .. threads - 1, i < j
      PROVE  RangeOf(i, n, threads) \cap RangeOf(j, n, threads) = {}
  <2>1. Start(i + 1, n, threads) <= Start(j, n, threads)
    BY <1>4, StartingLater
  <2>2. QED  BY <1>1, <2>1 DEF RangeOf
<1>5. \A i, j \in 0 .. threads - 1 : i # j => i < j \/ j < i
  OBVIOUS
<1>6. QED  BY <1>2, <1>3, <1>4, <1>5

-----------------------------------------------------------------------------
(* combinadic_nCr computes Pascal's triangle.                              *)
LEMMA Binomials ==
  /\ nCr \in [Nat -> [Nat -> Nat]]
  /\ \A n, r \in Nat : nCr[n][r] = IF n < r THEN 0
                                   ELSE IF r = 0 \/ r = n THEN 1
                                   ELSE nCr[n - 1][r - 1] + nCr[n - 1][r]
<1> DEFINE Row == [Nat -> Nat]
           ValueIn(n, r, row) == IF n < r THEN 0
                                 ELSE IF r = 0 \/ r = n THEN 1
                                 ELSE row[r - 1] + row[r]
           RowAfter(n, row) == [r \in Nat |-> ValueIn(n + 1, r, row)]
           step == [n \in Nat |-> [row \in Row |-> RowAfter(n, row)]]
           first == [r \in Nat |-> IF r = 0 THEN 1 ELSE 0]
<1>1. ASSUME NEW n \in Nat, NEW row \in Row, NEW r \in Nat
      PROVE  ValueIn(n, r, row) \in Nat
  OBVIOUS
<1>2. first \in Row
  OBVIOUS
<1>3. step \in [Nat -> [Row -> Row]]
  <2>1. ASSUME NEW n \in Nat, NEW row \in Row
        PROVE  RowAfter(n, row) \in Row
    <3>1. n + 1 \in Nat
      OBVIOUS
    <3>2. \A r \in Nat : ValueIn(n + 1, r, row) \in Nat
      BY <1>1, <3>1
    <3> HIDE DEF ValueIn
    <3>3. QED  BY <3>2
  <2> HIDE DEF Row, RowAfter
  <2>2. QED  BY <2>1
<1>4. \E g : Follows(g, Row, first, step)
  <2> HIDE DEF Row, first, step, RowAfter, ValueIn
  <2>1. QED  BY <1>2, <1>3, Recursion
<1>5. PICK g : /\ g \in [Nat -> Row] /\ g[0] = first
               /\ \A n \in Nat : g[n + 1] = step[n][g[n]]
  BY <1>4 DEF Follows
<1>6. ASSUME NEW n \in Nat
      PROVE  g[n] = [r \in Nat |-> CASE n < r -> 0
                                     [] n >= r /\ (r = 0 \/ r = n) -> 1
                                     [] OTHER -> g[n - 1][r - 1] + g[n - 1][r]]
  <2>1. CASE n = 0
    <3>1. g[n] = [r \in Nat |-> IF r = 0 THEN 1 ELSE 0]
      BY <1>5, <2>1
    <3>2. \A r \in Nat : (IF r = 0 THEN 1 ELSE 0)
                           = CASE n < r -> 0
                               [] n >= r /\ (r = 0 \/ r = n) -> 1
                               [] OTHER -> g[n - 1][r - 1] + g[n - 1][r]
      BY <2>1
    <3>3. QED  BY <3>1, <3>2
  <2>2. CASE n # 0
    <3>1. n - 1 \in Nat /\ (n - 1) + 1 = n
      BY <2>2
    <3>2. g[n - 1] \in Row
      BY <1>5, <3>1
    <3>3. g[n] = RowAfter(n - 1, g[n - 1])
      <4>1. g[(n - 1) + 1] = step[n - 1][g[n - 1]]
        BY <1>5, <3>1
      <4> HIDE DEF RowAfter, Row
      <4>2. step[n - 1][g[n - 1]] = RowAfter(n - 1, g[n - 1])
        BY <3>1, <3>2
      <4>3. QED  BY <3>1, <4>1, <4>2
    <3>4. g[n] = [r \in Nat |-> ValueIn(n, r, g[n - 1])]
      BY <3>1, <3>3
    <3>5. \A r \in Nat : ValueIn(n, r, g[n - 1])
                           = CASE n < r -> 0
                               [] n >= r /\ (r = 0 \/ r = n) -> 1
                               [] OTHER -> g[n - 1][r - 1] + g[n - 1][r]
      OBVIOUS
    <3> HIDE DEF ValueIn
    <3>6. QED  BY <3>4, <3>5
  <2>3. QED  BY <2>1, <2>2
<1> DEFINE Solves(c) == c = [n \in Nat |-> [r \in Nat |->
                               CASE n < r -> 0
                                 [] n >= r /\ (r = 0 \/ r = n) -> 1
                                 [] OTHER -> c[n - 1][r - 1] + c[n - 1][r]]]
<1>7. Solves(g)
  BY <1>5, <1>6
<1>8. nCr = CHOOSE c : Solves(c)
  BY DEF nCr
<1>9. Solves(nCr)
  <2> HIDE DEF Solves
  <2>1. QED  BY <1>7, <1>8
<1>10. nCr = [n \in Nat |-> [r \in Nat |->
                CASE n < r -> 0
                  [] n >= r /\ (r = 0 \/ r = n) -> 1
                  [] OTHER -> nCr[n - 1][r - 1] + nCr[n - 1][r]]]
  BY <1>9
<1> HIDE DEF Solves, first, step, RowAfter, ValueIn
<1>11. ASSUME NEW n \in Nat, NEW r \in Nat
       PROVE  nCr[n][r] = IF n < r THEN 0
                          ELSE IF r = 0 \/ r = n THEN 1
                          ELSE nCr[n - 1][r - 1] + nCr[n - 1][r]
  <2>1. nCr[n] = [i \in Nat |->
                    CASE n < i -> 0
                      [] n >= i /\ (i = 0 \/ i = n) -> 1
                      [] OTHER -> nCr[n - 1][i - 1] + nCr[n - 1][i]]
    BY <1>10
  <2>2. nCr[n][r] = CASE n < r -> 0
                      [] n >= r /\ (r = 0 \/ r = n) -> 1
                      [] OTHER -> nCr[n - 1][r - 1] + nCr[n - 1][r]
    BY <2>1
  <2>3. QED  BY <2>2
<1> DEFINE Bad == { n \in Nat : nCr[n] \notin Row }
<1>12. Bad = {}
  <2> SUFFICES ASSUME Bad # {} PROVE FALSE
    OBVIOUS
  <2>1. PICK n \in Bad : \A y \in Bad : n <= y
    <3> HIDE DEF Bad
    <3>1. Bad \in SUBSET Nat
      BY DEF Bad
    <3>2. QED  BY <3>1, Least
  <2>2. n \in Nat /\ (n # 0 => n - 1 \in Nat)
    OBVIOUS
  <2>3. n # 0 => nCr[n - 1] \in Row
    <3>1. n - 1 \in Bad => n <= n - 1
      BY <2>1
    <3>2. QED  BY <2>2, <3>1
  <2>4. ASSUME NEW r \in Nat
        PROVE  nCr[n][r] \in Nat
    <3>1. CASE n < r \/ r = 0 \/ r = n
      BY <1>11, <2>2, <3>1
    <3>2. CASE ~(n < r \/ r = 0 \/ r = n)
      <4>1. n # 0 /\ r - 1 \in Nat
        BY <2>2, <3>2
      <4>2. nCr[n - 1][r - 1] \in Nat /\ nCr[n - 1][r] \in Nat
        BY <2>3, <4>1
      <4>3. nCr[n][r] = nCr[n - 1][r - 1] + nCr[n - 1][r]
        BY <1>11, <2>2, <3>2
      <4>4. QED  BY <4>2, <4>3
    <3>3. QED  BY <3>1, <3>2
  <2>5. \E f : nCr[n] = [i \in Nat |-> f[i]]
    <3>1. DOMAIN nCr[n] = Nat /\ nCr[n] = [i \in Nat |-> nCr[n][i]]
      BY <1>10, <2>2
    <3>2. QED  BY <3>1
  <2>6. nCr[n] \in Row
    BY <2>4, <2>5
  <2>7. QED  BY <2>6
<1>13. nCr \in [Nat -> Row]
  <2>1. \A n \in Nat : nCr[n] \in Row
    BY <1>12
  <2>2. \E f : nCr = [n \in Nat |-> f[n]]
    BY <1>10
  <2> HIDE DEF Row
  <2>3. QED  BY <2>1, <2>2
<1>14. QED  BY <1>11, <1>13

(* The edges of the triangle.                                              *)
LEMMA Edges ==
  \A n \in Nat : /\ nCr[n][0] = 1 /\ nCr[n][n] = 1
                 /\ \A r \in Nat : nCr[n][r] \in Nat /\ (n < r => nCr[n][r] = 0)
<1> SUFFICES ASSUME NEW n \in Nat
             PROVE  /\ nCr[n][0] = 1 /\ nCr[n][n] = 1
                    /\ \A r \in Nat : nCr[n][r] \in Nat /\ (n < r => nCr[n][r] = 0)
  OBVIOUS
<1>1. nCr[n][0] = IF n < 0 THEN 0 ELSE IF 0 = 0 \/ 0 = n THEN 1
                  ELSE nCr[n - 1][0 - 1] + nCr[n - 1][0]
  BY Binomials
<1>2. nCr[n][n] = IF n < n THEN 0 ELSE IF n = 0 \/ n = n THEN 1
                  ELSE nCr[n - 1][n - 1] + nCr[n - 1][n]
  BY Binomials
<1>3. nCr[n][0] = 1 /\ nCr[n][n] = 1
  BY <1>1, <1>2
<1>4. ASSUME NEW r \in Nat
      PROVE  nCr[n][r] \in Nat /\ (n < r => nCr[n][r] = 0)
  BY Binomials
<1>5. QED  BY <1>3, <1>4

(* The identity that the rows of the triangle are computed by, and what    *)
(* follows from it.                                                        *)
LEMMA Pascal ==
  ASSUME NEW n \in Nat, NEW r \in Nat
  PROVE  /\ nCr[n][r] \in Nat
         /\ nCr[n][0] = 1
         /\ n < r => nCr[n][r] = 0
         /\ nCr[n + 1][r + 1] = nCr[n][r] + nCr[n][r + 1]
         /\ nCr[n][r] <= nCr[n + 1][r]
<1>1. /\ n + 1 \in Nat /\ r + 1 \in Nat
      /\ (n + 1) - 1 = n /\ (r + 1) - 1 = r
  OBVIOUS
<1>2. nCr[n][0] = 1 /\ nCr[n][r] \in Nat /\ nCr[n][r + 1] \in Nat /\ nCr[n + 1][r] \in Nat
  BY <1>1, Edges
<1>3. n < r => nCr[n][r] = 0
  BY Edges
<1>4. nCr[n + 1][r + 1] = nCr[n][r] + nCr[n][r + 1]
  <2>1. nCr[n + 1][r + 1] = IF n + 1 < r + 1 THEN 0
                            ELSE IF r + 1 = 0 \/ r + 1 = n + 1 THEN 1
                            ELSE nCr[(n + 1) - 1][(r + 1) - 1] + nCr[(n + 1) - 1][r + 1]
    BY <1>1, Binomials
  <2>2. /\ nCr[n][r] = IF n < r THEN 0 ELSE IF r = 0 \/ r = n THEN 1
                       ELSE nCr[n - 1][r - 1] + nCr[n - 1][r]
        /\ n < r + 1 => nCr[n][r + 1] = 0
    BY <1>1, Binomials
  <2>3. QED  BY <1>1, <2>1, <2>2
<1>5. nCr[n][r] <= nCr[n + 1][r]
  <2>1. CASE r = 0
    <3>1. nCr[n][0] = 1 /\ nCr[n + 1][0] = 1
      BY <1>1, Edges
    <3>2. QED  BY <2>1, <3>1
  <2>2. CASE r # 0
    <3>1. r - 1 \in Nat /\ (r - 1) + 1 = r
      BY <2>2
    <3>2. nCr[n + 1][r] = IF n + 1 < r THEN 0
                          ELSE IF r = 0 \/ r = n + 1 THEN 1
                          ELSE nCr[(n + 1) - 1][r - 1] + nCr[(n + 1) - 1][r]
      BY <1>1, Binomials
    <3>3. nCr[n][r - 1] \in Nat
      BY <3>1, Binomials
    <3>4. n < r => nCr[n][r] = 0
      BY <1>3
    <3>5. QED  BY <1>1, <1>2, <2>2, <3>2, <3>3, <3>4
  <2>3. QED  BY <2>1, <2>2
<1>6. QED  BY <1>2, <1>3, <1>4, <1>5

(* More columns to choose from, more combinations; and there are some      *)
(* where there are enough columns.                                         *)
LEMMA BinomialsGrow ==
  ASSUME NEW r \in Nat, NEW m \in Nat, NEW n \in Nat, m <= n
  PROVE  nCr[m][r] <= nCr[n][r] /\ (r <= n => nCr[n][r] >= 1)
<1>1. ASSUME NEW a \in Nat, NEW b \in Nat, NEW i \in Nat, a <= b
      PROVE  nCr[a][i] <= nCr[b][i]
  <2> DEFINE Bad == { c \in Nat : a <= c /\ ~(nCr[a][i] <= nCr[c][i]) }
  <2>1. Bad = {}
    <3> SUFFICES ASSUME Bad # {} PROVE FALSE
      OBVIOUS
    <3>1. PICK c \in Bad : \A y \in Bad : c <= y
      <4> HIDE DEF Bad
      <4>1. Bad \in SUBSET Nat
        BY DEF Bad
      <4>2. QED  BY <4>1, Least
    <3>2. nCr[a][i] \in Nat /\ nCr[c][i] \in Nat
      <4>1. a \in Nat /\ c \in Nat /\ i \in Nat
        OBVIOUS
      <4>2. QED  BY <4>1, Edges
    <3>3. c # a /\ c - 1 \in Nat /\ a <= c - 1 /\ (c - 1) + 1 = c
      BY <3>2
    <3>4. c - 1 \in Bad => c <= c - 1
      BY <3>1
    <3>5. nCr[a][i] <= nCr[c - 1][i]
      BY <3>3, <3>4
    <3>6. nCr[c - 1][i] \in Nat /\ nCr[c - 1][i] <= nCr[(c - 1) + 1][i]
      BY <3>3, Pascal
    <3>7. nCr[a][i] <= nCr[c][i]
      BY <3>2, <3>3, <3>5, <3>6
    <3>8. QED  BY <3>7
  <2>2. QED  BY <1>1, <2>1
<1>2. ASSUME r <= n
      PROVE  nCr[n][r] >= 1
  <2>1. nCr[r][r] = 1
    BY Edges
  <2>2. nCr[r][r] <= nCr[n][r]
    BY <1>1, <1>2
  <2>3. nCr[n][r] \in Nat
    BY Binomials
  <2>4. QED  BY <2>1, <2>2, <2>3
<1>3. QED  BY <1>1, <1>2
-----------------------------------------------------------------------------
(* combinadic_decode.  The binary search finds the greatest column.        *)
LEMMA GreatestIs ==
  ASSUME NEW columns \in Nat, NEW i \in 0 .. columns, NEW rest \in Nat
  PROVE  LET c == Greatest(i, rest, columns)
         IN /\ c \in i .. columns
            /\ nCr[c][i + 1] <= rest
            /\ c = columns \/ nCr[c + 1][i + 1] > rest
<1> DEFINE Stop == { c \in Nat : i <= c /\ (c >= columns \/ nCr[c + 1][i + 1] > rest) }
<1>1. PICK c \in Stop : \A y \in Stop : c <= y
  <2>1. columns \in Stop
    OBVIOUS
  <2> HIDE DEF Stop
  <2>2. Stop \in SUBSET Nat
    BY DEF Stop
  <2>3. QED  BY <2>1, <2>2, Least
<1>2. c \in i .. columns /\ (c = columns \/ nCr[c + 1][i + 1] > rest)
  <2>1. columns \in Stop
    OBVIOUS
  <2>2. c <= columns
    BY <1>1, <2>1
  <2>3. QED  BY <2>2
<1>3. nCr[c][i + 1] <= rest
  <2>1. CASE c = i
    <3>1. i + 1 \in Nat /\ c \in Nat /\ c < i + 1
      BY <2>1
    <3>2. nCr[c][i + 1] = 0
      BY <3>1, Edges
    <3>3. QED  BY <3>2
  <2>2. CASE c # i
    <3>1. c - 1 \in Nat /\ i <= c - 1 /\ (c - 1) + 1 = c /\ i + 1 \in Nat
      BY <1>2, <2>2
    <3>2. c - 1 \notin Stop
      <4>1. c - 1 \in Stop => c <= c - 1
        BY <1>1
      <4>2. QED  BY <3>1, <4>1
    <3>3. ~(nCr[(c - 1) + 1][i + 1] > rest)
      BY <3>1, <3>2
    <3>4. nCr[c][i + 1] \in Nat
      BY <3>1, Edges
    <3>5. QED  BY <3>1, <3>3, <3>4
  <2>3. QED  BY <2>1, <2>2
<1>4. QED  BY <1>2, <1>3 DEF Greatest

(* There is only one.                                                      *)
LEMMA GreatestOnly ==
  ASSUME NEW columns \in Nat, NEW i \in 0 .. columns, NEW rest \in Nat,
         NEW c \in i .. columns, nCr[c][i + 1] <= rest, nCr[c + 1][i + 1] > rest
  PROVE  Greatest(i, rest, columns) = c
<1> DEFINE d == Greatest(i, rest, columns)
<1>1. d \in i .. columns /\ nCr[d][i + 1] <= rest /\ (d = columns \/ nCr[d + 1][i + 1] > rest)
  BY GreatestIs
<1> HIDE DEF d
<1>2. /\ c \in Nat /\ d \in Nat /\ i + 1 \in Nat /\ c + 1 \in Nat /\ d + 1 \in Nat
  BY <1>1
<1>3. /\ nCr[c][i + 1] \in Nat /\ nCr[d][i + 1] \in Nat
      /\ nCr[c + 1][i + 1] \in Nat /\ nCr[d + 1][i + 1] \in Nat
  BY <1>2, Edges
<1>4. ~(c < d)
  <2> SUFFICES ASSUME c < d PROVE FALSE
    OBVIOUS
  <2>1. c + 1 <= d
    BY <1>2
  <2>2. nCr[c + 1][i + 1] <= nCr[d][i + 1]
    BY <1>2, <2>1, BinomialsGrow
  <2>3. QED  BY <1>1, <1>3, <2>2
<1>5. ~(d < c)
  <2> SUFFICES ASSUME d < c PROVE FALSE
    OBVIOUS
  <2>1. d + 1 <= c /\ d # columns
    BY <1>1, <1>2
  <2>2. nCr[d + 1][i + 1] <= nCr[c][i + 1]
    BY <1>2, <2>1, BinomialsGrow
  <2>3. QED  BY <1>1, <1>3, <2>1, <2>2
<1>6. QED  BY <1>2, <1>4, <1>5 DEF d

(* What is left of a number, column by column.                             *)
Left(rest, number, k, columns) ==
  /\ rest \in [0 .. k - 1 -> Nat]
  /\ rest[k - 1] = number
  /\ \A i \in 0 .. k - 2 :
       rest[i] = rest[i + 1] - nCr[Greatest(i + 1, rest[i + 1], columns)][i + 2]

(* The rests that combinadic_decode computes are these.                    *)
LEMMA RestsAre ==
  ASSUME NEW columns \in Nat, NEW k \in 1 .. columns, NEW number \in Nat
  PROVE  Left(Rests(number, k, columns), number, k, columns)
<1> DEFINE Less(i, x) == x - nCr[Greatest(i, x, columns)][i + 1]
           Solves(c) == c = [i \in 0 .. k - 1 |->
                               IF i = k - 1 THEN number
                               ELSE c[i + 1] - nCr[Greatest(i + 1, c[i + 1], columns)][i + 2]]
           step == [n \in Nat |-> [x \in Nat |-> IF n < k THEN Less(k - 1 - n, x) ELSE 0]]
<1>1. ASSUME NEW i \in 0 .. columns, NEW x \in Nat
      PROVE  Less(i, x) \in Nat
  <2> DEFINE c == Greatest(i, x, columns)
  <2>1. c \in i .. columns /\ nCr[c][i + 1] <= x
    BY GreatestIs
  <2>2. nCr[c][i + 1] \in Nat
    <3> HIDE DEF c
    <3>1. c \in Nat /\ i + 1 \in Nat
      BY <2>1
    <3>2. QED  BY <3>1, Edges
  <2>3. QED  BY <2>1, <2>2
<1>2. step \in [Nat -> [Nat -> Nat]]
  <2>1. ASSUME NEW n \in Nat, NEW x \in Nat
        PROVE  (IF n < k THEN Less(k - 1 - n, x) ELSE 0) \in Nat
    <3>1. n < k => k - 1 - n \in 0 .. columns
      OBVIOUS
    <3> HIDE DEF Less
    <3>2. QED  BY <1>1, <3>1
  <2> HIDE DEF Less
  <2>2. QED  BY <2>1
<1>3. PICK g : /\ g \in [Nat -> Nat] /\ g[0] = number
               /\ \A n \in Nat : g[n + 1] = step[n][g[n]]
  <2>1. \E g : Follows(g, Nat, number, step)
    <3> HIDE DEF step
    <3>1. QED  BY <1>2, Recursion
  <2>2. QED  BY <2>1 DEF Follows
<1> DEFINE r == [i \in 0 .. k - 1 |-> g[k - 1 - i]]
<1>4. Solves(r)
  <2>1. ASSUME NEW i \in 0 .. k - 1, i # k - 1
        PROVE  r[i] = r[i + 1] - nCr[Greatest(i + 1, r[i + 1], columns)][i + 2]
    <3> DEFINE n == k - 2 - i
    <3>1. /\ n \in Nat /\ n < k /\ k - 1 - n = i + 1 /\ n + 1 = k - 1 - i
          /\ i + 1 \in 0 .. k - 1 /\ k - 1 - (i + 1) = n
      BY <2>1
    <3>2. g[n + 1] = step[n][g[n]] /\ g[n] \in Nat
      BY <1>3, <3>1
    <3> HIDE DEF n, Less
    <3>3. step[n][g[n]] = Less(k - 1 - n, g[n])
      BY <3>1, <3>2
    <3>4. r[i] = g[n + 1] /\ r[i + 1] = g[n]
      BY <3>1
    <3>5. r[i] = Less(i + 1, r[i + 1])
      BY <3>1, <3>2, <3>3, <3>4
    <3>6. (i + 1) + 1 = i + 2
      OBVIOUS
    <3>7. QED  BY <3>5, <3>6 DEF Less
  <2>2. r[k - 1] = number
    BY <1>3
  <2> DEFINE v(i) == IF i = k - 1 THEN number
                     ELSE r[i + 1] - nCr[Greatest(i + 1, r[i + 1], columns)][i + 2]
  <2>3. \A i \in 0 .. k - 1 : r[i] = v(i)
    BY <2>1, <2>2
  <2>4. r = [i \in 0 .. k - 1 |-> r[i]]
    OBVIOUS
  <2> HIDE DEF r, v
  <2>5. r = [i \in 0 .. k - 1 |-> v(i)]
    BY <2>3, <2>4
  <2>6. QED  BY <2>5 DEF v
<1> DEFINE rest == Rests(number, k, columns)
<1>5. rest = CHOOSE c : Solves(c)
  BY DEF Rests
<1>6. Solves(rest)
  <2> HIDE DEF Solves, rest
  <2>1. QED  BY <1>4, <1>5
<1>7. /\ DOMAIN rest = 0 .. k - 1 /\ rest = [i \in 0 .. k - 1 |-> rest[i]]
      /\ \A i \in 0 .. k - 1 :
           rest[i] = IF i = k - 1 THEN number ELSE Less(i + 1, rest[i + 1])
  <2> HIDE DEF rest
  <2>1. \A i \in 0 .. k - 1 : i + 2 = (i + 1) + 1
    OBVIOUS
  <2>2. QED  BY <1>6, <2>1
<1> HIDE DEF Solves, rest, Less
<1>8. ASSUME NEW i \in 0 .. k - 1
      PROVE  rest[i] \in Nat
  <2> DEFINE Bad == { n \in Nat : n <= k - 1 /\ rest[k - 1 - n] \notin Nat }
  <2>1. Bad = {}
    <3> SUFFICES ASSUME Bad # {} PROVE FALSE
      OBVIOUS
    <3>1. PICK n \in Bad : \A y \in Bad : n <= y
      <4> HIDE DEF Bad
      <4>1. Bad \in SUBSET Nat
        BY DEF Bad
      <4>2. QED  BY <4>1, Least
    <3>2. n # 0
      <4>1. k - 1 \in 0 .. k - 1
        OBVIOUS
      <4>2. rest[k - 1] \in Nat
        BY <1>7, <4>1
      <4>3. k - 1 - 0 = k - 1
        OBVIOUS
      <4>4. QED  BY <4>2, <4>3
    <3>3. n - 1 \in Nat /\ n - 1 <= k - 1 /\ (k - 1 - n) + 1 = k - 1 - (n - 1)
      BY <3>2
    <3>4. n - 1 \in Bad => n <= n - 1
      BY <3>1
    <3>5. rest[(k - 1 - n) + 1] \in Nat
      BY <3>3, <3>4
    <3>6. k - 1 - n \in 0 .. k - 1 /\ k - 1 - n # k - 1 /\ (k - 1 - n) + 1 \in 0 .. columns
      BY <3>2, <3>3
    <3>7. rest[k - 1 - n] \in Nat
      BY <1>1, <1>7, <3>5, <3>6
    <3>8. QED  BY <3>7
  <2>2. k - 1 - i \in Nat /\ k - 1 - i <= k - 1 /\ k - 1 - (k - 1 - i) = i
    OBVIOUS
  <2>3. QED  BY <2>1, <2>2
<1>9. rest \in [0 .. k - 1 -> Nat]
  BY <1>7, <1>8
<1>10. rest[k - 1] = number
  <2>1. k - 1 \in 0 .. k - 1
    OBVIOUS
  <2>2. QED  BY <1>7, <2>1
<1>11. ASSUME NEW i \in 0 .. k - 2
       PROVE  rest[i] = rest[i + 1] - nCr[Greatest(i + 1, rest[i + 1], columns)][i + 2]
  <2>1. i \in 0 .. k - 1 /\ i # k - 1 /\ (i + 1) + 1 = i + 2
    OBVIOUS
  <2>2. rest[i] = Less(i + 1, rest[i + 1])
    BY <1>7, <2>1
  <2>3. QED  BY <2>1, <2>2 DEF Less
<1>12. Left(rest, number, k, columns)
  BY <1>9, <1>10, <1>11 DEF Left
<1>13. QED  BY <1>12 DEF rest
-----------------------------------------------------------------------------
(* A combination of k columns, and the part r[i] of its number that its    *)
(* first i columns make up: the number of the combination is r[k].         *)
Digits(col, r, k, columns) ==
  /\ col \in [1 .. k -> Nat] /\ r \in [1 .. k -> Nat]
  /\ \A i \in 1 .. k : /\ col[i] < columns
                       /\ nCr[col[i]][i] <= r[i] /\ r[i] < nCr[col[i] + 1][i]
  /\ \A i \in 1 .. k - 1 : col[i] < col[i + 1] /\ r[i] = r[i + 1] - nCr[col[i + 1]][i + 1]

(* Decoding a number gives a combination with this number.                 *)
LEMMA DecodeDigits ==
  ASSUME NEW columns \in Nat, NEW k \in 1 .. columns,
         NEW number \in Nat, number < nCr[columns][k]
  PROVE  \E r : Digits(Decode(number, k, columns), r, k, columns) /\ r[k] = number
<1> DEFINE rest == Rests(number, k, columns)
           col == Decode(number, k, columns)
           r == [i \in 1 .. k |-> rest[i - 1]]
           top(i) == IF i = k THEN columns ELSE col[i + 1]
<1>1. /\ rest \in [0 .. k - 1 -> Nat] /\ rest[k - 1] = number
      /\ \A i \in 0 .. k - 2 :
           rest[i] = rest[i + 1] - nCr[Greatest(i + 1, rest[i + 1], columns)][i + 2]
  <2>1. Left(rest, number, k, columns)
    BY RestsAre
  <2>2. QED  BY <2>1, Zenon DEF Left
<1>2. col = [i \in 1 .. k |-> Greatest(i - 1, rest[i - 1], columns)]
  BY DEF Decode
<1> HIDE DEF rest, col
<1>3. /\ r \in [1 .. k -> Nat] /\ r[k] = number
      /\ \A i \in 1 .. k : col[i] = Greatest(i - 1, r[i], columns)
  <2>1. \A i \in 1 .. k : i - 1 \in 0 .. k - 1
    OBVIOUS
  <2>2. k \in 1 .. k
    OBVIOUS
  <2>3. QED  BY <1>1, <1>2, <2>1, <2>2
<1>4. ASSUME NEW i \in 1 .. k - 1
      PROVE  r[i] = r[i + 1] - nCr[col[i + 1]][i + 1]
  <2>1. /\ i - 1 \in 0 .. k - 2 /\ (i - 1) + 1 = i /\ (i - 1) + 2 = i + 1
        /\ i + 1 \in 1 .. k /\ (i + 1) - 1 = i /\ i \in 1 .. k
    OBVIOUS
  <2>2. rest[i - 1] = rest[i] - nCr[Greatest(i, rest[i], columns)][i + 1]
    BY <1>1, <2>1
  <2>3. r[i] = rest[i - 1] /\ r[i + 1] = rest[i]
    BY <2>1
  <2>4. col[i + 1] = Greatest(i, r[i + 1], columns)
    BY <1>3, <2>1
  <2>5. QED  BY <2>2, <2>3, <2>4
<1>5. ASSUME NEW i \in 1 .. k
      PROVE  /\ col[i] \in i - 1 .. columns /\ col[i] \in Nat
             /\ nCr[col[i]][i] <= r[i]
             /\ col[i] = columns \/ nCr[col[i] + 1][i] > r[i]
  <2>1. i - 1 \in 0 .. columns /\ (i - 1) + 1 = i /\ r[i] \in Nat
    BY <1>3
  <2> HIDE DEF r
  <2>2. LET c == Greatest(i - 1, r[i], columns)
        IN /\ c \in i - 1 .. columns
           /\ nCr[c][(i - 1) + 1] <= r[i]
           /\ c = columns \/ nCr[c + 1][(i - 1) + 1] > r[i]
    BY <2>1, GreatestIs
  <2>3. QED  BY <1>3, <2>1, <2>2
<1> HIDE DEF r
<1>6. ASSUME NEW i \in 1 .. k, top(i) \in Nat, top(i) <= columns, r[i] < nCr[top(i)][i]
      PROVE  col[i] < top(i) /\ r[i] < nCr[col[i] + 1][i]
  <2> DEFINE t == top(i)
  <2>1. t \in Nat /\ t <= columns /\ r[i] < nCr[t][i]
    BY <1>6
  <2> HIDE DEF t
  <2>2. /\ col[i] \in Nat /\ i \in Nat /\ r[i] \in Nat
        /\ nCr[col[i]][i] \in Nat /\ nCr[t][i] \in Nat
    BY SMTT(60), <1>3, <1>5, <2>1, Edges
  <2>3. col[i] < t
    <3> SUFFICES ASSUME t <= col[i] PROVE FALSE
      BY <2>1, <2>2
    <3>1. nCr[t][i] <= nCr[col[i]][i]
      BY <2>1, <2>2, BinomialsGrow
    <3>2. QED  BY <1>5, <2>1, <2>2, <3>1
  <2>4. col[i] # columns
    BY <2>1, <2>2, <2>3
  <2>5. QED  BY <1>5, <2>3, <2>4 DEF t
<1> DEFINE Bad == { n \in Nat : n <= k - 1 /\ ~(r[k - n] < nCr[top(k - n)][k - n]) }
<1>7. Bad = {}
  <2> SUFFICES ASSUME Bad # {} PROVE FALSE
    OBVIOUS
  <2>1. PICK n \in Bad : \A y \in Bad : n <= y
    <3> HIDE DEF Bad
    <3>1. Bad \in SUBSET Nat
      BY DEF Bad
    <3>2. QED  BY <3>1, Least
  <2>2. n \in Nat /\ n <= k - 1 /\ ~(r[k - n] < nCr[top(k - n)][k - n])
    OBVIOUS
  <2>3. n # 0
    <3>1. k - 0 = k
      OBVIOUS
    <3>2. r[k] < nCr[columns][k]
      BY <1>3
    <3>3. QED  BY <2>2, <3>1, <3>2
  <2> DEFINE i == k - n
  <2>4. /\ i \in 1 .. k - 1 /\ i \in 1 .. k /\ i + 1 \in 1 .. k /\ k - (n - 1) = i + 1
        /\ n - 1 \in Nat /\ n - 1 <= k - 1 /\ i # k
    BY <2>2, <2>3
  <2>5. r[i + 1] < nCr[top(i + 1)][i + 1]
    <3>1. n - 1 \in Bad => n <= n - 1
      BY <2>1
    <3>2. n - 1 \notin Bad
      BY <2>4, <3>1
    <3> HIDE DEF i, top
    <3>3. QED  BY <2>4, <3>2
  <2> HIDE DEF i
  <2>6. top(i + 1) \in Nat /\ top(i + 1) <= columns
    <3>1. CASE i + 1 = k
      BY <3>1
    <3>2. CASE i + 1 # k
      <4>1. (i + 1) + 1 \in 1 .. k
        BY <2>4, <3>2
      <4>2. top(i + 1) = col[(i + 1) + 1]
        BY <3>2
      <4> HIDE DEF top
      <4>3. QED  BY <1>5, <4>1, <4>2
    <3>3. QED  BY <3>1, <3>2
  <2>7. r[i + 1] < nCr[col[i + 1] + 1][i + 1]
    <3> HIDE DEF top
    <3>1. QED  BY <1>6, <2>4, <2>5, <2>6
  <2>8. r[i] = r[i + 1] - nCr[col[i + 1]][i + 1]
    BY <1>4, <2>4
  <2>9. nCr[col[i + 1] + 1][i + 1] = nCr[col[i + 1]][i] + nCr[col[i + 1]][i + 1]
    <3>1. col[i + 1] \in Nat /\ i \in Nat
      BY <1>5, <2>4
    <3>2. QED  BY <3>1, Pascal
  <2>10. r[i] < nCr[col[i + 1]][i]
    <3>1. col[i + 1] \in Nat /\ r[i + 1] \in Nat /\ i \in Nat /\ i + 1 \in Nat
      BY SMTT(30), <1>3, <1>5, <2>4
    <3>2. nCr[col[i + 1]][i] \in Nat /\ nCr[col[i + 1]][i + 1] \in Nat
      BY <3>1, Edges
    <3>3. QED  BY <2>7, <2>8, <2>9, <3>1, <3>2
  <2>11. top(i) = col[i + 1]
    BY <2>4
  <2>12. QED  BY <2>2, <2>10, <2>11 DEF i
<1>8. ASSUME NEW i \in 1 .. k
      PROVE  /\ col[i] < columns /\ r[i] < nCr[col[i] + 1][i]
             /\ i # k => col[i] < col[i + 1]
  <2>1. r[i] < nCr[top(i)][i]
    <3>1. k - i \in Nat /\ k - i <= k - 1 /\ k - (k - i) = i
      OBVIOUS
    <3> HIDE DEF top
    <3>2. k - i \notin Bad
      BY <1>7
    <3>3. QED  BY <3>1, <3>2
  <2>2. top(i) \in Nat /\ top(i) <= columns
    <3>1. CASE i = k
      BY <3>1
    <3>2. CASE i # k
      <4>1. i + 1 \in 1 .. k /\ top(i) = col[i + 1]
        BY <3>2
      <4> HIDE DEF top
      <4>2. QED  BY <1>5, <4>1
    <3>3. QED  BY <3>1, <3>2
  <2>3. i # k => top(i) = col[i + 1]
    OBVIOUS
  <2> HIDE DEF top
  <2>4. col[i] < top(i) /\ r[i] < nCr[col[i] + 1][i]
    BY <1>6, <2>1, <2>2
  <2>5. col[i] \in Nat
    BY <1>5
  <2>6. QED  BY <2>2, <2>3, <2>4, <2>5
<1>9. col \in [1 .. k -> Nat]
  BY <1>2, <1>5
<1>10. ASSUME NEW i \in 1 .. k - 1
       PROVE  col[i] < col[i + 1]
  BY <1>8
<1>11. Digits(col, r, k, columns)
  BY <1>3, <1>4, <1>5, <1>8, <1>9, <1>10 DEF Digits
<1>12. QED  BY <1>3, <1>11 DEF col
(* ... and a combination is what its number decodes to.                    *)
LEMMA DigitsDecode ==
  ASSUME NEW columns \in Nat, NEW k \in 1 .. columns, NEW col, NEW r,
         Digits(col, r, k, columns)
  PROVE  Decode(r[k], k, columns) = col
<1> DEFINE rest == Rests(r[k], k, columns)
<1>1. /\ col \in [1 .. k -> Nat] /\ r \in [1 .. k -> Nat] /\ r[k] \in Nat
      /\ \A i \in 1 .. k : /\ col[i] < columns
                           /\ nCr[col[i]][i] <= r[i] /\ r[i] < nCr[col[i] + 1][i]
      /\ \A i \in 1 .. k - 1 : col[i] < col[i + 1] /\ r[i] = r[i + 1] - nCr[col[i + 1]][i + 1]
  BY DEF Digits
<1>2. /\ rest \in [0 .. k - 1 -> Nat] /\ rest[k - 1] = r[k]
      /\ \A i \in 0 .. k - 2 :
           rest[i] = rest[i + 1] - nCr[Greatest(i + 1, rest[i + 1], columns)][i + 2]
  <2>1. Left(rest, r[k], k, columns)
    BY <1>1, RestsAre
  <2>2. QED  BY <2>1, Zenon DEF Left
<1>3. Decode(r[k], k, columns) = [i \in 1 .. k |-> Greatest(i - 1, rest[i - 1], columns)]
  BY DEF Decode
<1> HIDE DEF rest
<1>4. ASSUME NEW i \in 1 .. k
      PROVE  col[i] >= i - 1
  <2> DEFINE Low == { j \in Nat : j \in 1 .. k /\ col[j] < j - 1 }
  <2>1. Low = {}
    <3> SUFFICES ASSUME Low # {} PROVE FALSE
      OBVIOUS
    <3>1. PICK j \in Low : \A y \in Low : j <= y
      <4> HIDE DEF Low
      <4>1. Low \in SUBSET Nat
        BY DEF Low
      <4>2. QED  BY <4>1, Least
    <3>2. j \in 1 .. k /\ col[j] < j - 1 /\ col[j] \in Nat
      BY <1>1
    <3>3. /\ j - 1 \in 1 .. k - 1 /\ j - 1 \in 1 .. k /\ (j - 1) + 1 = j /\ j - 1 \in Nat
          /\ j - 1 < j
      BY <3>2
    <3>4. col[j - 1] < col[j] /\ col[j - 1] \in Nat
      BY <1>1, <3>3
    <3>5. j - 1 \in Low => j <= j - 1
      BY <3>1
    <3>6. QED  BY <3>2, <3>3, <3>4, <3>5
  <2>2. i \in Nat /\ col[i] \in Nat
    BY <1>1
  <2>3. QED  BY <2>1, <2>2
<1>5. ASSUME NEW i \in 1 .. k
      PROVE  Greatest(i - 1, r[i], columns) = col[i]
  <2>1. /\ i - 1 \in 0 .. columns /\ (i - 1) + 1 = i
        /\ col[i] \in i - 1 .. columns /\ r[i] \in Nat
    BY SMTT(60), <1>1, <1>4
  <2>2. nCr[col[i]][i] <= r[i] /\ nCr[col[i] + 1][i] > r[i]
    <3>1. nCr[col[i]][i] \in Nat /\ nCr[col[i] + 1][i] \in Nat
      <4>1. col[i] \in Nat /\ col[i] + 1 \in Nat /\ i \in Nat
        BY <1>1
      <4>2. QED  BY <4>1, Edges
    <3>2. QED  BY <1>1, <2>1, <3>1
  <2>3. QED  BY <2>1, <2>2, GreatestOnly
<1> DEFINE Bad == { n \in Nat : n <= k - 1 /\ rest[k - 1 - n] # r[k - n] }
<1>6. Bad = {}
  <2> SUFFICES ASSUME Bad # {} PROVE FALSE
    OBVIOUS
  <2>1. PICK n \in Bad : \A y \in Bad : n <= y
    <3> HIDE DEF Bad
    <3>1. Bad \in SUBSET Nat
      BY DEF Bad
    <3>2. QED  BY <3>1, Least
  <2>2. n # 0
    <3>1. k - 1 - 0 = k - 1 /\ k - 0 = k
      OBVIOUS
    <3>2. QED  BY <1>2, <3>1
  <2> DEFINE i == k - n
  <2>3. /\ i \in 1 .. k - 1 /\ i - 1 \in 0 .. k - 2 /\ k - (n - 1) = i + 1
        /\ k - 1 - (n - 1) = i /\ k - 1 - n = i - 1
        /\ n - 1 \in Nat /\ n - 1 <= k - 1 /\ (i - 1) + 1 = i /\ (i - 1) + 2 = i + 1
        /\ i + 1 \in 1 .. k /\ (i + 1) - 1 = i
    BY <2>2
  <2>4. n - 1 \in Bad => n <= n - 1
    BY <2>1
  <2>5. rest[i] = r[i + 1]
    BY <2>3, <2>4
  <2>6. rest[i - 1] # r[i]
    BY <2>3
  <2> HIDE DEF i
  <2>7. rest[i - 1] = rest[i] - nCr[Greatest(i, rest[i], columns)][i + 1]
    BY <1>2, <2>3
  <2>8. Greatest(i, r[i + 1], columns) = col[i + 1]
    BY <1>5, <2>3
  <2>9. r[i] = r[i + 1] - nCr[col[i + 1]][i + 1]
    BY <1>1, <2>3
  <2>10. QED  BY <2>5, <2>6, <2>7, <2>8, <2>9
<1>7. ASSUME NEW i \in 1 .. k
      PROVE  Greatest(i - 1, rest[i - 1], columns) = col[i]
  <2>1. k - i \in Nat /\ k - i <= k - 1 /\ k - 1 - (k - i) = i - 1 /\ k - (k - i) = i
    OBVIOUS
  <2>2. rest[i - 1] = r[i]
    <3>1. k - i \notin Bad
      BY <1>6
    <3>2. QED  BY <2>1, <3>1
  <2>3. QED  BY <1>5, <2>2
<1>8. QED  BY <1>1, <1>3, <1>7
-----------------------------------------------------------------------------
(* combinadic_next.  What it does to a combination, in terms of the first  *)
(* column f that has room.                                                 *)
LEMMA NextColumnsIs ==
  ASSUME NEW k \in Nat \ {0}, NEW col \in [1 .. k -> Nat]
  PROVE  \E f \in 1 .. k :
           /\ f = k \/ col[f] + 1 < col[f + 1]
           /\ \A i \in 1 .. f - 1 : ~(col[i] + 1 < col[i + 1])
           /\ NextColumns(col) = [i \in 1 .. k |-> IF i < f THEN i - 1
                                                   ELSE IF i = f THEN col[i] + 1 ELSE col[i]]
<1>1. col \in Seq(Nat) /\ Len(col) = k
  OBVIOUS
<1> DEFINE room == { i \in 1 .. Len(col) : HasRoom(col, i) }
<1>2. PICK f \in room : \A j \in room : f <= j
  <2>1. k \in room /\ room \in SUBSET Nat
    BY <1>1 DEF HasRoom
  <2> HIDE DEF room
  <2>2. QED  BY <2>1, Least
<1>3. f \in 1 .. Len(col) /\ HasRoom(col, f) /\ \A j \in 1 .. f - 1 : ~HasRoom(col, j)
  <2>1. f \in 1 .. Len(col) /\ HasRoom(col, f)
    BY <1>2
  <2>2. ASSUME NEW j \in 1 .. f - 1 PROVE ~HasRoom(col, j)
    <3>1. j \in 1 .. Len(col) /\ ~(f <= j)
      BY <2>1, <1>1
    <3>2. QED  BY <3>1, <1>2
  <2>3. QED  BY <2>1, <2>2
<1> DEFINE g == FirstRoom(col)
<1>4. g \in 1 .. Len(col) /\ HasRoom(col, g) /\ \A j \in 1 .. g - 1 : ~HasRoom(col, j)
  BY <1>3, Zenon DEF FirstRoom
<1>5. NextColumns(col) = [i \in 1 .. Len(col) |-> IF i < g THEN i - 1
                                                   ELSE IF i = g THEN col[i] + 1 ELSE col[i]]
  BY DEF NextColumns
<1> HIDE DEF g
<1>6. NextColumns(col) = [i \in 1 .. k |-> IF i < g THEN i - 1
                                           ELSE IF i = g THEN col[i] + 1 ELSE col[i]]
  BY <1>1, <1>5
<1>7. g \in 1 .. k /\ (g = k \/ col[g] + 1 < col[g + 1])
  BY <1>1, <1>4 DEF HasRoom
<1>8. ASSUME NEW i \in 1 .. g - 1
      PROVE  ~(col[i] + 1 < col[i + 1])
  BY <1>4, <1>8 DEF HasRoom
<1>9. QED  BY <1>6, <1>7, <1>8

(* The combination behind it has the next number, if there is one.         *)
LEMMA NextDigits ==
  ASSUME NEW columns \in Nat, NEW k \in 1 .. columns, NEW col, NEW r,
         Digits(col, r, k, columns), r[k] + 1 < nCr[columns][k]
  PROVE  \E r2 : Digits(NextColumns(col), r2, k, columns) /\ r2[k] = r[k] + 1
<1>1. /\ col \in [1 .. k -> Nat] /\ r \in [1 .. k -> Nat] /\ k \in Nat \ {0}
      /\ \A i \in 1 .. k : /\ col[i] < columns
                           /\ nCr[col[i]][i] <= r[i] /\ r[i] < nCr[col[i] + 1][i]
      /\ \A i \in 1 .. k - 1 : col[i] < col[i + 1] /\ r[i] = r[i + 1] - nCr[col[i + 1]][i + 1]
  BY DEF Digits
<1>2. PICK f \in 1 .. k :
        /\ f = k \/ col[f] + 1 < col[f + 1]
        /\ \A i \in 1 .. f - 1 : ~(col[i] + 1 < col[i + 1])
        /\ NextColumns(col) = [i \in 1 .. k |-> IF i < f THEN i - 1
                                                ELSE IF i = f THEN col[i] + 1 ELSE col[i]]
  BY <1>1, NextColumnsIs
<1> DEFINE d == [i \in 1 .. k |-> IF i < f THEN i - 1 ELSE IF i = f THEN col[i] + 1 ELSE col[i]]
           r2 == [i \in 1 .. k |-> IF i < f THEN 0 ELSE r[i] + 1]
<1>3. ASSUME NEW i \in 1 .. k
      PROVE  /\ i \in Nat /\ col[i] \in Nat /\ col[i] + 1 \in Nat /\ r[i] \in Nat
             /\ nCr[col[i]][i] \in Nat /\ nCr[col[i] + 1][i] \in Nat
             /\ nCr[col[i] + 1][i] = nCr[col[i]][i - 1] + nCr[col[i]][i]
             /\ nCr[col[i]][i - 1] \in Nat
  <2>1. i \in Nat /\ i - 1 \in Nat /\ (i - 1) + 1 = i /\ col[i] \in Nat /\ col[i] + 1 \in Nat
        /\ r[i] \in Nat
    BY SMTT(30), <1>1
  <2>2. nCr[col[i] + 1][(i - 1) + 1] = nCr[col[i]][i - 1] + nCr[col[i]][(i - 1) + 1]
    BY <2>1, Pascal
  <2>3. /\ nCr[col[i]][i] \in Nat /\ nCr[col[i] + 1][i] \in Nat /\ nCr[col[i]][i - 1] \in Nat
    BY <2>1, Edges
  <2>4. QED  BY <2>1, <2>2, <2>3
<1>4. ASSUME NEW i \in 1 .. k
      PROVE  col[i] >= i - 1
  <2> DEFINE Low == { j \in Nat : j \in 1 .. k /\ col[j] < j - 1 }
  <2>1. Low = {}
    <3> SUFFICES ASSUME Low # {} PROVE FALSE
      OBVIOUS
    <3>1. PICK j \in Low : \A y \in Low : j <= y
      <4> HIDE DEF Low
      <4>1. Low \in SUBSET Nat
        BY DEF Low
      <4>2. QED  BY <4>1, Least
    <3>2. j \in 1 .. k /\ col[j] < j - 1 /\ col[j] \in Nat
      BY <1>1
    <3>3. /\ j - 1 \in 1 .. k - 1 /\ j - 1 \in 1 .. k /\ (j - 1) + 1 = j /\ j - 1 \in Nat
          /\ j - 1 < j
      BY <3>2
    <3>4. col[j - 1] < col[j] /\ col[j - 1] \in Nat
      BY <1>1, <3>3
    <3>5. j - 1 \in Low => j <= j - 1
      BY <3>1
    <3>6. QED  BY <3>2, <3>3, <3>4, <3>5
  <2>2. QED  BY <1>3, <2>1
(* Up to f the columns follow on each other, so the number is at its limit *)
<1> DEFINE Short == { j \in Nat : j \in 1 .. f /\ r[j] + 1 # nCr[col[j] + 1][j] }
<1>5. Short = {}
  <2> SUFFICES ASSUME Short # {} PROVE FALSE
    OBVIOUS
  <2>1. PICK j \in Short : \A y \in Short : j <= y
    <3> HIDE DEF Short
    <3>1. Short \in SUBSET Nat
      BY DEF Short
    <3>2. QED  BY <3>1, Least
  <2>2. j \in 1 .. f /\ j \in 1 .. k /\ r[j] + 1 # nCr[col[j] + 1][j]
    OBVIOUS
  <2>3. j # 1
    <3> SUFFICES ASSUME j = 1 PROVE FALSE
      OBVIOUS
    <3>1. nCr[col[1]][0] = 1
      BY <1>3, <2>2, Edges
    <3>2. /\ nCr[col[1] + 1][1] = nCr[col[1]][1 - 1] + nCr[col[1]][1]
          /\ nCr[col[1]][1] <= r[1] /\ r[1] < nCr[col[1] + 1][1]
          /\ nCr[col[1]][1] \in Nat /\ r[1] \in Nat
      BY <1>1, <1>3, <2>2
    <3>3. QED  BY <2>2, <3>1, <3>2
  <2> DEFINE i == j - 1
  <2>4. i \in 1 .. f - 1 /\ i \in 1 .. k - 1 /\ i \in 1 .. k /\ i \in Nat /\ i + 1 = j /\ i < j
        /\ i \in 1 .. f /\ j - 1 = i
    BY <2>2, <2>3
  <2> HIDE DEF i
  <2>5. i \in Short => j <= i
    BY <2>1
  <2>6. r[i] + 1 = nCr[col[i] + 1][i]
    BY <2>4, <2>5
  <2>7. col[j] = col[i] + 1
    <3>1. col[i] < col[i + 1] /\ ~(col[i] + 1 < col[i + 1])
      BY <1>1, <1>2, <2>4
    <3>2. col[i] \in Nat /\ col[j] \in Nat
      BY <1>3, <2>2, <2>4
    <3>3. QED  BY <2>4, <3>1, <3>2
  <2>8. r[i] = r[j] - nCr[col[j]][j]
    BY <1>1, <2>4
  <2>9. /\ nCr[col[j] + 1][j] = nCr[col[j]][i] + nCr[col[j]][j]
        /\ r[i] \in Nat /\ r[j] \in Nat /\ nCr[col[j]][i] \in Nat /\ nCr[col[j]][j] \in Nat
    BY <1>3, <2>2, <2>4
  <2>10. QED  BY <2>2, <2>6, <2>7, <2>8, <2>9
<1>6. r[f] + 1 = nCr[col[f] + 1][f]
  BY <1>3, <1>5
(* ... and behind it there is room for one more.                           *)
<1> DEFINE Full == { j \in Nat : j \in f + 1 .. k /\ ~(r[j] + 1 < nCr[col[j] + 1][j]) }
<1>7. Full = {}
  <2> SUFFICES ASSUME Full # {} PROVE FALSE
    OBVIOUS
  <2>1. PICK j \in Full : \A y \in Full : j <= y
    <3> HIDE DEF Full
    <3>1. Full \in SUBSET Nat
      BY DEF Full
    <3>2. QED  BY <3>1, Least
  <2> DEFINE i == j - 1
  <2>2. /\ j \in f + 1 .. k /\ j \in 1 .. k /\ ~(r[j] + 1 < nCr[col[j] + 1][j])
        /\ i \in f .. k - 1 /\ i \in 1 .. k - 1 /\ i \in 1 .. k /\ i \in Nat
        /\ i + 1 = j /\ i < j /\ j - 1 = i
    OBVIOUS
  <2>3. i \in Full => j <= i
    BY <2>1
  <2> HIDE DEF i
  <2>4. r[i] = r[j] - nCr[col[j]][j] /\ col[i] < col[j]
    BY <1>1, <2>2
  <2>5. /\ nCr[col[j] + 1][j] = nCr[col[j]][i] + nCr[col[j]][j]
        /\ r[i] \in Nat /\ r[j] \in Nat /\ nCr[col[j]][i] \in Nat /\ nCr[col[j]][j] \in Nat
        /\ col[i] + 1 \in Nat /\ col[j] \in Nat /\ col[i] \in Nat
        /\ nCr[col[i] + 1][i] \in Nat
    BY <1>3, <2>2
  <2>6. CASE i # f
    <3>1. r[i] + 1 < nCr[col[i] + 1][i]
      BY <2>2, <2>3, <2>6
    <3>2. nCr[col[i] + 1][i] <= nCr[col[j]][i]
      BY <2>2, <2>4, <2>5, BinomialsGrow
    <3>3. QED  BY <2>2, <2>4, <2>5, <3>1, <3>2
  <2>7. CASE i = f
    <3>1. col[i] + 1 < col[j]
      BY <1>2, <2>2, <2>7
    <3>2. r[i] + 1 = nCr[col[i] + 1][i]
      BY <1>6, <2>7
    <3> DEFINE c == col[i] + 1
    <3>3. c \in Nat /\ c + 1 \in Nat /\ c + 1 <= col[j] /\ i - 1 \in Nat /\ (i - 1) + 1 = i
          /\ i - 1 <= c
      BY <1>4, <2>2, <2>5, <3>1
    <3> HIDE DEF c
    <3>4. nCr[c + 1][i] = nCr[c][i - 1] + nCr[c][i]
      <4>1. nCr[c + 1][(i - 1) + 1] = nCr[c][i - 1] + nCr[c][(i - 1) + 1]
        BY <3>3, Pascal
      <4>2. QED  BY <3>3, <4>1
    <3>5. nCr[c][i - 1] >= 1 /\ nCr[c + 1][i] <= nCr[col[j]][i]
      <4>1. nCr[c][i - 1] >= 1
        BY <3>3, BinomialsGrow
      <4>2. nCr[c + 1][i] <= nCr[col[j]][i]
        BY <2>2, <2>5, <3>3, BinomialsGrow
      <4>3. QED  BY <4>1, <4>2
    <3>6. nCr[c][i - 1] \in Nat /\ nCr[c][i] \in Nat /\ nCr[c + 1][i] \in Nat
      BY <2>2, <3>3, Edges
    <3>7. r[i] + 1 = nCr[c][i]
      BY <3>2 DEF c
    <3>8. QED  BY <2>2, <2>4, <2>5, <3>4, <3>5, <3>6, <3>7
  <2>8. QED  BY <2>6, <2>7
<1>8. d \in [1 .. k -> Nat] /\ r2 \in [1 .. k -> Nat]
  <2>1. ASSUME NEW i \in 1 .. k
        PROVE  /\ (IF i < f THEN i - 1 ELSE IF i = f THEN col[i] + 1 ELSE col[i]) \in Nat
               /\ (IF i < f THEN 0 ELSE r[i] + 1) \in Nat
    BY <1>3
  <2>2. QED  BY <2>1
<1>9. ASSUME NEW i \in 1 .. k
      PROVE  d[i] < columns /\ nCr[d[i]][i] <= r2[i] /\ r2[i] < nCr[d[i] + 1][i]
  <2>1. CASE i < f
    <3>1. d[i] = i - 1 /\ r2[i] = 0
      BY <2>1
    <3>2. nCr[i - 1][i] = 0 /\ nCr[i][i] = 1
      <4>1. i - 1 \in Nat /\ i \in Nat /\ i - 1 < i
        OBVIOUS
      <4>2. QED  BY <4>1, Edges
    <3>3. (i - 1) + 1 = i /\ i - 1 < columns
      OBVIOUS
    <3>4. QED  BY <3>1, <3>2, <3>3
  <2>2. CASE i = f
    <3>1. d[i] = col[i] + 1 /\ r2[i] = nCr[col[i] + 1][i]
      BY <1>6, <2>2
    <3>2. col[i] + 1 < columns
      <4>1. CASE f = k
        <5>1. col[i] < columns /\ col[i] \in Nat /\ nCr[col[i] + 1][i] < nCr[columns][i]
              /\ nCr[col[i] + 1][i] \in Nat
          BY <1>1, <1>3, <1>6, <2>2, <4>1
        <5>2. col[i] + 1 # columns
          BY <5>1
        <5>3. QED  BY <5>1, <5>2
      <4>2. CASE f # k
        <5>1. f + 1 \in 1 .. k
          BY <4>2
        <5>2. col[f] + 1 < col[f + 1] /\ col[f + 1] < columns
          BY <1>1, <1>2, <4>2, <5>1
        <5>3. col[f] \in Nat /\ col[f + 1] \in Nat
          BY <1>3, <5>1
        <5>4. QED  BY <2>2, <5>2, <5>3
      <4>3. QED  BY <4>1, <4>2
    <3> DEFINE c == col[i] + 1
    <3>3. c \in Nat /\ c + 1 \in Nat /\ i - 1 \in Nat /\ i \in Nat /\ (i - 1) + 1 = i
          /\ i - 1 <= c
      BY <1>3, <1>4
    <3>4. c = col[i] + 1
      OBVIOUS
    <3> HIDE DEF c
    <3>5. nCr[c + 1][(i - 1) + 1] = nCr[c][i - 1] + nCr[c][(i - 1) + 1]
      BY <3>3, Pascal
    <3>6. nCr[c][i - 1] >= 1
      BY <3>3, BinomialsGrow
    <3>7. nCr[c][i - 1] \in Nat /\ nCr[c][i] \in Nat
      BY <3>3, Edges
    <3>8. nCr[c][i] < nCr[c + 1][i]
      BY <3>3, <3>5, <3>6, <3>7
    <3> HIDE DEF d, r2
    <3>9. QED  BY <3>1, <3>2, <3>4, <3>7, <3>8
  <2>3. CASE i > f
    <3>1. d[i] = col[i] /\ r2[i] = r[i] + 1
      BY <2>3
    <3>2. r[i] + 1 < nCr[col[i] + 1][i]
      <4>1. i \in f + 1 .. k /\ i \in Nat
        BY <2>3
      <4>2. QED  BY <1>7, <4>1
    <3> HIDE DEF d, r2
    <3>3. col[i] < columns /\ nCr[col[i]][i] <= r[i] /\ nCr[col[i]][i] \in Nat /\ r[i] \in Nat
      BY <1>1, <1>3
    <3>4. QED  BY <3>1, <3>2, <3>3
  <2>4. QED  BY <2>1, <2>2, <2>3
<1>10. ASSUME NEW i \in 1 .. k - 1
       PROVE  d[i] < d[i + 1] /\ r2[i] = r2[i + 1] - nCr[d[i + 1]][i + 1]
  <2>1. i \in 1 .. k /\ i + 1 \in 1 .. k /\ i \in Nat
    OBVIOUS
  <2>2. CASE i + 1 < f
    <3>1. d[i] = i - 1 /\ d[i + 1] = i /\ r2[i] = 0 /\ r2[i + 1] = 0
      BY <2>1, <2>2
    <3>2. nCr[i][i + 1] = 0
      <4>1. i + 1 \in Nat /\ i < i + 1
        OBVIOUS
      <4>2. QED  BY <2>1, <4>1, Edges
    <3> HIDE DEF d, r2
    <3>3. QED  BY <3>1, <3>2
  <2>3. CASE i + 1 = f
    <3>1. d[i] = i - 1 /\ d[i + 1] = col[f] + 1 /\ r2[i] = 0 /\ r2[i + 1] = nCr[col[f] + 1][f]
      BY <1>6, <2>1, <2>3
    <3>2. col[f] \in Nat /\ col[f] >= f - 1 /\ nCr[col[f] + 1][f] \in Nat
      BY <1>3, <1>4
    <3> HIDE DEF d, r2
    <3>3. i - 1 < col[f] + 1
      BY <2>3, <3>2
    <3>4. nCr[d[i + 1]][i + 1] = nCr[col[f] + 1][f]
      BY <2>3, <3>1
    <3>5. QED  BY <3>1, <3>2, <3>3, <3>4
  <2>4. CASE i >= f
    <3>1. /\ d[i + 1] = col[i + 1] /\ r2[i] = r[i] + 1 /\ r2[i + 1] = r[i + 1] + 1
      BY <2>1, <2>4
    <3>2. d[i] < col[i + 1]
      <4>1. col[i] < col[i + 1]
        BY <1>1
      <4>2. CASE i = f
        <5>1. d[i] = col[i] + 1 /\ i # k
          BY <2>1, <4>2
        <5>2. QED  BY <1>2, <4>2, <5>1
      <4>3. CASE i # f
        <5>1. d[i] = col[i]
          BY <2>1, <2>4, <4>3
        <5>2. QED  BY <4>1, <5>1
      <4>4. QED  BY <4>2, <4>3
    <3> HIDE DEF d, r2
    <3>3. r[i] = r[i + 1] - nCr[col[i + 1]][i + 1]
      BY <1>1
    <3>4. /\ r[i] \in Nat /\ r[i + 1] \in Nat /\ nCr[col[i + 1]][i + 1] \in Nat
      BY <1>3, <2>1
    <3>5. QED  BY <3>1, <3>2, <3>3, <3>4
  <2>5. QED  BY <2>2, <2>3, <2>4
<1>11. r2[k] = r[k] + 1
  OBVIOUS
<1>12. Digits(d, r2, k, columns)
  BY <1>8, <1>9, <1>10 DEF Digits
<1>13. QED  BY <1>2, <1>11, <1>12

(* Threads that decode the combination they start with and step from one   *)
(* to the next go by the numbers: the combination that a thread comes to   *)
(* after x is the one that it would decode from x + 1.                     *)
THEOREM StepsDecode ==
  ASSUME NEW columns \in Nat, NEW k \in 1 .. columns,
         NEW number \in Nat, number + 1 < nCr[columns][k]
  PROVE  NextColumns(Decode(number, k, columns)) = Decode(number + 1, k, columns)
<1>1. number < nCr[columns][k]
  <2>1. nCr[columns][k] \in Nat
    BY Edges
  <2>2. QED  BY <2>1
<1>2. PICK r : Digits(Decode(number, k, columns), r, k, columns) /\ r[k] = number
  BY <1>1, DecodeDigits
<1>3. PICK r2 : /\ Digits(NextColumns(Decode(number, k, columns)), r2, k, columns)
                /\ r2[k] = number + 1
  BY <1>2, NextDigits
<1>4. QED  BY <1>3, DigitsDecode

(* Every combination has a number: it is made up column by column.         *)
Prefix(col, r, m) ==
  /\ r \in [1 .. m -> Nat]
  /\ \A i \in 1 .. m : nCr[col[i]][i] <= r[i] /\ r[i] < nCr[col[i] + 1][i]
  /\ \A i \in 1 .. m - 1 : r[i] = r[i + 1] - nCr[col[i + 1]][i + 1]

(* Each beginning of a combination has one, and so has the whole.          *)
LEMMA Numbered ==
  ASSUME NEW columns \in Nat, NEW k \in 1 .. columns, NEW col \in [1 .. k -> 0 .. columns - 1],
         \A i \in 1 .. k - 1 : col[i] < col[i + 1]
  PROVE  \E r : Digits(col, r, k, columns)
<1> DEFINE Bad == { m \in Nat : m \in 1 .. k /\ ~\E r : Prefix(col, r, m) }
<1>1. ASSUME NEW i \in 1 .. k
      PROVE  /\ i \in Nat /\ i - 1 \in Nat /\ col[i] \in Nat /\ col[i] + 1 \in Nat
             /\ nCr[col[i]][i] \in Nat /\ nCr[col[i]][i - 1] \in Nat
             /\ nCr[col[i] + 1][i] = nCr[col[i]][i - 1] + nCr[col[i]][i]
  <2>1. i \in Nat /\ i - 1 \in Nat /\ (i - 1) + 1 = i /\ col[i] \in Nat /\ col[i] + 1 \in Nat
    OBVIOUS
  <2>2. nCr[col[i] + 1][(i - 1) + 1] = nCr[col[i]][i - 1] + nCr[col[i]][(i - 1) + 1]
    BY <2>1, Pascal
  <2>3. nCr[col[i]][i] \in Nat /\ nCr[col[i]][i - 1] \in Nat
    BY <2>1, Edges
  <2>4. QED  BY <2>1, <2>2, <2>3
<1>2. Bad = {}
  <2> SUFFICES ASSUME Bad # {} PROVE FALSE
    OBVIOUS
  <2>1. PICK m \in Bad : \A y \in Bad : m <= y
    <3> HIDE DEF Bad
    <3>1. Bad \in SUBSET Nat
      BY DEF Bad
    <3>2. QED  BY <3>1, Least
  <2>2. m \in 1 .. k /\ m \in Nat
    OBVIOUS
  <2>3. CASE m = 1
    <3> DEFINE r == [i \in 1 .. 1 |-> nCr[col[1]][1]]
    <3>1. /\ nCr[col[1]][1] \in Nat /\ nCr[col[1] + 1][1] = nCr[col[1]][0] + nCr[col[1]][1]
          /\ col[1] \in Nat
      <4>1. 1 \in 1 .. k /\ 1 - 1 = 0
        BY <2>2
      <4>2. QED  BY <4>1, <1>1
    <3>2. nCr[col[1]][0] = 1
      BY <3>1, Edges
    <3>3. Prefix(col, r, 1)
      <4>1. r \in [1 .. 1 -> Nat]
        BY <3>1
      <4>2. ASSUME NEW i \in 1 .. 1
            PROVE  nCr[col[i]][i] <= r[i] /\ r[i] < nCr[col[i] + 1][i]
        <5>1. i = 1 /\ r[1] = nCr[col[1]][1]
          OBVIOUS
        <5> HIDE DEF r
        <5>2. nCr[col[1]][1] <= r[1] /\ r[1] < nCr[col[1] + 1][1]
          BY <3>1, <3>2, <5>1
        <5>3. QED  BY <5>1, <5>2
      <4>3. 1 .. 1 - 1 = {}
        OBVIOUS
      <4>4. QED  BY <4>1, <4>2, <4>3 DEF Prefix
    <3>4. QED  BY <2>1, <2>3, <3>3
  <2>4. CASE m # 1
    <3>1. /\ m - 1 \in 1 .. k /\ (m - 1) + 1 = m /\ m - 1 \in Nat /\ m - 1 < m
          /\ m - 1 \in 1 .. k - 1 /\ m - 1 \in 1 .. m - 1
      BY <2>2, <2>4
    <3>2. PICK q : Prefix(col, q, m - 1)
      <4>1. m - 1 \in Bad => m <= m - 1
        BY <2>1
      <4>2. QED  BY <3>1, <4>1
    <3>3. /\ q \in [1 .. m - 1 -> Nat]
          /\ \A i \in 1 .. m - 1 : nCr[col[i]][i] <= q[i] /\ q[i] < nCr[col[i] + 1][i]
          /\ \A i \in 1 .. (m - 1) - 1 : q[i] = q[i + 1] - nCr[col[i + 1]][i + 1]
      BY <3>2 DEF Prefix
    <3>4. col[m - 1] < col[m]
      BY <3>1
    <3>5. /\ col[m - 1] + 1 <= col[m] /\ col[m - 1] + 1 \in Nat /\ col[m] \in Nat
          /\ q[m - 1] \in Nat /\ q[m - 1] < nCr[col[m - 1] + 1][m - 1]
      <4>1. col[m - 1] \in Nat /\ col[m] \in Nat
        BY <2>2, <3>1
      <4>2. q[m - 1] \in Nat /\ q[m - 1] < nCr[col[m - 1] + 1][m - 1]
        BY <3>1, <3>3
      <4>3. QED  BY SMTT(60), <3>4, <4>1, <4>2
    <3>6. nCr[col[m - 1] + 1][m - 1] <= nCr[col[m]][m - 1]
      BY <3>1, <3>5, BinomialsGrow
    <3>7. /\ nCr[col[m]][m] \in Nat /\ nCr[col[m]][m - 1] \in Nat
          /\ nCr[col[m] + 1][m] = nCr[col[m]][m - 1] + nCr[col[m]][m]
          /\ nCr[col[m - 1] + 1][m - 1] \in Nat
      <4>1. nCr[col[m - 1] + 1][m - 1] \in Nat
        BY <3>1, <3>5, Edges
      <4>2. QED  BY <1>1, <2>2, <4>1
    <3> DEFINE last == q[m - 1] + nCr[col[m]][m]
               r == [i \in 1 .. m |-> IF i = m THEN last ELSE q[i]]
    <3>8. last \in Nat /\ nCr[col[m]][m] <= last /\ last < nCr[col[m] + 1][m]
      <4> DEFINE a == q[m - 1]
                 b == nCr[col[m]][m]
                 c == nCr[col[m]][m - 1]
                 d == nCr[col[m - 1] + 1][m - 1]
                 e == nCr[col[m] + 1][m]
      <4>1. a \in Nat /\ b \in Nat /\ c \in Nat /\ d \in Nat
        BY <3>5, <3>7, Zenon
      <4>2. a < d /\ d <= c /\ e = c + b
        BY <3>5, <3>6, <3>7, Zenon
      <4> HIDE DEF a, b, c, d, e
      <4>3. a + b \in Nat /\ b <= a + b /\ a + b < e
        BY <4>1, <4>2
      <4>4. QED  BY <4>3, Zenon DEF a, b, e
    <3>9. r \in [1 .. m -> Nat]
      <4> HIDE DEF last
      <4>1. \A i \in 1 .. m : i # m => i \in 1 .. m - 1
        BY <2>2
      <4>2. QED  BY <3>3, <3>8, <4>1
    <3>10. ASSUME NEW i \in 1 .. m
           PROVE  nCr[col[i]][i] <= r[i] /\ r[i] < nCr[col[i] + 1][i]
      <4>1. CASE i = m
        BY <3>8, <4>1
      <4>2. CASE i # m
        <5>1. i \in 1 .. m - 1 /\ r[i] = q[i]
          BY <2>2, <4>2
        <5>2. QED  BY <3>3, <5>1
      <4>3. QED  BY <4>1, <4>2
    <3>11. ASSUME NEW i \in 1 .. m - 1
           PROVE  r[i] = r[i + 1] - nCr[col[i + 1]][i + 1]
      <4>1. i \in 1 .. m /\ i # m /\ i + 1 \in 1 .. m
        BY <2>2
      <4>2. CASE i + 1 = m
        <5>1. r[i + 1] = last /\ r[i] = q[i] /\ i = m - 1
          BY <4>1, <4>2
        <5>2. r[i + 1] = q[m - 1] + nCr[col[m]][m] /\ r[i] = q[m - 1]
          BY <5>1
        <5>3. \A a, b \in Nat : a = (a + b) - b
          OBVIOUS
        <5>4. q[m - 1] = (q[m - 1] + nCr[col[m]][m]) - nCr[col[m]][m]
          BY <3>5, <3>7, <5>3
        <5> HIDE DEF r, last
        <5>5. r[i] = r[i + 1] - nCr[col[m]][m]
          BY Zenon, <5>2, <5>4
        <5>6. QED  BY <4>2, <5>5
      <4>3. CASE i + 1 # m
        <5>1. i \in 1 .. (m - 1) - 1 /\ r[i + 1] = q[i + 1] /\ r[i] = q[i]
          BY SMTT(60), <2>2, <4>1, <4>3
        <5>2. QED  BY <3>3, <5>1
      <4>4. QED  BY <4>2, <4>3
    <3> HIDE DEF r
    <3>12. Prefix(col, r, m)
      BY <3>9, <3>10, <3>11 DEF Prefix
    <3>13. QED  BY <2>1, <3>12
  <2>5. QED  BY <2>3, <2>4
<1>3. PICK r : Prefix(col, r, k)
  <2>1. k \in 1 .. k /\ k \in Nat
    OBVIOUS
  <2>2. k \notin Bad
    BY <1>2
  <2>3. QED  BY <2>1, <2>2
<1>4. Digits(col, r, k, columns)
  <2>1. col \in [1 .. k -> Nat] /\ \A i \in 1 .. k : col[i] < columns
    BY SMTT(60), <1>1
  <2>2. QED  BY <1>3, <2>1 DEF Prefix, Digits
<1>5. QED  BY <1>4

(* ... and only one.                                                       *)
LEMMA NumberedOnce ==
  ASSUME NEW columns \in Nat, NEW k \in 1 .. columns, NEW col, NEW r, NEW s,
         Digits(col, r, k, columns), Digits(col, s, k, columns)
  PROVE  r[k] = s[k]
<1>1. /\ col \in [1 .. k -> Nat] /\ r \in [1 .. k -> Nat] /\ s \in [1 .. k -> Nat]
      /\ \A i \in 1 .. k : /\ nCr[col[i]][i] <= r[i] /\ r[i] < nCr[col[i] + 1][i]
                           /\ nCr[col[i]][i] <= s[i] /\ s[i] < nCr[col[i] + 1][i]
      /\ \A i \in 1 .. k - 1 : /\ r[i] = r[i + 1] - nCr[col[i + 1]][i + 1]
                               /\ s[i] = s[i + 1] - nCr[col[i + 1]][i + 1]
  BY DEF Digits
<1> DEFINE Bad == { m \in Nat : m \in 1 .. k /\ r[m] # s[m] }
<1>2. Bad = {}
  <2> SUFFICES ASSUME Bad # {} PROVE FALSE
    OBVIOUS
  <2>1. PICK m \in Bad : \A y \in Bad : m <= y
    <3> HIDE DEF Bad
    <3>1. Bad \in SUBSET Nat
      BY DEF Bad
    <3>2. QED  BY <3>1, Least
  <2>2. m \in 1 .. k /\ m \in Nat /\ r[m] # s[m] /\ r[m] \in Nat /\ s[m] \in Nat
    BY <1>1
  <2>3. CASE m = 1
    <3>1. 1 \in 1 .. k /\ col[1] \in Nat
      BY <1>1, <2>2, <2>3
    <3>2. nCr[col[1] + 1][0 + 1] = nCr[col[1]][0] + nCr[col[1]][0 + 1]
      BY <3>1, Pascal
    <3>3. nCr[col[1]][0] = 1 /\ nCr[col[1]][1] \in Nat /\ 0 + 1 = 1
      BY <3>1, Edges
    <3>4. /\ nCr[col[1]][1] <= r[1] /\ r[1] < nCr[col[1] + 1][1]
          /\ nCr[col[1]][1] <= s[1] /\ s[1] < nCr[col[1] + 1][1]
      BY <1>1, <3>1
    <3>5. nCr[col[1] + 1][1] = 1 + nCr[col[1]][1]
      BY <3>2, <3>3
    <3>6. r[1] \in Nat /\ s[1] \in Nat /\ r[1] # s[1]
      BY <2>2, <2>3
    <3>7. ASSUME NEW a \in Nat, NEW b \in Nat, NEW c \in Nat,
                 c <= a, a < 1 + c, c <= b, b < 1 + c
          PROVE  a = b
      BY <3>7
    <3>8. QED  BY <3>3, <3>4, <3>5, <3>6, <3>7
  <2>4. CASE m # 1
    <3>1. /\ m - 1 \in 1 .. k - 1 /\ m - 1 \in 1 .. k /\ (m - 1) + 1 = m /\ m - 1 \in Nat
          /\ m - 1 < m
      BY <2>2, <2>4
    <3>2. r[m - 1] = s[m - 1]
      <4>1. m - 1 \in Bad => m <= m - 1
        BY <2>1
      <4>2. QED  BY <3>1, <4>1
    <3>3. r[m - 1] = r[m] - nCr[col[m]][m] /\ s[m - 1] = s[m] - nCr[col[m]][m]
      BY <1>1, <3>1
    <3>4. nCr[col[m]][m] \in Nat
      <4>1. col[m] \in Nat
        BY <1>1, <2>2
      <4>2. QED  BY <4>1, <2>2, Edges
    <3>5. ASSUME NEW a \in Nat, NEW b \in Nat, NEW c \in Nat, a - c = b - c PROVE a = b
      BY <3>5
    <3>6. r[m] - nCr[col[m]][m] = s[m] - nCr[col[m]][m]
      BY <3>2, <3>3
    <3>7. QED  BY <2>2, <3>4, <3>5, <3>6
  <2>5. QED  BY <2>3, <2>4
<1>3. k \notin Bad /\ k \in Nat /\ k \in 1 .. k
  BY <1>2
<1>4. QED  BY <1>3

(* combinadic_decode, and with it the tuple index: the numbers below nCr   *)
(* are those of the combinations, one each.  A thread that starts anywhere *)
(* in the scan finds its combination, no two numbers mean the same one     *)
(* and none is left out.                                                   *)
THEOREM DecodeBijective ==
  ASSUME NEW columns \in Nat, NEW k \in 1 .. columns
  PROVE  LET Numbers == 0 .. nCr[columns][k] - 1
         IN /\ \A n \in Numbers : Decode(n, k, columns) \in Combinations(k, columns)
            /\ \A m, n \in Numbers : Decode(m, k, columns) = Decode(n, k, columns) => m = n
            /\ \A col \in Combinations(k, columns) :
                 \E n \in Numbers : Decode(n, k, columns) = col
<1>1. nCr[columns][k] \in Nat
  BY Edges
<1> DEFINE Numbers == 0 .. nCr[columns][k] - 1
<1>2. ASSUME NEW n \in Numbers
      PROVE  Decode(n, k, columns) \in Combinations(k, columns)
  <2>1. n \in Nat /\ n < nCr[columns][k]
    BY <1>1
  <2>2. PICK r : Digits(Decode(n, k, columns), r, k, columns)
    BY <2>1, DecodeDigits
  <2> DEFINE col == Decode(n, k, columns)
  <2> HIDE DEF col
  <2>3. Digits(col, r, k, columns)
    BY <2>2 DEF col
  <2>4. col \in Combinations(k, columns)
    BY SMTT(60), <2>3 DEF Digits, Combinations
  <2>5. QED  BY <2>4 DEF col
<1>3. ASSUME NEW m \in Numbers, NEW n \in Numbers,
             Decode(m, k, columns) = Decode(n, k, columns)
      PROVE  m = n
  <2>1. /\ m \in Nat /\ m < nCr[columns][k]
        /\ n \in Nat /\ n < nCr[columns][k]
    BY <1>1
  <2>2. PICK r : Digits(Decode(m, k, columns), r, k, columns) /\ r[k] = m
    BY <2>1, DecodeDigits
  <2>3. PICK s : Digits(Decode(n, k, columns), s, k, columns) /\ s[k] = n
    BY <2>1, DecodeDigits
  <2>4. Digits(Decode(m, k, columns), s, k, columns)
    BY <1>3, <2>3
  <2>5. r[k] = s[k]
    BY <2>2, <2>4, NumberedOnce
  <2>6. QED  BY <2>2, <2>3, <2>5
<1>4. ASSUME NEW col \in Combinations(k, columns)
      PROVE  \E n \in Numbers : Decode(n, k, columns) = col
  <2>1. /\ col \in [1 .. k -> 0 .. columns - 1]
        /\ \A i \in 1 .. k - 1 : col[i] < col[i + 1]
    BY DEF Combinations
  <2>2. PICK r : Digits(col, r, k, columns)
    BY <2>1, Numbered
  <2>3. Decode(r[k], k, columns) = col
    BY <2>2, DigitsDecode
  <2>4. r[k] \in Nat /\ r[k] < nCr[col[k] + 1][k] /\ col[k] + 1 \in Nat /\ col[k] + 1 <= columns
    <3>1. k \in 1 .. k
      OBVIOUS
    <3>2. QED  BY <3>1, <2>1, <2>2 DEF Digits
  <2>5. nCr[col[k] + 1][k] <= nCr[columns][k] /\ nCr[col[k] + 1][k] \in Nat
    BY <2>4, BinomialsGrow, Edges
  <2>6. r[k] \in Numbers
    BY <1>1, <2>4, <2>5
  <2>7. QED  BY <2>3, <2>6
<1>5. QED  BY <1>2, <1>3, <1>4

-----------------------------------------------------------------------------
(* The place of a tuple in the bitmaps.  combnum holds binomials, although *)
(* it is computed in another order.                                        *)
LEMMA OneOrTwo ==
  ASSUME NEW n \in Nat
  PROVE  nCr[n][1] = n /\ 2 * nCr[n][2] = n * (n - 1) /\ nCr[n][2] \in Nat
<1> DEFINE Good == { i \in Nat : nCr[i][1] = i /\ 2 * nCr[i][2] = i * (i - 1) }
<1>1. 0 \in Good
  <2>1. nCr[0][1] = 0 /\ nCr[0][2] = 0
    BY Edges
  <2>2. QED  BY <2>1
<1>2. ASSUME NEW i \in 0 .. n - 1, i \in Good PROVE i + 1 \in Good
  <2>0. i \in Nat /\ 1 \in Nat /\ 0 \in Nat /\ 1 + 1 = 2 /\ 0 + 1 = 1
    OBVIOUS
  <2>1. nCr[i + 1][0 + 1] = nCr[i][0] + nCr[i][0 + 1] /\ nCr[i][0] = 1 /\ nCr[i][0] \in Nat
    BY <2>0, Pascal
  <2>2. nCr[i + 1][1 + 1] = nCr[i][1] + nCr[i][1 + 1]
    BY <2>0, Pascal
  <2>3. nCr[i][2] \in Nat /\ nCr[i][1] = i /\ 2 * nCr[i][2] = i * (i - 1)
    BY <1>2, Edges
  <2>4. nCr[i + 1][1] = i + 1 /\ nCr[i + 1][2] = i + nCr[i][2]
    BY <2>0, <2>1, <2>2, <2>3
  <2>5. (i + 1) * ((i + 1) - 1) = i * (i - 1) + 2 * i
    OBVIOUS
  <2> DEFINE a == nCr[i + 1][2]
             b == nCr[i][2]
             x == i * (i - 1)
  <2>6. a = i + b /\ 2 * b = x /\ b \in Nat /\ x \in Int
    BY <2>3, <2>4
  <2> HIDE DEF a, b, x
  <2>7. 2 * a = x + 2 * i
    BY <2>6
  <2>8. 2 * nCr[i + 1][2] = (i + 1) * ((i + 1) - 1)
    BY <2>5, <2>7 DEF a, x
  <2>9. QED  BY <2>4, <2>8
<1>3. n \in Good
  <2> HIDE DEF Good
  <2>1. \A i \in 0 .. n : i \in Good
    BY <1>1, <1>2, Upward
  <2>2. QED  BY <2>1
<1>4. QED  BY <1>3, Edges

(* combnum holds the binomial coefficients, with the arguments swapped.    *)
LEMMA CombnumIs ==
  \A j, i \in Nat : j >= 2 => combnum[j][i] = nCr[i][j]
<1> DEFINE F(c) == [j \in Nat |->
                      [i \in Nat |-> IF j < 2 \/ i < 2 THEN 0
                                     ELSE IF j = 2 THEN (i * (i - 1)) \div 2
                                     ELSE c[j][i - 1] + c[j - 1][i - 1]]]
           g == [j \in Nat |-> [i \in Nat |-> IF j < 2 THEN 0 ELSE nCr[i][j]]]
           c0 == CHOOSE c : c = F(c)
           V(c, j, i) == IF j < 2 \/ i < 2 THEN 0
                         ELSE IF j = 2 THEN (i * (i - 1)) \div 2
                         ELSE c[j][i - 1] + c[j - 1][i - 1]
<1>1. combnum = c0
  BY DEF combnum
<1>2. \A j, i \in Nat : g[j][i] = IF j < 2 THEN 0 ELSE nCr[i][j]
  OBVIOUS
<1>3. ASSUME NEW i \in Nat PROVE (i * (i - 1)) \div 2 = nCr[i][2]
  <2> DEFINE x == i * (i - 1)
             y == nCr[i][2]
  <2>1. 2 * y = x /\ y \in Nat
    BY OneOrTwo
  <2> HIDE DEF x, y
  <2>2. x \div 2 = y
    BY <2>1
  <2>3. QED  BY <2>2 DEF x, y
<1>4. ASSUME NEW j \in Nat, NEW i \in Nat, j >= 3, i >= 2
      PROVE  nCr[i][j] = nCr[i - 1][j] + nCr[i - 1][j - 1]
  <2>1. i - 1 \in Nat /\ j - 1 \in Nat /\ (i - 1) + 1 = i /\ (j - 1) + 1 = j
    BY <1>4
  <2>2. /\ nCr[(i - 1) + 1][(j - 1) + 1] = nCr[i - 1][j - 1] + nCr[i - 1][(j - 1) + 1]
        /\ nCr[i - 1][j - 1] \in Nat
    BY <2>1, Pascal
  <2>3. nCr[i - 1][j] \in Nat
    BY <2>1, Edges
  <2>4. QED  BY <2>1, <2>2, <2>3
<1>5. \A j, i \in Nat : j >= 2 /\ i < 2 => nCr[i][j] = 0
  BY Edges
<1>6. g = F(g)
  <2>1. ASSUME NEW j \in Nat, NEW i \in Nat PROVE g[j][i] = V(g, j, i)
    <3>1. CASE j < 2 \/ i < 2
      BY <1>2, <1>5, <3>1
    <3>2. CASE j >= 2 /\ i >= 2 /\ j = 2
      BY <1>2, <1>3, <3>2
    <3>3. CASE j >= 3 /\ i >= 2
      <4>1. i - 1 \in Nat /\ j - 1 \in Nat /\ ~(j < 2) /\ ~(j - 1 < 2) /\ ~(i < 2) /\ j # 2
        BY <3>3
      <4>2. g[j][i - 1] = nCr[i - 1][j] /\ g[j - 1][i - 1] = nCr[i - 1][j - 1] /\ g[j][i] = nCr[i][j]
        BY <1>2, <4>1
      <4> HIDE DEF g
      <4>3. QED  BY <1>4, <3>3, <4>1, <4>2
    <3>4. QED  BY <3>1, <3>2, <3>3
  <2>2. g = [j \in Nat |-> [i \in Nat |-> g[j][i]]]
    OBVIOUS
  <2>3. F(g) = [j \in Nat |-> [i \in Nat |-> V(g, j, i)]]
    OBVIOUS
  <2> HIDE DEF g, F, V
  <2>4. QED  BY <2>1, <2>2, <2>3
<1>7. c0 = F(c0)
  <2>1. \E c : c = F(c)
    BY <1>6
  <2> HIDE DEF F
  <2>2. QED  BY <2>1
<1>8. \A j, i \in Nat : combnum[j][i] = V(combnum, j, i)
  <2> HIDE DEF c0
  <2>1. combnum = F(combnum)
    BY <1>1, <1>7
  <2>2. \A j, i \in Nat : F(combnum)[j][i] = V(combnum, j, i)
    OBVIOUS
  <2> HIDE DEF F, V
  <2>3. QED  BY <2>1, <2>2
<1> HIDE DEF c0, g, F
<1>9. ASSUME NEW n \in Nat
      PROVE  \A j \in Nat : j >= 2 => combnum[j][n] = nCr[n][j]
  <2> DEFINE Good == { i \in Nat : \A j \in Nat : j >= 2 => combnum[j][i] = nCr[i][j] }
  <2>1. 0 \in Good
    BY <1>5, <1>8
  <2>2. ASSUME NEW m \in 0 .. n - 1, m \in Good PROVE m + 1 \in Good
    <3> DEFINE i == m + 1
    <3>0. i \in Nat /\ i - 1 = m /\ m \in Nat
      OBVIOUS
    <3> HIDE DEF i
    <3> SUFFICES ASSUME NEW j \in Nat, j >= 2 PROVE combnum[j][i] = nCr[i][j]
      BY <3>0 DEF i
    <3>1. CASE i < 2 \/ j = 2
      <4>1. combnum[j][i] = IF j < 2 \/ i < 2 THEN 0
                            ELSE IF j = 2 THEN (i * (i - 1)) \div 2
                            ELSE combnum[j][i - 1] + combnum[j - 1][i - 1]
        BY <1>8, <3>0
      <4>2. CASE i < 2
        BY <1>5, <3>0, <4>1, <4>2
      <4>3. CASE ~(i < 2) /\ j = 2
        <5>1. combnum[j][i] = (i * (i - 1)) \div 2
          BY <4>1, <4>3
        <5>2. QED  BY <1>3, <3>0, <4>3, <5>1
      <4>4. QED  BY <3>1, <4>2, <4>3
    <3>2. CASE i >= 2 /\ j >= 3
      <4>1. j - 1 \in Nat /\ j - 1 >= 2 /\ ~(j < 2) /\ ~(i < 2) /\ j # 2
        BY <3>0, <3>2
      <4>2. combnum[j][i] = combnum[j][i - 1] + combnum[j - 1][i - 1]
        BY <1>8, <3>0, <4>1
      <4>3. combnum[j][m] = nCr[m][j] /\ combnum[j - 1][m] = nCr[m][j - 1]
        BY <2>2, <4>1
      <4>4. QED  BY <1>4, <3>0, <3>2, <4>2, <4>3
    <3>3. QED  BY <3>0, <3>1, <3>2
  <2> HIDE DEF Good
  <2>3. \A i \in 0 .. n : i \in Good
    BY <2>1, <2>2, Upward
  <2>4. n \in Good
    BY <2>3
  <2>5. QED  BY <2>4 DEF Good
<1>10. QED  BY <1>9

(* The column behind the one before, and the numbers that GetBase adds up  *)
(* to from the last column on: how many combinations of the columns from   *)
(* the k-th on come before this one.                                       *)
After(cols, k) == IF k = 1 THEN 0 ELSE cols[k - 1] + 1

Ranked(rank, n, cols, t) ==
  /\ rank \in [1 .. t -> Int]
  /\ rank[t] = cols[t] - After(cols, t)
  /\ \A k \in 1 .. t - 1 :
       rank[k] = nCr[n - After(cols, k)][t - k + 1] - nCr[n - cols[k]][t - k + 1] + rank[k + 1]

(* The columns behind the one before, as numbers.                          *)
LEMMA AfterIs ==
  ASSUME NEW n \in Nat, NEW t \in Nat, t >= 2, NEW cols \in Combinations(t, n)
  PROVE  /\ Len(cols) = t
         /\ \A k \in 1 .. t : /\ cols[k] \in Nat /\ cols[k] < n
                              /\ After(cols, k) \in Nat /\ After(cols, k) <= cols[k]
         /\ \A k \in 1 .. t - 1 : After(cols, k + 1) = cols[k] + 1
<1>1. cols \in [1 .. t -> 0 .. n - 1] /\ \A i \in 1 .. t - 1 : cols[i] < cols[i + 1]
  BY DEF Combinations
<1>2. ASSUME NEW k \in 1 .. t
      PROVE  cols[k] \in Nat /\ cols[k] < n /\ After(cols, k) \in Nat /\ After(cols, k) <= cols[k]
  <2>1. \A i \in 1 .. t : cols[i] \in 0 .. n - 1
    BY <1>1
  <2>2. CASE k = 1
    BY <2>1, <2>2 DEF After
  <2>3. CASE k # 1
    <3>1. k - 1 \in 1 .. t - 1 /\ k - 1 \in 1 .. t /\ (k - 1) + 1 = k
      BY <2>3
    <3>2. cols[k - 1] < cols[k]
      BY <1>1, <3>1
    <3>3. QED  BY <2>1, <2>3, <3>1, <3>2 DEF After
  <2>4. QED  BY <2>2, <2>3
<1>3. \A k \in 1 .. t - 1 : After(cols, k + 1) = cols[k] + 1
  BY DEF After
<1>4. QED  BY <1>1, <1>2, <1>3

(* The number of the pairs of columns with a smaller first one.            *)
LEMMA PairsBefore ==
  ASSUME NEW m \in Nat, NEW i \in Nat, NEW j \in Int, i < m
  PROVE  Get2Base(m, i, j) = nCr[m][2] - nCr[m - i][2] + (j - i - 1)
<1> DEFINE a == nCr[m][2]
           b == nCr[m - i][2]
           x == (2 * m - i - 1) * i
<1>1. m - i \in Nat
  OBVIOUS
<1>2. 2 * a = m * (m - 1) /\ a \in Nat /\ 2 * b = (m - i) * ((m - i) - 1) /\ b \in Nat
  BY <1>1, OneOrTwo
<1>3. m * (m - 1) - (m - i) * ((m - i) - 1) = x /\ x \in Int
  OBVIOUS
<1>4. x = 2 * (a - b)
  <2> HIDE DEF a, b, x
  <2> DEFINE p == m * (m - 1)
             q == (m - i) * ((m - i) - 1)
  <2>1. 2 * a = p /\ 2 * b = q /\ p - q = x
    BY <1>2, <1>3
  <2>2. p \in Int /\ q \in Int
    OBVIOUS
  <2> HIDE DEF p, q
  <2>3. QED  BY <1>2, <2>1, <2>2
<1>5. x \div 2 = a - b
  <2> DEFINE c == a - b
  <2>1. c \in Int /\ x = 2 * c
    BY <1>2, <1>4
  <2> HIDE DEF c, x
  <2>2. x \div 2 = c
    BY <2>1
  <2>3. QED  BY <2>2 DEF c
<1>6. Get2Base(m, i, j) = (x \div 2) + j - i - 1
  BY DEF Get2Base
<1> HIDE DEF a, b, x
<1>7. QED  BY <1>2, <1>5, <1>6 DEF a, b

(* GetBase computes the rank of the combination.                           *)
LEMMA BaseIs ==
  ASSUME NEW n \in Nat, NEW t \in Nat, t >= 2, NEW cols \in Combinations(t, n)
  PROVE  \E rank : Ranked(rank, n, cols, t) /\ rank[1] = GetBase(n, cols)
<1> DEFINE A(k) == After(cols, k)
           Pair == Get2Base(n - A(t - 1), cols[t - 1] - A(t - 1), cols[t] - A(t - 1))
           Gap(k) == combnum[t - k + 1][n - A(k)] - combnum[t - k + 1][n - cols[k]]
           F(u) == [k \in 1 .. t - 1 |-> IF k = t - 1 THEN Pair ELSE Gap(k) + u[k + 1]]
           Fc(u) == [k \in 1 .. t - 1 |->
                       IF k = t - 1 THEN Get2Base(n - A(k), cols[k] - A(k), cols[k + 1] - A(k))
                       ELSE Gap(k) + u[k + 1]]
           base == CHOOSE u : u = F(u)
           step == [i \in Nat |-> [x \in Int |-> IF i < t - 2 THEN Gap(t - 2 - i) + x ELSE 0]]
<1>1. /\ Len(cols) = t
      /\ \A k \in 1 .. t : cols[k] \in Nat /\ cols[k] < n /\ A(k) \in Nat /\ A(k) <= cols[k]
      /\ \A k \in 1 .. t - 1 : A(k + 1) = cols[k] + 1
  BY AfterIs
<1> HIDE DEF A
<1>2. ASSUME NEW k \in 1 .. t - 1
      PROVE  /\ Gap(k) = nCr[n - A(k)][t - k + 1] - nCr[n - cols[k]][t - k + 1]
             /\ Gap(k) \in Int
  <2>1. /\ n - A(k) \in Nat /\ n - cols[k] \in Nat /\ t - k + 1 \in Nat /\ t - k + 1 >= 2
    <3>1. k \in 1 .. t /\ k <= t - 1
      OBVIOUS
    <3> DEFINE a == A(k)
               c == cols[k]
    <3>2. a \in Nat /\ c \in Nat /\ c < n /\ a <= c
      BY <1>1, <3>1
    <3> HIDE DEF a, c
    <3>3. n - a \in Nat /\ n - c \in Nat
      BY <3>2
    <3>4. QED  BY <3>3 DEF a, c
  <2>2. nCr[n - A(k)][t - k + 1] \in Nat /\ nCr[n - cols[k]][t - k + 1] \in Nat
    BY <2>1, Edges
  <2>3. QED  BY <2>1, <2>2, CombnumIs
<1>3. /\ Pair = nCr[n - A(t - 1)][2] - nCr[n - cols[t - 1]][2] + (cols[t] - A(t))
      /\ Pair \in Int
  <2> DEFINE m == n - A(t - 1)
             i == cols[t - 1] - A(t - 1)
             j == cols[t] - A(t - 1)
  <2>1. /\ m \in Nat /\ i \in Nat /\ j \in Int /\ i < m /\ m - i = n - cols[t - 1]
        /\ j - i - 1 = cols[t] - A(t) /\ n - cols[t - 1] \in Nat
    <3>1. t - 1 \in 1 .. t - 1 /\ t - 1 \in 1 .. t /\ t \in 1 .. t /\ (t - 1) + 1 = t
      OBVIOUS
    <3>2. A(t) = cols[t - 1] + 1
      BY <1>1, <3>1
    <3> DEFINE a == A(t - 1)
               c == cols[t - 1]
               e == cols[t]
    <3>3. a \in Nat /\ c \in Nat /\ c < n /\ a <= c /\ e \in Nat
      BY <1>1, <3>1
    <3>4. m = n - a /\ i = c - a /\ j = e - a /\ A(t) = c + 1
      BY <3>2
    <3> HIDE DEF m, i, j, a, c, e
    <3>5. /\ m \in Nat /\ i \in Nat /\ j \in Int /\ i < m /\ m - i = n - c
          /\ j - i - 1 = e - A(t) /\ n - c \in Nat
      BY <3>3, <3>4
    <3>6. QED  BY <3>5 DEF c, e
  <2> HIDE DEF m, i, j
  <2>2. Get2Base(m, i, j) = nCr[m][2] - nCr[m - i][2] + (j - i - 1)
    BY <2>1, PairsBefore
  <2>3. nCr[m][2] \in Nat /\ nCr[m - i][2] \in Nat
    BY <2>1, Edges
  <2>4. Pair = Get2Base(m, i, j)
    BY DEF m, i, j
  <2> HIDE DEF Pair
  <2>5. Pair \in Int
    BY <2>1, <2>2, <2>3, <2>4
  <2>6. Pair = nCr[m][2] - nCr[n - cols[t - 1]][2] + (cols[t] - A(t))
    BY <2>1, <2>2, <2>4
  <2>7. QED  BY <2>5, <2>6 DEF m
<1>4. GetBase(n, cols) = base[1]
  <2>1. \A k : (IF k = 1 THEN 0 ELSE cols[k - 1] + 1) = A(k)
    BY DEF A, After
  <2>2. (t - 1) + 1 = t
    OBVIOUS
  <2>3. GetBase(n, cols) = (CHOOSE u : u = Fc(u))[1]
    BY <1>1 DEF GetBase, A, After
  <2>4. ASSUME NEW u PROVE Fc(u) = F(u)
    BY <2>2
  <2> HIDE DEF F, Fc
  <2>5. QED  BY <2>3, <2>4
<1> HIDE DEF Pair, Gap
<1>5. PICK h : Follows(h, Int, Pair, step)
  <2>1. step \in [Nat -> [Int -> Int]]
    <3>1. ASSUME NEW i \in Nat, NEW x \in Int
          PROVE  (IF i < t - 2 THEN Gap(t - 2 - i) + x ELSE 0) \in Int
      <4>1. i < t - 2 => t - 2 - i \in 1 .. t - 1
        OBVIOUS
      <4>2. i < t - 2 => Gap(t - 2 - i) \in Int
        BY <1>2, <4>1
      <4>3. QED  BY <4>2
    <3>2. QED  BY <3>1
  <2> HIDE DEF step
  <2>2. QED  BY <1>3, <2>1, Recursion
<1>6. h \in [Nat -> Int] /\ h[0] = Pair /\ \A i \in Nat : h[i + 1] = step[i][h[i]]
  BY <1>5 DEF Follows
<1> DEFINE g == [k \in 1 .. t - 1 |-> h[t - 1 - k]]
<1>7. g = F(g)
  <2>1. ASSUME NEW k \in 1 .. t - 1
        PROVE  g[k] = IF k = t - 1 THEN Pair ELSE Gap(k) + g[k + 1]
    <3>1. CASE k = t - 1
      BY <1>6, <3>1
    <3>2. CASE k # t - 1
      <4> DEFINE i == t - 2 - k
      <4>1. i \in Nat /\ i < t - 2 /\ t - 2 - i = k /\ i + 1 = t - 1 - k /\ t - 1 - (k + 1) = i
            /\ k + 1 \in 1 .. t - 1
        BY <3>2
      <4> HIDE DEF i
      <4>2. h[i + 1] = step[i][h[i]] /\ h[i] \in Int
        BY <1>6, <4>1
      <4>3. step[i][h[i]] = Gap(t - 2 - i) + h[i]
        BY <4>1, <4>2
      <4>4. g[k] = h[i + 1] /\ g[k + 1] = h[i]
        BY <4>1
      <4> HIDE DEF g, step
      <4>5. QED  BY <3>2, <4>1, <4>2, <4>3, <4>4
    <3>3. QED  BY <3>1, <3>2
  <2>2. g = [k \in 1 .. t - 1 |-> g[k]]
    OBVIOUS
  <2> HIDE DEF g
  <2>3. QED  BY <2>1, <2>2
<1>8. base = F(base)
  <2>1. \E u : u = F(u)
    BY <1>7
  <2> HIDE DEF F
  <2>2. QED  BY <2>1
<1> HIDE DEF base, g, step
<1>9. \A k \in 1 .. t - 1 : base[k] = IF k = t - 1 THEN Pair ELSE Gap(k) + base[k + 1]
  <2>1. \A k \in 1 .. t - 1 : F(base)[k] = IF k = t - 1 THEN Pair ELSE Gap(k) + base[k + 1]
    OBVIOUS
  <2> HIDE DEF F
  <2>2. QED  BY <1>8, <2>1
<1> HIDE DEF F
<1> DEFINE rank == [k \in 1 .. t |-> IF k = t THEN cols[t] - A(t) ELSE base[k]]
<1>10. ASSUME NEW k \in 1 .. t - 1
       PROVE  rank[k] = Gap(k) + rank[k + 1]
  <2>1. CASE k = t - 1
    <3>1. rank[k] = base[k] /\ rank[k + 1] = cols[t] - A(t)
      BY <2>1
    <3>2. Gap(k) = nCr[n - A(t - 1)][2] - nCr[n - cols[t - 1]][2]
      <4>1. t - k + 1 = 2
        BY <2>1
      <4>2. QED  BY <1>2, <2>1, <4>1
    <3> HIDE DEF rank
    <3>3. QED  BY <1>3, <1>9, <2>1, <3>1, <3>2
  <2>2. CASE k # t - 1
    <3>1. rank[k] = base[k] /\ rank[k + 1] = base[k + 1]
      BY <2>2
    <3> HIDE DEF rank
    <3>2. QED  BY <1>9, <2>2, <3>1
  <2>3. QED  BY <2>1, <2>2
<1>11. rank[t] = cols[t] - A(t) /\ rank[1] = base[1]
  OBVIOUS
<1>12. rank \in [1 .. t -> Int]
  <2> DEFINE Good == { i \in Nat : i <= t - 1 /\ rank[t - i] \in Int }
  <2>1. 0 \in Good
    <3>1. t \in 1 .. t
      OBVIOUS
    <3>2. cols[t] - A(t) \in Int /\ t - 0 = t
      BY <1>1, <3>1
    <3>3. QED  BY <1>11, <3>2
  <2>2. ASSUME NEW i \in 0 .. (t - 1) - 1, i \in Good PROVE i + 1 \in Good
    <3> DEFINE k == t - (i + 1)
    <3>1. k \in 1 .. t - 1 /\ k + 1 = t - i
      OBVIOUS
    <3> HIDE DEF rank
    <3>2. rank[k] = Gap(k) + rank[k + 1] /\ rank[k + 1] \in Int /\ Gap(k) \in Int
      BY <1>2, <1>10, <2>2, <3>1
    <3>3. rank[k] \in Int
      BY <3>2
    <3>4. QED  BY <3>1, <3>3
  <2>3. \A i \in 0 .. t - 1 : i \in Good
    <3> HIDE DEF Good
    <3>1. t - 1 \in Nat
      OBVIOUS
    <3>2. QED  BY <2>1, <2>2, <3>1, Upward
  <2>4. ASSUME NEW k \in 1 .. t PROVE rank[k] \in Int
    <3>1. t - k \in 0 .. t - 1 /\ t - (t - k) = k
      OBVIOUS
    <3>2. t - k \in Good
      BY <2>3, <3>1
    <3> HIDE DEF rank
    <3>3. rank[t - (t - k)] \in Int
      BY <3>2
    <3>4. QED  BY <3>1, <3>3
  <2>5. rank = [k \in 1 .. t |-> rank[k]]
    OBVIOUS
  <2> HIDE DEF rank
  <2>6. QED  BY <2>4, <2>5
<1> HIDE DEF rank
<1>13. Ranked(rank, n, cols, t)
  <2>1. \A k \in 1 .. t - 1 :
          rank[k] = nCr[n - A(k)][t - k + 1] - nCr[n - cols[k]][t - k + 1] + rank[k + 1]
    BY <1>2, <1>10
  <2>2. QED  BY <1>11, <1>12, <2>1 DEF Ranked, A
<1>14. QED  BY <1>4, <1>11, <1>13

(* A rank is below the number of combinations that there are of the        *)
(* columns from the k-th on.                                               *)
LEMMA RankRange ==
  ASSUME NEW n \in Nat, NEW t \in Nat, t >= 2, NEW cols \in Combinations(t, n),
         NEW rank, Ranked(rank, n, cols, t)
  PROVE  \A k \in 1 .. t : rank[k] \in Nat /\ rank[k] < nCr[n - After(cols, k)][t - k + 1]
<1> DEFINE A(k) == After(cols, k)
           Good == { i \in Nat : /\ i <= t - 1 /\ rank[t - i] \in Nat
                                 /\ rank[t - i] < nCr[n - A(t - i)][i + 1] }
<1>1. /\ \A k \in 1 .. t : cols[k] \in Nat /\ cols[k] < n /\ A(k) \in Nat /\ A(k) <= cols[k]
      /\ \A k \in 1 .. t - 1 : A(k + 1) = cols[k] + 1
  BY AfterIs
<1>2. /\ rank \in [1 .. t -> Int]
      /\ rank[t] = cols[t] - A(t)
      /\ \A k \in 1 .. t - 1 :
           rank[k] = nCr[n - A(k)][t - k + 1] - nCr[n - cols[k]][t - k + 1] + rank[k + 1]
  BY DEF Ranked
<1> HIDE DEF A
<1>3. 0 \in Good
  <2> DEFINE a == A(t)
             c == cols[t]
  <2>1. a \in Nat /\ c \in Nat /\ c < n /\ a <= c /\ rank[t] = c - a
    <3>1. t \in 1 .. t
      OBVIOUS
    <3>2. QED  BY <1>1, <1>2, <3>1
  <2> HIDE DEF a, c
  <2>2. n - a \in Nat
    BY <2>1
  <2>3. nCr[n - a][1] = n - a
    BY <2>2, OneOrTwo
  <2>4. t - 0 = t /\ 0 + 1 = 1
    OBVIOUS
  <2>5. rank[t] \in Nat /\ rank[t] < nCr[n - a][1]
    BY <2>1, <2>3
  <2>6. QED  BY <2>4, <2>5 DEF a
<1>4. ASSUME NEW i \in 0 .. (t - 1) - 1, i \in Good PROVE i + 1 \in Good
  <2> DEFINE k == t - (i + 1)
             a == A(k)
             c == cols[k]
             r == i + 1
             x == rank[k + 1]
  <2>1. k \in 1 .. t - 1 /\ k \in 1 .. t /\ k + 1 = t - i /\ t - k + 1 = r + 1 /\ r \in Nat
    OBVIOUS
  <2>2. a \in Nat /\ c \in Nat /\ c < n /\ a <= c /\ A(k + 1) = c + 1
    <3> HIDE DEF k
    <3>1. QED  BY <1>1, <2>1
  <2>3. rank[k] = nCr[n - a][r + 1] - nCr[n - c][r + 1] + x
    <3> HIDE DEF k
    <3>1. QED  BY <1>2, <2>1
  <2>4. x \in Nat /\ x < nCr[n - (c + 1)][r]
    <3>1. rank[t - i] \in Nat /\ rank[t - i] < nCr[n - A(t - i)][i + 1]
      BY <1>4
    <3> HIDE DEF k
    <3>2. QED  BY <2>1, <2>2, <3>1
  <2> HIDE DEF k, a, c, r, x
  <2> DEFINE m == n - (c + 1)
             u == n - a
  <2>5. m \in Nat /\ n - c = m + 1 /\ u \in Nat /\ m + 1 <= u /\ m + 1 \in Nat /\ r + 1 \in Nat
    BY <2>1, <2>2
  <2> HIDE DEF m
  <2>6. /\ nCr[m + 1][r + 1] = nCr[m][r] + nCr[m][r + 1] /\ nCr[m][r] \in Nat
        /\ nCr[m][r + 1] \in Nat
    BY <2>1, <2>5, Pascal, Edges
  <2> HIDE DEF u
  <2>7. nCr[m + 1][r + 1] <= nCr[u][r + 1] /\ nCr[u][r + 1] \in Nat
    BY <2>5, BinomialsGrow, Edges
  <2>8. rank[k] = nCr[u][r + 1] - nCr[m + 1][r + 1] + x /\ x < nCr[m][r]
    BY <2>3, <2>4, <2>5 DEF u, m
  <2>9. rank[k] \in Nat /\ rank[k] < nCr[u][r + 1]
    BY <2>4, <2>6, <2>7, <2>8
  <2>10. QED  BY <2>9 DEF k, u, a, r
<1>5. \A i \in 0 .. t - 1 : i \in Good
  <2> HIDE DEF Good
  <2>1. t - 1 \in Nat
    OBVIOUS
  <2>2. QED  BY <1>3, <1>4, <2>1, Upward
<1>6. ASSUME NEW k \in 1 .. t PROVE rank[k] \in Nat /\ rank[k] < nCr[n - A(k)][t - k + 1]
  <2>1. t - k \in 0 .. t - 1 /\ t - (t - k) = k
    OBVIOUS
  <2>2. t - k \in Good
    BY <1>5, <2>1
  <2>3. QED  BY <2>1, <2>2
<1>7. QED  BY <1>6 DEF A

(* The first of the columns is the same if the ranks are.                  *)
LEMMA FirstOnce ==
  ASSUME NEW n \in Nat, NEW r \in Nat, NEW c \in Nat, NEW d \in Nat, c < n, d < n, c < d,
         NEW x \in Nat, x < nCr[n - (c + 1)][r], NEW y \in Nat
  PROVE  nCr[n - c][r + 1] - x # nCr[n - d][r + 1] - y
<1> DEFINE m == n - (c + 1)
           u == n - d
<1>1. m \in Nat /\ n - c = m + 1 /\ u \in Nat /\ u <= m /\ r + 1 \in Nat
  OBVIOUS
<1> HIDE DEF m, u
<1>2. /\ nCr[m + 1][r + 1] = nCr[m][r] + nCr[m][r + 1] /\ nCr[m][r] \in Nat
      /\ nCr[m][r + 1] \in Nat /\ nCr[u][r + 1] \in Nat
  BY <1>1, Pascal, Edges
<1>3. nCr[u][r + 1] <= nCr[m][r + 1]
  BY <1>1, BinomialsGrow
<1>4. x < nCr[m][r]
  BY DEF m
<1>5. nCr[m + 1][r + 1] - x > nCr[m][r + 1]
  BY <1>2, <1>4
<1>6. QED  BY <1>1, <1>2, <1>3, <1>5 DEF u

(* Combinations of one rank are equal.                                     *)
LEMMA RankOnce ==
  ASSUME NEW n \in Nat, NEW t \in Nat, t >= 2,
         NEW cols \in Combinations(t, n), NEW rank, Ranked(rank, n, cols, t),
         NEW cols2 \in Combinations(t, n), NEW rank2, Ranked(rank2, n, cols2, t),
         rank[1] = rank2[1]
  PROVE  cols = cols2
<1> DEFINE A(k) == After(cols, k)
           B(k) == After(cols2, k)
           Same(k) == A(k) = B(k) /\ rank[k] = rank2[k]
           Good == { i \in Nat : i <= t - 1 /\ Same(i + 1) }
<1>1. /\ \A k \in 1 .. t : cols[k] \in Nat /\ cols[k] < n /\ A(k) \in Nat /\ A(k) <= cols[k]
      /\ \A k \in 1 .. t - 1 : A(k + 1) = cols[k] + 1
      /\ \A k \in 1 .. t : cols2[k] \in Nat /\ cols2[k] < n /\ B(k) \in Nat /\ B(k) <= cols2[k]
      /\ \A k \in 1 .. t - 1 : B(k + 1) = cols2[k] + 1
  BY AfterIs
<1>2. /\ \A k \in 1 .. t : rank[k] \in Nat /\ rank[k] < nCr[n - A(k)][t - k + 1]
      /\ \A k \in 1 .. t : rank2[k] \in Nat /\ rank2[k] < nCr[n - B(k)][t - k + 1]
  BY RankRange
<1>3. /\ rank[t] = cols[t] - A(t) /\ rank2[t] = cols2[t] - B(t)
      /\ \A k \in 1 .. t - 1 :
           rank[k] = nCr[n - A(k)][t - k + 1] - nCr[n - cols[k]][t - k + 1] + rank[k + 1]
      /\ \A k \in 1 .. t - 1 :
           rank2[k] = nCr[n - B(k)][t - k + 1] - nCr[n - cols2[k]][t - k + 1] + rank2[k + 1]
  BY DEF Ranked
<1>4. A(1) = 0 /\ B(1) = 0
  BY DEF After
<1> HIDE DEF A, B
<1>5. ASSUME NEW k \in 1 .. t - 1, Same(k)
      PROVE  cols[k] = cols2[k] /\ Same(k + 1)
  <2> DEFINE c == cols[k]
             d == cols2[k]
             r == t - k
             x == rank[k + 1]
             y == rank2[k + 1]
             u == nCr[n - A(k)][r + 1]
  <2>1. k \in 1 .. t /\ k + 1 \in 1 .. t /\ t - k + 1 = r + 1 /\ t - (k + 1) + 1 = r /\ r \in Nat
    OBVIOUS
  <2>2. /\ c \in Nat /\ c < n /\ d \in Nat /\ d < n /\ A(k) \in Nat /\ A(k) <= c
        /\ A(k + 1) = c + 1 /\ B(k + 1) = d + 1 /\ A(k) = B(k)
    BY <1>1, <1>5, <2>1
  <2>3. x \in Nat /\ x < nCr[n - (c + 1)][r] /\ y \in Nat /\ y < nCr[n - (d + 1)][r]
    BY <1>2, <2>1, <2>2
  <2>4. /\ rank[k] = u - nCr[n - c][r + 1] + x
        /\ rank2[k] = u - nCr[n - d][r + 1] + y
    BY <1>3, <2>1, <2>2
  <2>5. u \in Nat /\ nCr[n - c][r + 1] \in Nat /\ nCr[n - d][r + 1] \in Nat
    <3> DEFINE a == A(k)
    <3>1. a \in Nat /\ a <= c
      BY <2>2
    <3> HIDE DEF a, c, d, r
    <3>2. n - a \in Nat /\ n - c \in Nat /\ n - d \in Nat /\ r + 1 \in Nat
      BY <2>1, <2>2, <3>1
    <3>3. QED  BY <3>2, Edges DEF a
  <2>6. rank[k] = rank2[k]
    BY <1>5
  <2> HIDE DEF c, d, r, x, y, u
  <2>7. nCr[n - c][r + 1] - x = nCr[n - d][r + 1] - y
    BY <2>3, <2>4, <2>5, <2>6
  <2>8. ASSUME c < d PROVE FALSE
    <3>1. r \in Nat /\ c \in Nat /\ d \in Nat /\ c < n /\ d < n /\ x \in Nat /\ y \in Nat
      BY <2>1, <2>2, <2>3
    <3>2. x < nCr[n - (c + 1)][r]
      BY <2>3
    <3>3. nCr[n - c][r + 1] - x # nCr[n - d][r + 1] - y
      BY ZenonT(60), <2>8, <3>1, <3>2, FirstOnce
    <3>4. QED  BY <2>7, <3>3
  <2>9. ASSUME d < c PROVE FALSE
    <3>1. r \in Nat /\ c \in Nat /\ d \in Nat /\ c < n /\ d < n /\ x \in Nat /\ y \in Nat
      BY <2>1, <2>2, <2>3
    <3>2. y < nCr[n - (d + 1)][r]
      BY <2>3
    <3>3. nCr[n - d][r + 1] - y # nCr[n - c][r + 1] - x
      BY ZenonT(60), <2>9, <3>1, <3>2, FirstOnce
    <3>4. QED  BY <2>7, <3>3
  <2>10. c = d
    BY <2>2, <2>8, <2>9
  <2>11. x = y
    BY <2>3, <2>5, <2>7, <2>10
  <2>12. QED  BY <2>2, <2>10, <2>11 DEF c, d, x, y
<1>6. \A i \in 0 .. t - 1 : i \in Good
  <2>1. 0 \in Good
    BY <1>4
  <2>2. ASSUME NEW i \in 0 .. (t - 1) - 1, i \in Good PROVE i + 1 \in Good
    <3>1. i + 1 \in 1 .. t - 1
      OBVIOUS
    <3>2. Same(i + 1)
      BY <2>2
    <3> HIDE DEF Same
    <3>3. Same((i + 1) + 1)
      BY <1>5, <3>1, <3>2
    <3>4. QED  BY <3>1, <3>3
  <2> HIDE DEF Good
  <2>3. t - 1 \in Nat
    OBVIOUS
  <2>4. QED  BY <2>1, <2>2, <2>3, Upward
<1>7. ASSUME NEW k \in 1 .. t PROVE Same(k)
  <2>1. k - 1 \in 0 .. t - 1 /\ (k - 1) + 1 = k
    OBVIOUS
  <2>2. k - 1 \in Good
    BY <1>6, <2>1
  <2> HIDE DEF Same
  <2>3. Same((k - 1) + 1)
    BY <2>2
  <2>4. QED  BY <2>1, <2>3
<1>8. ASSUME NEW k \in 1 .. t PROVE cols[k] = cols2[k]
  <2>1. Same(k)
    BY <1>7
  <2>2. CASE k = t
    <3> DEFINE c == cols[k]
               d == cols2[k]
               a == A(k)
    <3>1. c \in Nat /\ d \in Nat /\ a \in Nat /\ c - a = d - a
      BY <1>1, <1>3, <2>1, <2>2
    <3> HIDE DEF c, d, a
    <3>2. c = d
      BY <3>1
    <3>3. QED  BY <3>2 DEF c, d
  <2>3. CASE k # t
    <3>1. k \in 1 .. t - 1
      BY <2>3
    <3>2. QED  BY <1>5, <2>1, <3>1
  <2>4. QED  BY <2>2, <2>3
<1>9. cols \in [1 .. t -> 0 .. n - 1] /\ cols2 \in [1 .. t -> 0 .. n - 1]
  BY DEF Combinations
<1>10. QED  BY <1>8, <1>9

(* The number that the signs of a tuple are read as.                       *)
Values(value, bits, t) ==
  /\ value \in [0 .. t -> Nat]
  /\ \A k \in 1 .. t : value[k] = 2 * value[k - 1] + bits[k]

(* The number of a choice of signs, read from the front.                   *)
LEMMA NumberIs ==
  ASSUME NEW t \in Nat, NEW bits \in [1 .. t -> {0, 1}]
  PROVE  \E value : /\ Values(value, bits, t) /\ value[0] = 0
                    /\ value[t] = Number(bits)
<1> DEFINE F(v) == [k \in 0 .. t |-> IF k = 0 THEN 0 ELSE 2 * v[k - 1] + bits[k]]
           Fl(v) == [k \in 0 .. Len(bits) |-> IF k = 0 THEN 0 ELSE 2 * v[k - 1] + bits[k]]
           value == CHOOSE v : v = F(v)
           step == [i \in Nat |-> [x \in Nat |-> IF i < t THEN 2 * x + bits[i + 1] ELSE 0]]
<1>1. Len(bits) = t /\ \A k \in 1 .. t : bits[k] \in Nat
  OBVIOUS
<1>2. Number(bits) = value[t]
  <2>1. Number(bits) = (CHOOSE v : v = Fl(v))[Len(bits)]
    BY DEF Number
  <2>2. QED  BY <1>1, <2>1
<1>3. PICK g : FollowsTo(g, Nat, t, 0, step)
  <2>1. step \in [Nat -> [Nat -> Nat]]
    <3>1. ASSUME NEW i \in Nat, NEW x \in Nat
          PROVE  (IF i < t THEN 2 * x + bits[i + 1] ELSE 0) \in Nat
      <4>1. i < t => i + 1 \in 1 .. t
        OBVIOUS
      <4>2. i < t => bits[i + 1] \in Nat
        BY <1>1, <4>1
      <4>3. QED  BY <4>2
    <3>2. QED  BY <3>1
  <2> HIDE DEF step
  <2>2. QED  BY <2>1, RecursionTo
<1>4. g = F(g) /\ g \in [0 .. t -> Nat]
  <2>1. /\ g \in [0 .. t -> Nat]
        /\ g = [n \in 0 .. t |-> IF n = 0 THEN 0 ELSE step[n - 1][g[n - 1]]]
    BY <1>3 DEF FollowsTo
  <2>2. ASSUME NEW n \in 0 .. t, n # 0 PROVE step[n - 1][g[n - 1]] = 2 * g[n - 1] + bits[n]
    <3>1. n - 1 \in Nat /\ n - 1 < t /\ n - 1 \in 0 .. t /\ (n - 1) + 1 = n
      BY <2>2
    <3>2. g[n - 1] \in Nat
      BY <2>1, <3>1
    <3>3. QED  BY <3>1, <3>2
  <2> HIDE DEF step
  <2>3. QED  BY <2>1, <2>2
<1>5. value = F(value)
  <2>1. \E v : v = F(v)
    BY <1>4
  <2> HIDE DEF F
  <2>2. QED  BY <2>1
<1> HIDE DEF value
<1>6. \A k \in 0 .. t : value[k] = IF k = 0 THEN 0 ELSE 2 * value[k - 1] + bits[k]
  <2>1. \A k \in 0 .. t : F(value)[k] = IF k = 0 THEN 0 ELSE 2 * value[k - 1] + bits[k]
    OBVIOUS
  <2> HIDE DEF F
  <2>2. QED  BY <1>5, <2>1
<1>7. value[0] = 0
  BY <1>6
<1>8. ASSUME NEW k \in 1 .. t PROVE value[k] = 2 * value[k - 1] + bits[k]
  <2>1. k \in 0 .. t /\ k # 0
    OBVIOUS
  <2>2. QED  BY <1>6, <2>1
<1>9. \A k \in 0 .. t : value[k] \in Nat
  <2> DEFINE Good == { k \in Nat : k <= t /\ value[k] \in Nat }
  <2>1. 0 \in Good
    BY <1>7
  <2>2. ASSUME NEW k \in 0 .. t - 1, k \in Good PROVE k + 1 \in Good
    <3>1. k + 1 \in 1 .. t /\ (k + 1) - 1 = k
      OBVIOUS
    <3>2. value[k + 1] = 2 * value[k] + bits[k + 1] /\ bits[k + 1] \in Nat /\ value[k] \in Nat
      BY <1>1, <1>8, <2>2, <3>1
    <3>3. value[k + 1] \in Nat
      BY <3>2
    <3>4. QED  BY <3>1, <3>3
  <2>3. \A k \in 0 .. t : k \in Good
    <3> HIDE DEF Good
    <3>1. QED  BY <2>1, <2>2, Upward
  <2>4. QED  BY <2>3
<1>10. value \in [0 .. t -> Nat]
  <2>1. DOMAIN F(value) = 0 .. t
    OBVIOUS
  <2>2. DOMAIN value = 0 .. t
    BY <1>5, <2>1
  <2>3. \E f : value = [k \in 0 .. t |-> f[k]]
    <3>1. F(value) = [k \in 0 .. t |-> F(value)[k]]
      OBVIOUS
    <3> HIDE DEF F
    <3>2. QED  BY <1>5, <3>1
  <2>4. value = [k \in 0 .. t |-> value[k]]
    BY <2>3
  <2>5. QED  BY <1>9, <2>4
<1>11. Values(value, bits, t)
  BY <1>8, <1>10 DEF Values
<1>12. QED  BY <1>2, <1>7, <1>11

(* Choices of signs with one number are equal.                             *)
LEMMA NumberOnce ==
  ASSUME NEW t \in Nat, NEW bits \in [1 .. t -> {0, 1}], NEW bits2 \in [1 .. t -> {0, 1}],
         Number(bits) = Number(bits2)
  PROVE  bits = bits2
<1>1. PICK v : Values(v, bits, t) /\ v[t] = Number(bits)
  BY NumberIs
<1>2. PICK w : Values(w, bits2, t) /\ w[t] = Number(bits2)
  BY NumberIs
<1> DEFINE Good == { i \in Nat : i <= t /\ v[t - i] = w[t - i] }
<1>3. ASSUME NEW k \in 1 .. t, v[k] = w[k]
      PROVE  bits[k] = bits2[k] /\ v[k - 1] = w[k - 1]
  <2> DEFINE a == v[k - 1]
             b == w[k - 1]
             x == bits[k]
             y == bits2[k]
  <2>1. k - 1 \in 0 .. t
    OBVIOUS
  <2>2. a \in Nat /\ b \in Nat /\ x \in {0, 1} /\ y \in {0, 1}
    BY <1>1, <1>2, <2>1 DEF Values
  <2>3. 2 * a + x = 2 * b + y
    BY <1>1, <1>2, <1>3 DEF Values
  <2> HIDE DEF a, b, x, y
  <2>4. x = y /\ a = b
    BY <2>2, <2>3
  <2>5. QED  BY <2>4 DEF a, b, x, y
<1>4. \A i \in 0 .. t : i \in Good
  <2>1. 0 \in Good
    <3>1. t - 0 = t
      OBVIOUS
    <3>2. QED  BY <1>1, <1>2, <3>1
  <2>2. ASSUME NEW i \in 0 .. t - 1, i \in Good PROVE i + 1 \in Good
    <3> DEFINE k == t - i
    <3>1. k \in 1 .. t /\ k - 1 = t - (i + 1)
      OBVIOUS
    <3>2. v[k] = w[k]
      BY <2>2
    <3> HIDE DEF k
    <3>3. v[k - 1] = w[k - 1]
      BY <1>3, <3>1, <3>2
    <3>4. QED  BY <3>1, <3>3
  <2> HIDE DEF Good
  <2>3. QED  BY <2>1, <2>2, Upward
<1>5. ASSUME NEW k \in 1 .. t PROVE bits[k] = bits2[k]
  <2>1. t - k \in 0 .. t /\ t - (t - k) = k
    OBVIOUS
  <2>2. t - k \in Good
    BY <1>4, <2>1
  <2>3. v[k] = w[k]
    BY <2>1, <2>2
  <2>4. QED  BY <1>3, <2>3
<1>6. QED  BY <1>5

(* What the place is put together from.                                    *)
LEMMA IndexParts ==
  ASSUME NEW n \in Nat, NEW t \in Nat, t >= 2,
         NEW cols \in Combinations(t, n), NEW bits \in [1 .. t -> {0, 1}]
  PROVE  /\ MapIndex(n, cols, bits) = Number(bits) * nCr[n][t] + GetBase(n, cols)
         /\ Number(bits) \in Nat /\ GetBase(n, cols) \in Nat /\ GetBase(n, cols) < nCr[n][t]
         /\ nCr[n][t] \in Nat /\ MapIndex(n, cols, bits) \in Nat
<1> DEFINE N == nCr[n][t]
           a == Number(bits)
           x == GetBase(n, cols)
<1>1. PICK r : Ranked(r, n, cols, t) /\ r[1] = x
  BY BaseIs
<1>2. x \in Nat /\ x < N
  <2>1. 1 \in 1 .. t /\ n - 0 = n /\ t - 1 + 1 = t
    OBVIOUS
  <2>2. After(cols, 1) = 0
    BY DEF After
  <2> HIDE DEF x
  <2>3. r[1] \in Nat /\ r[1] < nCr[n - 0][t - 1 + 1]
    BY <1>1, <2>1, <2>2, RankRange
  <2>4. QED  BY <1>1, <2>1, <2>3
<1>3. a \in Nat
  <2>1. PICK v : Values(v, bits, t) /\ v[t] = Number(bits)
    BY NumberIs
  <2>2. t \in 0 .. t
    OBVIOUS
  <2>3. QED  BY <2>1, <2>2 DEF Values
<1>4. N \in Nat
  BY Edges
<1>5. MapIndex(n, cols, bits) = a * N + x
  <2>1. Len(cols) = t
    BY AfterIs
  <2>2. combnum[t][n] = N
    BY CombnumIs
  <2>3. QED  BY <2>1, <2>2 DEF MapIndex
<1> HIDE DEF N, a, x
<1>6. a * N + x \in Nat
  BY <1>2, <1>3, <1>4
<1>7. QED  BY <1>2, <1>3, <1>4, <1>5, <1>6 DEF N, a, x

(* Get2TupleMapIndex to Get6TupleMapIndex, for any strength and any number *)
(* of columns: two tuples never share a place in a bitmap, so that what is *)
(* recorded of one of them is never taken for the other.                   *)
THEOREM MapIndexOnce ==
  ASSUME NEW n \in Nat, NEW t \in Nat, t >= 2,
         NEW cols \in Combinations(t, n), NEW bits \in [1 .. t -> {0, 1}],
         NEW cols2 \in Combinations(t, n), NEW bits2 \in [1 .. t -> {0, 1}],
         MapIndex(n, cols, bits) = MapIndex(n, cols2, bits2)
  PROVE  cols = cols2 /\ bits = bits2
<1> DEFINE N == nCr[n][t]
           a == Number(bits)
           b == Number(bits2)
           x == GetBase(n, cols)
           y == GetBase(n, cols2)
<1>1. PICK r : Ranked(r, n, cols, t) /\ r[1] = x
  BY BaseIs
<1>2. PICK s : Ranked(s, n, cols2, t) /\ s[1] = y
  BY BaseIs
<1>3. x \in Nat /\ x < N /\ y \in Nat /\ y < N
  BY IndexParts
<1>4. a \in Nat /\ b \in Nat
  BY IndexParts
<1>5. N \in Nat
  BY Edges
<1>6. a * N + x = b * N + y
  <2>1. MapIndex(n, cols, bits) = a * N + x
    BY IndexParts
  <2>2. MapIndex(n, cols2, bits2) = b * N + y
    BY IndexParts
  <2> HIDE DEF a, b, x, y, N
  <2>3. QED  BY <2>1, <2>2
<1> HIDE DEF N, a, b, x, y
<1>7. ASSUME NEW c \in Nat, NEW d \in Nat, NEW u \in Nat, NEW w \in Nat, u < N, w < N,
             c * N + u = d * N + w
      PROVE  ~(c < d)
  <2> SUFFICES ASSUME c < d PROVE FALSE
    OBVIOUS
  <2>1. PICK e \in Nat : d = c + 1 + e
    <3>1. d - c - 1 \in Nat /\ d = c + 1 + (d - c - 1)
      OBVIOUS
    <3>2. QED  BY <3>1
  <2>2. d * N = c * N + N + e * N /\ e * N \in Nat /\ c * N \in Nat
    BY <1>5, <2>1
  <2> DEFINE p == c * N
             q == e * N
  <2>3. p + u = p + N + q + w /\ q \in Nat /\ p \in Nat
    BY <1>7, <2>2
  <2> HIDE DEF p, q
  <2>4. QED  BY <1>5, <1>7, <2>3
<1>8. ~(a < b)
  BY <1>3, <1>4, <1>6, <1>7
<1>9. ~(b < a)
  BY <1>3, <1>4, <1>6, <1>7
<1>10. a = b
  BY <1>4, <1>8, <1>9
<1>11. x = y
  <2> DEFINE p == a * N
  <2>1. p \in Nat /\ p + x = p + y
    BY <1>4, <1>5, <1>6, <1>10
  <2> HIDE DEF p
  <2>2. QED  BY <1>3, <2>1
<1>12. bits = bits2
  BY <1>10, NumberOnce DEF a, b
<1>13. cols = cols2
  BY <1>1, <1>2, <1>11, RankOnce
<1>14. QED  BY <1>12, <1>13

(* Combinations ascend, and are the sets of their columns.                 *)
LEMMA Ascending ==
  ASSUME NEW n \in Nat, NEW k \in Nat, NEW c \in Combinations(k, n)
  PROVE  /\ c \in [1 .. k -> 0 .. n - 1] /\ \A i \in 1 .. k : c[i] \in Nat
         /\ \A i, j \in 1 .. k : i < j => c[i] < c[j]
<1>1. c \in [1 .. k -> 0 .. n - 1] /\ \A i \in 1 .. k - 1 : c[i] < c[i + 1]
  BY DEF Combinations
<1>2. \A i \in 1 .. k : c[i] \in Nat
  BY <1>1
<1>3. ASSUME NEW j \in 1 .. k PROVE \A i \in 1 .. j - 1 : c[i] < c[j]
  <2> DEFINE Good == { m \in Nat : m < k /\ \A i \in 1 .. m : c[i] < c[m + 1] }
  <2>1. 0 \in Good
    OBVIOUS
  <2>2. ASSUME NEW m \in 0 .. (j - 1) - 1, m \in Good PROVE m + 1 \in Good
    <3>1. /\ m + 1 \in Nat /\ m + 1 < k /\ m + 1 \in 1 .. k - 1
          /\ m + 1 \in 1 .. k /\ (m + 1) + 1 \in 1 .. k
      OBVIOUS
    <3>2. c[m + 1] < c[(m + 1) + 1] /\ c[m + 1] \in Nat /\ c[(m + 1) + 1] \in Nat
      BY <1>1, <1>2, <3>1
    <3>3. ASSUME NEW i \in 1 .. m + 1 PROVE c[i] < c[(m + 1) + 1]
      <4>1. CASE i = m + 1
        BY <3>2, <4>1
      <4>2. CASE i # m + 1
        <5>1. i \in 1 .. m /\ i \in 1 .. k
          BY <3>1, <4>2
        <5>2. c[i] < c[m + 1] /\ c[i] \in Nat
          BY <1>2, <2>2, <5>1
        <5>3. QED  BY <3>2, <5>2
      <4>3. QED  BY <4>1, <4>2
    <3>4. QED  BY <3>1, <3>3
  <2>3. \A m \in 0 .. j - 1 : m \in Good
    <3> HIDE DEF Good
    <3>1. j - 1 \in Nat
      OBVIOUS
    <3>2. QED  BY <2>1, <2>2, <3>1, Upward
  <2>4. j - 1 \in Good /\ (j - 1) + 1 = j
    BY <2>3
  <2>5. QED  BY <2>4
<1>4. ASSUME NEW i \in 1 .. k, NEW j \in 1 .. k, i < j PROVE c[i] < c[j]
  <2>1. i \in 1 .. j - 1
    BY <1>4
  <2>2. QED  BY <1>3, <2>1
<1>5. QED  BY <1>1, <1>2, <1>4

(* A set of columns has one ascending combination.                         *)
LEMMA ColumnsOnce ==
  ASSUME NEW n \in Nat, NEW k \in Nat, NEW c \in Combinations(k, n), NEW d \in Combinations(k, n),
         { c[i] : i \in 1 .. k } = { d[i] : i \in 1 .. k }
  PROVE  c = d
<1> DEFINE Bad == { i \in Nat : i \in 1 .. k /\ c[i] # d[i] }
<1>1. /\ c \in [1 .. k -> 0 .. n - 1] /\ d \in [1 .. k -> 0 .. n - 1]
      /\ \A i \in 1 .. k : c[i] \in Nat /\ d[i] \in Nat
      /\ \A i, j \in 1 .. k : i < j => c[i] < c[j]
      /\ \A i, j \in 1 .. k : i < j => d[i] < d[j]
  BY Ascending
<1>2. Bad = {}
  <2> SUFFICES ASSUME Bad # {} PROVE FALSE
    OBVIOUS
  <2>1. PICK m \in Bad : \A y \in Bad : m <= y
    <3> HIDE DEF Bad
    <3>1. Bad \in SUBSET Nat
      BY DEF Bad
    <3>2. QED  BY <3>1, Least
  <2>2. m \in 1 .. k /\ c[m] # d[m] /\ \A j \in 1 .. k : j < m => c[j] = d[j]
    BY <2>1
  <2>3. ASSUME c[m] < d[m] PROVE FALSE
    <3>1. PICK j \in 1 .. k : c[m] = d[j]
      BY <2>2
    <3>2. CASE j < m
      <4>1. c[j] = d[j] /\ c[j] < c[m] /\ c[m] \in Nat
        BY <1>1, <2>2, <3>2
      <4>2. QED  BY <3>1, <4>1
    <3>3. CASE m < j
      <4>1. d[m] < d[j] /\ d[m] \in Nat /\ d[j] \in Nat /\ c[m] \in Nat
        BY <1>1, <2>2, <3>3
      <4>2. QED  BY <2>3, <3>1, <4>1
    <3>4. QED  BY <2>2, <3>1, <3>2, <3>3
  <2>4. ASSUME d[m] < c[m] PROVE FALSE
    <3>1. PICK j \in 1 .. k : d[m] = c[j]
      <4>1. d[m] \in { d[i] : i \in 1 .. k }
        BY <2>2
      <4>2. d[m] \in { c[i] : i \in 1 .. k }
        BY <4>1
      <4>3. QED  BY <4>2
    <3>2. CASE j < m
      <4>1. c[j] = d[j] /\ d[j] < d[m] /\ d[m] \in Nat
        BY <1>1, <2>2, <3>2
      <4>2. QED  BY <3>1, <4>1
    <3>3. CASE m < j
      <4>1. c[m] < c[j] /\ c[m] \in Nat /\ c[j] \in Nat /\ d[m] \in Nat
        BY <1>1, <2>2, <3>3
      <4>2. QED  BY <2>4, <3>1, <4>1
    <3>4. QED  BY <2>2, <3>1, <3>2, <3>3
  <2>5. c[m] \in Nat /\ d[m] \in Nat
    BY <1>1, <2>2
  <2>6. QED  BY <2>2, <2>3, <2>4, <2>5
<1>3. \A i \in 1 .. k : c[i] = d[i]
  BY <1>2
<1>4. QED  BY <1>1, <1>3

(* Every set of columns is one's.                                          *)
LEMMA Enumerated ==
  ASSUME NEW n \in Nat, NEW k \in Nat
  PROVE  \A D \in SUBSET (0 .. n - 1) :
           Cardinality(D) = k => \E c \in Combinations(k, n) : { c[i] : i \in 1 .. k } = D
<1> DEFINE Lists1(m) == \A D \in SUBSET (0 .. n - 1) :
                          Cardinality(D) = m => \E c \in Combinations(m, n) : { c[i] : i \in 1 .. m } = D
           Good == { m \in Nat : Lists1(m) }
<1>0. \A D \in SUBSET (0 .. n - 1) : IsFiniteSet(D)
  <2>1. IsFiniteSet(0 .. n - 1)
    <3>1. 0 \in Int /\ n - 1 \in Int
      OBVIOUS
    <3>2. QED  BY <3>1, FS_Interval
  <2>2. QED  BY <2>1, FS_Subset
<1>1. 0 \in Good
  <2>1. ASSUME NEW D \in SUBSET (0 .. n - 1), Cardinality(D) = 0
        PROVE  \E c \in Combinations(0, n) : { c[i] : i \in 1 .. 0 } = D
    <3>1. D = {}
      BY <1>0, <2>1, FS_EmptySet
    <3> DEFINE c == [i \in 1 .. 0 |-> 0]
    <3>2. c \in Combinations(0, n)
      BY DEF Combinations
    <3>3. { c[i] : i \in 1 .. 0 } = {}
      OBVIOUS
    <3>4. QED  BY <3>1, <3>2, <3>3
  <2>2. QED  BY <2>1
<1>2. ASSUME NEW m \in 0 .. k - 1, m \in Good PROVE m + 1 \in Good
  <2> SUFFICES ASSUME NEW D \in SUBSET (0 .. n - 1), Cardinality(D) = m + 1
               PROVE  \E c \in Combinations(m + 1, n) : { c[i] : i \in 1 .. m + 1 } = D
    BY DEF Good
  <2> DEFINE Above == { b \in Nat : \A v \in D : v <= b }
  <2>1. D # {}
    <3>1. Cardinality({}) = 0
      BY FS_EmptySet
    <3>2. QED  BY <3>1
  <2>2. PICK b \in Above : \A y \in Above : b <= y
    <3>1. n \in Above
      OBVIOUS
    <3> HIDE DEF Above
    <3>2. Above \in SUBSET Nat
      BY DEF Above
    <3>3. QED  BY <3>1, <3>2, Least
  <2>3. b \in D
    <3> SUFFICES ASSUME b \notin D PROVE FALSE
      OBVIOUS
    <3>1. PICK v : v \in D
      BY <2>1
    <3>2. b # 0
      BY <2>2, <3>1
    <3>3. b - 1 \in Above
      BY <2>2, <3>2
    <3>4. b <= b - 1
      BY <2>2, <3>3
    <3>5. QED  BY <2>2, <3>4
  <2> DEFINE E == D \ {b}
  <2>4. Cardinality(E) = m /\ E \in SUBSET (0 .. n - 1)
    <3>1. Cardinality(E) = Cardinality(D) - 1
      BY <1>0, <2>3, FS_RemoveElement
    <3>2. (m + 1) - 1 = m
      OBVIOUS
    <3>3. QED  BY <3>1, <3>2
  <2>5. PICK c \in Combinations(m, n) : { c[i] : i \in 1 .. m } = E
    <3> HIDE DEF E
    <3>1. QED  BY <1>2, <2>4
  <2>6. c \in [1 .. m -> 0 .. n - 1] /\ (\A i \in 1 .. m - 1 : c[i] < c[i + 1])
    BY DEF Combinations
  <2>7. \A i \in 1 .. m : c[i] < b
    <3>1. \A i \in 1 .. m : c[i] \in E
      BY <2>5
    <3>2. ASSUME NEW v \in E PROVE v < b
      <4>1. v \in Nat /\ v # b /\ v <= b /\ b \in Nat
        BY <2>2
      <4>2. QED  BY <4>1
    <3>3. QED  BY <3>1, <3>2
  <2> DEFINE d == [i \in 1 .. m + 1 |-> IF i = m + 1 THEN b ELSE c[i]]
  <2>8. d \in [1 .. m + 1 -> 0 .. n - 1]
    BY <2>3, <2>6
  <2>9. ASSUME NEW i \in 1 .. m PROVE d[i] < d[i + 1]
    <3>1. i \in 1 .. m + 1 /\ i + 1 \in 1 .. m + 1 /\ i # m + 1
      OBVIOUS
    <3>2. CASE i = m
      BY <2>7, <3>1, <3>2
    <3>3. CASE i # m
      <4>1. i \in 1 .. m - 1 /\ i + 1 # m + 1
        BY <3>3
      <4>2. d[i] = c[i] /\ d[i + 1] = c[i + 1]
        BY <3>1, <4>1
      <4>3. QED  BY <2>6, <4>1, <4>2
    <3>4. QED  BY <3>2, <3>3
  <2>10. d \in Combinations(m + 1, n)
    <3>1. 1 .. (m + 1) - 1 = 1 .. m
      OBVIOUS
    <3> HIDE DEF d
    <3>2. QED  BY <2>8, <2>9, <3>1 DEF Combinations
  <2>11. { d[i] : i \in 1 .. m + 1 } = D
    <3>1. \A i \in 1 .. m + 1 : d[i] \in D
      <4>1. ASSUME NEW i \in 1 .. m + 1 PROVE d[i] \in D
        <5>1. CASE i = m + 1
          BY <2>3, <5>1
        <5>2. CASE i # m + 1
          <6>1. i \in 1 .. m
            BY <5>2
          <6>2. c[i] \in E
            BY <2>5, <6>1
          <6>3. QED  BY <5>2, <6>2
        <5>3. QED  BY <5>1, <5>2
      <4>2. QED  BY <4>1
    <3>2. ASSUME NEW v \in D PROVE \E i \in 1 .. m + 1 : d[i] = v
      <4>1. CASE v = b
        <5>1. m + 1 \in 1 .. m + 1
          OBVIOUS
        <5>2. QED  BY <4>1, <5>1
      <4>2. CASE v # b
        <5>1. PICK i \in 1 .. m : c[i] = v
          BY <2>5, <4>2
        <5>2. i \in 1 .. m + 1 /\ i # m + 1
          OBVIOUS
        <5>3. QED  BY <5>1, <5>2
      <4>3. QED  BY <4>1, <4>2
    <3> HIDE DEF d
    <3>3. QED  BY <3>1, <3>2
  <2>12. QED  BY <2>10, <2>11
<1>3. k \in Good
  <2> HIDE DEF Good
  <2>1. \A m \in 0 .. k : m \in Good
    BY <1>1, <1>2, Upward
  <2>2. QED  BY <2>1
<1>4. QED  BY <1>3

(* A combination of k columns has k of them.                               *)
LEMMA ColumnsCount ==
  ASSUME NEW n \in Nat, NEW k \in Nat, NEW c \in Combinations(k, n)
  PROVE  Cardinality({ c[i] + 1 : i \in 1 .. k }) = k
<1> DEFINE S == { c[i] + 1 : i \in 1 .. k }
           f == [i \in 1 .. k |-> c[i] + 1]
<1>1. /\ \A i \in 1 .. k : c[i] \in Nat
      /\ \A i, j \in 1 .. k : i < j => c[i] < c[j]
  BY Ascending
<1>2. ASSUME NEW i \in 1 .. k, NEW j \in 1 .. k, i # j PROVE f[i] # f[j]
  <2>1. f[i] = c[i] + 1 /\ f[j] = c[j] + 1 /\ c[i] \in Nat /\ c[j] \in Nat
    BY <1>1
  <2>2. i < j \/ j < i
    BY <1>2
  <2>3. c[i] # c[j]
    BY <1>1, <2>1, <2>2
  <2>4. QED  BY <2>1, <2>3
<1>3. f \in [1 .. k -> S] /\ \A s \in S : \E i \in 1 .. k : f[i] = s
  OBVIOUS
<1> HIDE DEF f
<1>4. f \in Surjection(1 .. k, S) /\ f \in Injection(1 .. k, S)
  <2> HIDE DEF S
  <2>1. QED  BY <1>2, <1>3 DEF Surjection, Injection, IsInjective
<1>5. IsFiniteSet(1 .. k) /\ Cardinality(1 .. k) = k
  <2>1. 1 \in Int /\ k \in Int
    OBVIOUS
  <2>2. IsFiniteSet(1 .. k) /\ Cardinality(1 .. k) = IF 1 > k THEN 0 ELSE k - 1 + 1
    BY <2>1, FS_Interval
  <2>3. QED  BY <2>2
<1> HIDE DEF S
<1>6. Cardinality(S) = k
  BY <1>4, <1>5, FS_Surjection
<1>7. QED  BY <1>6 DEF S

=============================================================================
